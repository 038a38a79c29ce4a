----------------------------- MODULE PluginHost -----------------------------
(***************************************************************************)
(* A Level B plugin process and the goroutines that use it                 *)
(* (core/pkg/plugin/plugin.go): Start, Call, Health, Stop, Exited,         *)
(* WaitExit and the reaper.                                                *)
(*                                                                         *)
(* One mutex guards closed, health and nextID, and Call holds it while it  *)
(* waits for the child's line.  The reaper is the one goroutine that calls *)
(* cmd.Wait, which closes both pipes when the child has ended.  A line is  *)
(* the id of the request it answers; one nobody asked for (a log line, a   *)
(* notification) is Stray, and Long when it is over the scanner's buffer.  *)
(***************************************************************************)
EXTENDS Integers, Sequences, SequencesExt

CONSTANTS
  Callers,    \* goroutines that use the plugin
  Entries,    \* manifest entries, as path segments
  Claims,     \* sets of capability names a manifest may claim
  CoreIDs,    \* the capabilities the core owns
  MaxCalls,   \* bound: uses of the plugin
  MaxStrays   \* bound: lines nobody asked for

ASSUME HostAssumption ==
  /\ MaxCalls \in Nat /\ MaxStrays \in Nat
  /\ "nobody" \notin Callers

VARIABLES
  mu,        \* who holds the mutex
  closed, health, nextID,
  waitCh,    \* closed by the reaper
  reaper,    \* the reaper's next step
  child,     \* the process
  pipes,     \* the parent's ends: cmd.Wait closes them
  stdin,     \* requests the child has not read
  stdout,    \* lines the parent has not read
  buffered,  \* lines in the scanner's buffer
  broken,    \* the scanner has failed, for good
  use,       \* what each goroutine does
  calls, strays

hostVars == <<mu, closed, health, nextID, waitCh, reaper>>
childVars == <<child, pipes, stdin, stdout, buffered, broken>>
vars == <<hostVars, childVars, use, calls, strays>>

Nobody == "nobody"
Stray == 0
Long == -1
Idle == [op |-> "none", pc |-> "idle", id |-> 0, answer |-> "none", line |-> 0]
Ops == {"call", "health", "stop", "exited", "waitExit"}
Places == {"idle", "lock", "write", "scan", "select", "done"} \cup Ops
Answers == {"none", "closed", "unwritten", "line", "died", "stopped", "yes", "no",
            "HEALTHY", "DISABLED"}
Ended(c) == use[c].pc \in {"idle", "done"}

-----------------------------------------------------------------------------
(* LoadDir and start: nothing is spawned for a bad manifest. *)

Dir == <<"plugins", "this">>
Resolved(entry) ==
  FoldLeft(LAMBDA at, s : IF s = ".." THEN (IF at = <<>> THEN at ELSE Front(at))
                          ELSE IF s = "." THEN at ELSE Append(at, s),
           Dir, entry)
EntryOK(entry) ==
  /\ entry # <<>>           \* named
  /\ Head(entry) # "/"      \* relative
  /\ IsPrefix(Dir, Resolved(entry))
OwnershipOK(claims) == claims \cap CoreIDs = {}

Start ==
  /\ child = "unborn"
  /\ \E entry \in Entries, claims \in Claims :
       /\ EntryOK(entry) /\ OwnershipOK(claims)
       /\ child' = "up"
  /\ reaper' = "wait" /\ health' = "HEALTHY"
  /\ UNCHANGED <<mu, closed, nextID, waitCh, pipes, stdin, stdout, buffered,
                 broken, use, calls, strays>>

Take(c) ==
  /\ Ended(c) /\ child # "unborn"
  /\ calls < MaxCalls /\ calls' = calls + 1
  /\ \E op \in Ops :
       use' = [use EXCEPT ![c] = [Idle EXCEPT !.op = op, !.pc = "lock"]]
  /\ UNCHANGED <<hostVars, childVars, strays>>

Lock(c) ==
  /\ use[c].pc = "lock" /\ mu = Nobody
  /\ mu' = c
  /\ use' = [use EXCEPT ![c].pc = use[c].op]
  /\ UNCHANGED <<closed, health, nextID, waitCh, reaper, childVars, calls, strays>>

\* The deferred Unlock, and the answer.
Return(c, answer) ==
  /\ mu' = Nobody
  /\ use' = [use EXCEPT ![c].pc = "done", ![c].answer = answer]

-----------------------------------------------------------------------------
(* Call. *)

Call(c) ==
  /\ use[c].pc = "call"
  /\ IF closed
       THEN Return(c, "closed") /\ UNCHANGED nextID
       ELSE /\ nextID' = nextID + 1
            /\ use' = [use EXCEPT ![c].pc = "write", ![c].id = nextID + 1]
            /\ UNCHANGED mu
  /\ UNCHANGED <<closed, health, waitCh, reaper, childVars, calls, strays>>

\* Mutant: the mutex is given up while the answer is awaited.
WriteAndUnlock(c) ==
  /\ use[c].pc = "write"
  /\ IF pipes = "closed" \/ child = "dead"
       THEN Return(c, "unwritten") /\ UNCHANGED stdin
       ELSE /\ stdin' = Append(stdin, use[c].id)
            /\ use' = [use EXCEPT ![c].pc = "scan"]
            /\ mu' = Nobody
  /\ UNCHANGED <<closed, health, nextID, waitCh, reaper, child, pipes, stdout,
                 buffered, broken, calls, strays>>

\* A pipe that is closed, here or there, fails the write and says no more.
Write(c) ==
  /\ use[c].pc = "write"
  /\ IF pipes = "closed" \/ child = "dead"
       THEN Return(c, "unwritten") /\ UNCHANGED stdin
       ELSE /\ stdin' = Append(stdin, use[c].id)
            /\ use' = [use EXCEPT ![c].pc = "scan"]
            /\ UNCHANGED mu
  /\ UNCHANGED <<closed, health, nextID, waitCh, reaper, child, pipes, stdout,
                 buffered, broken, calls, strays>>

\* Scan takes the next line, whosever it is; of a long one, what the buffer
\* holds, when Scan is called again after it failed ...
ScanLine(c) ==
  /\ use[c].pc = "scan"
  /\ buffered # <<>> /\ (broken \/ Head(buffered) # Long)
  /\ buffered' = Tail(buffered)
  /\ mu' = Nobody
  /\ use' = [use EXCEPT ![c].pc = "done", ![c].answer = "line", ![c].line = Head(buffered)]
  /\ UNCHANGED <<closed, health, nextID, waitCh, reaper, child, pipes, stdin,
                 stdout, broken, calls, strays>>

\* ... or reads what the pipe holds ...
ScanRead(c) ==
  /\ use[c].pc = "scan" /\ ~broken
  /\ buffered = <<>> /\ stdout # <<>> /\ pipes = "open"
  /\ buffered' = stdout /\ stdout' = <<>>
  /\ UNCHANGED <<hostVars, child, pipes, stdin, broken, use, calls, strays>>

\* Mutant: the end of the file is waited out.
ScanFailsOnClosed ==
  \/ ~broken /\ buffered # <<>> /\ Head(buffered) = Long
  \/ buffered = <<>> /\ broken

\* ... or fails: a line too long, the end of the file or a closed pipe, or a
\* failure before with nothing left.
ScanFails ==
  \/ ~broken /\ buffered # <<>> /\ Head(buffered) = Long
  \/ buffered = <<>> /\ (broken \/ pipes = "closed" \/ (child = "dead" /\ stdout = <<>>))

Scan(c) ==
  \/ ScanLine(c)
  \/ ScanRead(c)
  \/ /\ use[c].pc = "scan" /\ ScanFails
     /\ broken' = TRUE /\ health' = "DISABLED"
     /\ buffered' = IF buffered = <<>> THEN <<>> ELSE <<Head(buffered)>>
     /\ Return(c, "died")
     /\ UNCHANGED <<closed, nextID, waitCh, reaper, child, pipes, stdin,
                    stdout, calls, strays>>

-----------------------------------------------------------------------------
(* Health, Stop, Exited, WaitExit. *)

Health(c) ==
  /\ use[c].pc = "health"
  /\ Return(c, health)
  /\ UNCHANGED <<closed, health, nextID, waitCh, reaper, childVars, calls, strays>>

\* The child is killed once; its end is the reaper's to record.
Stop(c) ==
  /\ use[c].pc = "stop"
  /\ closed' = TRUE
  /\ health' = IF closed THEN health ELSE "DISABLED"
  /\ child' = IF closed \/ child = "dead" THEN child ELSE "killed"
  /\ Return(c, "stopped")
  /\ UNCHANGED <<nextID, waitCh, reaper, pipes, stdin, stdout, buffered, broken,
                 calls, strays>>

\* waitCh is read under the mutex; cmd.ProcessState is written by cmd.Wait
\* outside it, so between the two either answer may be read.
Exited(c) ==
  /\ use[c].pc = "exited"
  /\ \E told \in (IF waitCh = "closed" THEN {TRUE}
                  ELSE IF reaper = "wait" THEN {FALSE} ELSE BOOLEAN) :
       /\ health' = IF told THEN "DISABLED" ELSE health
       /\ Return(c, IF told THEN "yes" ELSE "no")
  /\ UNCHANGED <<closed, nextID, waitCh, reaper, childVars, calls, strays>>

\* The channel is read under the mutex and waited for without it.
WaitExit(c) ==
  /\ \/ /\ use[c].pc = "waitExit"
        /\ mu' = Nobody
        /\ use' = [use EXCEPT ![c].pc = "select"]
     \/ /\ use[c].pc = "select" /\ UNCHANGED mu
        /\ \/ waitCh = "closed" /\ use' = [use EXCEPT ![c].pc = "done", ![c].answer = "yes"]
           \/ use' = [use EXCEPT ![c].pc = "done", ![c].answer = "no"]
  /\ UNCHANGED <<closed, health, nextID, waitCh, reaper, childVars, calls, strays>>

-----------------------------------------------------------------------------
(* The reaper. *)

\* Mutant: the waiters are woken before the health is set.
WaitAndClose ==
  /\ reaper = "wait" /\ child = "dead"
  /\ reaper' = "mark" /\ pipes' = "closed" /\ waitCh' = "closed"
  /\ UNCHANGED <<mu, closed, health, nextID, child, stdin, stdout,
                 buffered, broken, use, calls, strays>>

\* cmd.Wait returns when the child has ended, and has closed the pipes.
Wait ==
  /\ reaper = "wait" /\ child = "dead"
  /\ reaper' = "mark" /\ pipes' = "closed"
  /\ UNCHANGED <<mu, closed, health, nextID, waitCh, child, stdin, stdout,
                 buffered, broken, use, calls, strays>>

Mark ==
  /\ reaper = "mark" /\ mu = Nobody
  /\ health' = "DISABLED" /\ reaper' = "close"
  /\ UNCHANGED <<mu, closed, nextID, waitCh, childVars, use, calls, strays>>

CloseCh ==
  /\ reaper = "close"
  /\ waitCh' = "closed" /\ reaper' = "over"
  /\ UNCHANGED <<mu, closed, health, nextID, childVars, use, calls, strays>>

Reaper == Wait \/ Mark \/ CloseCh

-----------------------------------------------------------------------------
(* External: the child. *)

Answer ==
  /\ child = "up" /\ stdin # <<>>
  /\ stdin' = Tail(stdin) /\ stdout' = Append(stdout, Head(stdin))
  /\ UNCHANGED <<hostVars, child, pipes, buffered, broken, use, calls, strays>>

Chatter ==
  /\ child = "up" /\ strays < MaxStrays
  /\ strays' = strays + 1
  /\ \E line \in {Stray, Long} : stdout' = Append(stdout, line)
  /\ UNCHANGED <<hostVars, child, pipes, stdin, buffered, broken, use, calls>>

Die ==
  /\ child' = "dead"
  /\ UNCHANGED <<hostVars, pipes, stdin, stdout, buffered, broken, use, calls, strays>>

Child == Answer \/ Chatter \/ (child = "up" /\ Die) \/ (child = "killed" /\ Die)

Init ==
  /\ mu = Nobody /\ closed = FALSE /\ health = "none" /\ nextID = 0
  /\ waitCh = "open" /\ reaper = "none"
  /\ child = "unborn" /\ pipes = "open"
  /\ stdin = <<>> /\ stdout = <<>> /\ buffered = <<>> /\ broken = FALSE
  /\ use = [c \in Callers |-> Idle]
  /\ calls = 0 /\ strays = 0

User(c) ==
  \/ Lock(c) \/ Call(c) \/ Write(c) \/ Scan(c) \/ Health(c) \/ Stop(c)
  \/ Exited(c) \/ WaitExit(c)

Next == Start \/ (\E c \in Callers : Take(c) \/ User(c)) \/ Reaper \/ Child

\* The goroutines run, a killed process ends; the child need not answer.
Fairness ==
  /\ \A c \in Callers : WF_vars(User(c))
  /\ WF_vars(Reaper)
  /\ WF_vars(child = "killed" /\ Die)

Spec == Init /\ [][Next]_vars /\ Fairness

-----------------------------------------------------------------------------
(* Properties. *)

Returned(c, op) == use[c].pc = "done" /\ use[c].op = op

Jobs == [op : Ops \cup {"none"}, pc : Places, id : Nat, answer : Answers, line : Int]

TypeOK ==
  /\ mu \in Callers \cup {Nobody}
  /\ health \in {"none", "HEALTHY", "DISABLED"}
  /\ waitCh \in {"open", "closed"} /\ pipes \in {"open", "closed"}
  /\ reaper \in {"none", "wait", "mark", "close", "over"}
  /\ child \in {"unborn", "up", "killed", "dead"}
  /\ closed \in BOOLEAN /\ broken \in BOOLEAN
  /\ nextID \in Nat /\ calls \in Nat /\ strays \in Nat
  /\ stdin \in Seq(Nat) /\ stdout \in Seq(Int) /\ buffered \in Seq(Int)
  /\ use \in [Callers -> Jobs]

\* Answers are told apart by their order alone: as long as the child says
\* nothing it was not asked for, a call that gets a line gets its own (Call
\* matches no ids and relies on the mutex being held over the round trip).
AnswerIsMine ==
  strays = 0 =>
    \A c \in Callers :
      Returned(c, "call") /\ use[c].answer = "line" => use[c].line = use[c].id

\* Whoever is told of the child's end is told the truth and finds the plugin
\* disabled: Exited and WaitExit against the reaper's three steps.
ReportsAreTrue ==
  /\ waitCh = "closed" => health = "DISABLED" /\ child = "dead"
  /\ \A c \in Callers :
       (Returned(c, "exited") \/ Returned(c, "waitExit")) /\ use[c].answer = "yes"
         => child = "dead"

\* Call's own warning: a live child that says nothing holds every caller.
Wedged == mu # Nobody /\ use[mu].pc = "scan" /\ child = "up"

\* A Stop ends, and the end of the child it killed is recorded, unless a Call
\* waits for ever for a live child.
StopReturns ==
  \/ <>[]Wedged
  \/ /\ \A c \in Callers :
          (use[c].pc = "lock" /\ use[c].op = "stop") ~> Returned(c, "stop")
     /\ closed ~> (waitCh = "closed")

\* Claimed of a failed Scan, "EOF/error = plugin died mid-call" (plugin.go:178);
\* not so: a line over the buffer disables a plugin whose process goes on.
DisabledMeansDown ==
  health = "DISABLED" => closed \/ child = "dead"

\* Claimed: "no response matching needed" (plugin.go:151); one line nobody
\* asked for shifts every later answer by one.
AnswersMatch ==
  \A c \in Callers :
    Returned(c, "call") /\ use[c].answer = "line" => use[c].line \in {use[c].id, Stray, Long}

=============================================================================
