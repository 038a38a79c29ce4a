------------------------------ MODULE Switcher ------------------------------
(***************************************************************************)
(* The switcher service (core/cmd/crossos/switcher.go) and the panel that  *)
(* polls it (macos/Sources/CrossOSApp/SwitcherOverlay.swift).              *)
(*                                                                         *)
(* The dispatch worker runs one summon or commit at a time, each a few     *)
(* critical sections with calls to the window server between them.  The    *)
(* panel waits for triggers on a connection of its own and re-reads the    *)
(* windows after each; a panel shown again has a new connection, and an    *)
(* answer to the old one is discarded.                                     *)
(***************************************************************************)
EXTENDS WinSwitch

CONSTANTS
  FirstList,   \* the list of rows at the start
  Polls,       \* the panel's connections
  QueueMax,    \* switcherService.max
  MaxJobs,     \* bound: summons and commits
  MaxChanges   \* bound: changes of the windows

\* No row of the service is marked as one that came after the summon.
Lists == Seq([id : Windows, skip : BOOLEAN, late : {FALSE}])
Distinct(rows) == \A i, j \in DOMAIN rows : rows[i].id = rows[j].id => i = j

ASSUME SwitcherAssumption ==
  /\ FirstList \in Lists /\ Distinct(FirstList)
  /\ Polls # {}
  /\ QueueMax \in Nat \ {0} /\ MaxJobs \in Nat /\ MaxChanges \in Nat

VARIABLES
  list,      \* the window server's list, front to back
  changes,   \* changes of it so far
  sess,      \* Session
  open,      \* a summon waits for its commit
  queue,     \* triggers nobody has read
  signal,    \* the one hint that there are some
  at,        \* where the worker is
  job,       \* what it has in hand: rows, target, the trigger to fire
  jobsDone,  \* jobs so far
  pollAt,    \* where each poll is
  pollHas,   \* what it has in hand
  live,      \* the poll of the panel that is up
  fired,     \* history: the actions fired, in order
  dropped,   \* history: triggers pushed out of the queue
  taken,     \* history: triggers read, in order
  seen,      \* history: triggers the live panel acted on, in order
  shown,     \* history: what the panel drew in this session
  failed,    \* history: the last commit fired nothing
  reopened   \* history: the panel was shown again

serverVars == <<list, changes>>
serviceVars == <<sess, open, queue, signal>>
workerVars == <<at, job, jobsDone>>
pollVars == <<pollAt, pollHas, live>>
pastVars == <<fired, dropped, taken, seen, shown, failed, reopened>>
vars == <<serverVars, serviceVars, workerVars, pollVars, pastVars>>

NoJob == [rows |-> <<>>, target |-> NoWindow, action |-> "none"]
Nothing == [trigger |-> 0, rows |-> <<>>]
NotShown == [rows |-> <<>>, target |-> NoWindow]

Row(id, skip) == [id |-> id, skip |-> skip, late |-> FALSE]
Ids(rows) == {rows[i].id : i \in DOMAIN rows}
InOrder(s) == \A i, j \in DOMAIN s : i < j => s[i] < s[j]

TypeOK ==
  /\ list \in Lists /\ Distinct(list) /\ changes \in Nat
  /\ sess \in [target : Windows \cup {NoWindow}, picked : BOOLEAN, last : Nat,
               visible : Nat, searching : BOOLEAN]
  /\ open \in BOOLEAN /\ signal \in BOOLEAN
  /\ queue \in Seq(Nat) /\ Len(queue) <= QueueMax
  /\ at \in {"idle", "summonRows", "summon", "commitRows", "commit", "focus",
             "fire", "signal"}
  /\ job \in [rows : Lists, target : Windows \cup {NoWindow},
              action : {"none", "summon", "commit"}]
  /\ jobsDone \in Nat
  /\ pollAt \in [Polls -> {"out", "take", "parking", "parked", "answer", "rows",
                         "draw"}]
  /\ pollHas \in [Polls -> [trigger : Nat, rows : Lists]]
  /\ live \in Polls
  /\ fired \in Seq({"summon", "commit"}) /\ dropped \subseteq DOMAIN fired
  /\ taken \in Seq(Nat) /\ seen \in Seq(Nat)
  /\ shown \in [rows : Lists, target : Windows \cup {NoWindow}]
  /\ failed \in BOOLEAN /\ reopened \in BOOLEAN

----------------------------------------------------------------------------
(* The worker: applySwitcher.                                               *)

OnWorker == UNCHANGED <<changes, pollVars, taken, seen, reopened>>

\* A window list that cannot be read, or a focus that is refused, ends the job.
GiveUp ==
  /\ at' = "idle" /\ job' = NoJob
  /\ failed' = (failed \/ at # "summonRows")
  /\ UNCHANGED <<list, serviceVars, jobsDone, fired, dropped, shown>>

\* The worker takes a request: a summon, or the first section of a commit.
BeginSummon ==
  /\ at = "idle" /\ jobsDone < MaxJobs
  /\ at' = "summonRows" /\ jobsDone' = jobsDone + 1
  /\ UNCHANGED <<list, serviceVars, job, fired, dropped, shown, failed>>
  /\ OnWorker

\* Mutant: a commit leaves the switcher open for another.
BeginCommitStaysOpen ==
  /\ at = "idle" /\ jobsDone < MaxJobs
  /\ jobsDone' = jobsDone + 1
  /\ at' = IF open THEN "commitRows" ELSE "idle"
  /\ UNCHANGED <<list, serviceVars, job, fired, dropped, shown, failed>>
  /\ OnWorker

BeginCommit ==
  /\ at = "idle" /\ jobsDone < MaxJobs
  /\ jobsDone' = jobsDone + 1
  /\ open' = FALSE
  /\ at' = IF open THEN "commitRows" ELSE "idle"
  /\ UNCHANGED <<list, sess, queue, signal, job, fired, dropped, shown, failed>>
  /\ OnWorker

ReadRows ==
  /\ at \in {"summonRows", "commitRows"}
  /\ \/ /\ job' = [job EXCEPT !.rows = list]
        /\ at' = IF at = "summonRows" THEN "summon" ELSE "commit"
        /\ UNCHANGED <<list, serviceVars, jobsDone, fired, dropped, shown,
                       failed>>
     \/ GiveUp
  /\ OnWorker

OpenSession ==
  /\ at = "summon"
  /\ sess' = Summon(job.rows, job.rows # <<>>)
  /\ open' = TRUE
  /\ at' = "fire" /\ job' = [NoJob EXCEPT !.action = "summon"]
  /\ shown' = NotShown /\ failed' = FALSE
  /\ UNCHANGED <<list, queue, signal, jobsDone, fired, dropped>>
  /\ OnWorker

\* Mutant: the current window does not count as drawn.
CommitSessionFront ==
  /\ at = "commit"
  /\ LET target == DecideOn(sess, job.rows, FALSE, FALSE, NoWindow).target
     IN IF target = NoWindow
        THEN at' = "idle" /\ job' = NoJob /\ failed' = TRUE
        ELSE /\ at' = "focus" /\ failed' = failed
             /\ job' = [job EXCEPT !.target = target, !.action = "commit"]
  /\ sess' = Closed
  /\ UNCHANGED <<list, open, queue, signal, jobsDone, fired, dropped, shown>>
  /\ OnWorker

\* The target is decided again, over the rows of now.
CommitSession ==
  /\ at = "commit"
  /\ LET target == DecideOn(sess, job.rows, job.rows # <<>>, FALSE,
                            NoWindow).target
     IN IF target = NoWindow
        THEN at' = "idle" /\ job' = NoJob /\ failed' = TRUE
        ELSE /\ at' = "focus" /\ failed' = failed
             /\ job' = [job EXCEPT !.target = target, !.action = "commit"]
  /\ sess' = Closed
  /\ UNCHANGED <<list, open, queue, signal, jobsDone, fired, dropped, shown>>
  /\ OnWorker

\* The window comes to the front, or the focus fails.
Focus ==
  /\ at = "focus"
  /\ \/ /\ job.target \in Ids(list)
        /\ LET i == IndexOf(list, job.target)
           IN list' = <<Row(job.target, FALSE)>> \o SubSeq(list, 1, i - 1)
                        \o SubSeq(list, i + 1, Len(list))
        /\ at' = "fire"
        /\ UNCHANGED <<serviceVars, job, jobsDone, fired, dropped, shown, failed>>
     \/ GiveUp
  /\ OnWorker

\* Mutant: a full queue keeps what it has.
FireIfRoom ==
  /\ at = "fire" /\ at' = "signal"
  /\ fired' = Append(fired, job.action)
  /\ queue' = IF Len(queue) >= QueueMax THEN queue ELSE Append(queue, Len(fired'))
  /\ dropped' = IF Len(queue) >= QueueMax THEN dropped \cup {Len(fired')}
                ELSE dropped
  /\ job' = NoJob
  /\ UNCHANGED <<list, sess, open, signal, jobsDone, shown, failed>>
  /\ OnWorker

\* fire: queue the trigger, the oldest one out if there is no room.
Fire ==
  /\ at = "fire" /\ at' = "signal"
  /\ fired' = Append(fired, job.action)
  /\ LET full == Len(queue) >= QueueMax
     IN /\ queue' = Append(IF full THEN Tail(queue) ELSE queue, Len(fired'))
        /\ dropped' = IF full THEN dropped \cup {Head(queue)} ELSE dropped
  /\ job' = NoJob
  /\ UNCHANGED <<list, sess, open, signal, jobsDone, shown, failed>>
  /\ OnWorker

\* fire: then the hint, which stays one however often it is given.
Signal ==
  /\ at = "signal" /\ at' = "idle"
  /\ signal' = TRUE
  /\ UNCHANGED <<list, sess, open, queue, job, jobsDone, fired, dropped, shown,
                 failed>>
  /\ OnWorker

----------------------------------------------------------------------------
(* The polls: core.switcherWait, and core.windows after it.                 *)

OnPoll(p) ==
  UNCHANGED <<serverVars, open, workerVars, live, fired, dropped, failed,
              reopened>>

Goto(p, place, has) ==
  /\ pollAt' = [pollAt EXCEPT ![p] = place]
  /\ pollHas' = [pollHas EXCEPT ![p] = has]

\* The live panel asks again; a poll of an earlier panel does not.
Call(p) ==
  /\ pollAt[p] = "out" /\ p = live
  /\ Goto(p, "take", Nothing)
  /\ UNCHANGED <<sess, queue, signal, taken, seen, shown>> /\ OnPoll(p)

Take(p) ==
  /\ pollAt[p] = "take"
  /\ IF queue # <<>>
     THEN /\ queue' = Tail(queue) /\ taken' = Append(taken, Head(queue))
          /\ Goto(p, "answer", [Nothing EXCEPT !.trigger = Head(queue)])
     ELSE /\ Goto(p, "parking", Nothing)
          /\ UNCHANGED <<queue, taken>>
  /\ UNCHANGED <<sess, signal, seen, shown>> /\ OnPoll(p)

\* The lock is released before the wait begins.
Park(p) ==
  /\ pollAt[p] = "parking"
  /\ Goto(p, "parked", Nothing)
  /\ UNCHANGED <<sess, queue, signal, taken, seen, shown>> /\ OnPoll(p)

\* A hint is only a hint: look again.
Wake(p) ==
  /\ pollAt[p] = "parked" /\ signal
  /\ signal' = FALSE
  /\ Goto(p, "take", Nothing)
  /\ UNCHANGED <<sess, queue, taken, seen, shown>> /\ OnPoll(p)

\* Mutant: a wait has no budget.
WaitForEver(p) ==
  /\ pollAt[p] = "parked"
  /\ UNCHANGED vars

\* The budget is spent.
Timeout(p) ==
  /\ pollAt[p] = "parked"
  /\ Goto(p, "answer", Nothing)
  /\ UNCHANGED <<sess, queue, signal, taken, seen, shown>> /\ OnPoll(p)

\* The answer is the live panel's, or it is discarded.
Answer(p) ==
  /\ pollAt[p] = "answer"
  /\ IF pollHas[p].trigger # 0 /\ p = live
     THEN /\ seen' = Append(seen, pollHas[p].trigger)
          /\ Goto(p, "rows", Nothing)
     ELSE seen' = seen /\ Goto(p, "out", Nothing)
  /\ UNCHANGED <<sess, queue, signal, taken, shown>> /\ OnPoll(p)

\* handleWindows: the list first, or its error ...
ListRows(p) ==
  /\ pollAt[p] = "rows"
  /\ \/ Goto(p, "draw", [Nothing EXCEPT !.rows = list])
     \/ Goto(p, "out", Nothing)
  /\ UNCHANGED <<sess, queue, signal, taken, seen, shown>> /\ OnPoll(p)

\* ... then, under the lock, the highlight to draw on it.
Draw(p) ==
  /\ pollAt[p] = "draw"
  /\ LET rows == pollHas[p].rows
     IN /\ sess' = DecideOn(sess, rows, rows # <<>>, FALSE, NoWindow)
        /\ shown' = IF open THEN [rows |-> rows, target |-> sess'.target]
                    ELSE shown
  /\ Goto(p, "out", Nothing)
  /\ UNCHANGED <<queue, signal, taken, seen>> /\ OnPoll(p)

\* The panel is shown again, on a new connection; the old poll runs on.  (Bound:
\* once.)
Reopen(p) ==
  /\ ~reopened
  /\ p # live /\ pollAt[p] = "out"
  /\ live' = p /\ reopened' = TRUE
  /\ UNCHANGED <<serverVars, serviceVars, workerVars, pollAt, pollHas, fired,
                 dropped, taken, seen, shown, failed>>

----------------------------------------------------------------------------
(* The windows, and core.switcherFocus, which only raises one.              *)

Change(rows) ==
  /\ changes < MaxChanges /\ changes' = changes + 1
  /\ list' = rows
  /\ UNCHANGED <<serviceVars, workerVars, pollVars, pastVars>>

Without(i) == SubSeq(list, 1, i - 1) \o SubSeq(list, i + 1, Len(list))

Arrive(id) == id \notin Ids(list) /\ Change(<<Row(id, FALSE)>> \o list)
Leave(i) == Change(Without(i))
Raise(i) == i # 1 /\ Change(<<Row(list[i].id, FALSE)>> \o Without(i))
Minimize(i) == ~list[i].skip /\ Change([list EXCEPT ![i].skip = TRUE])

----------------------------------------------------------------------------
Init ==
  /\ list = FirstList
  /\ changes = 0 /\ sess = Closed /\ open = FALSE
  /\ queue = <<>> /\ signal = FALSE
  /\ at = "idle" /\ job = NoJob /\ jobsDone = 0
  /\ pollAt = [p \in Polls |-> "out"] /\ pollHas = [p \in Polls |-> Nothing]
  /\ live = CHOOSE p \in Polls : TRUE
  /\ fired = <<>> /\ dropped = {} /\ taken = <<>> /\ seen = <<>>
  /\ shown = NotShown /\ failed = FALSE /\ reopened = FALSE

Worker ==
  \/ ReadRows \/ OpenSession \/ CommitSession \/ Focus \/ Fire \/ Signal

Poll(p) ==
  \/ Call(p) \/ Take(p) \/ Park(p) \/ Wake(p) \/ Timeout(p) \/ Answer(p)
  \/ ListRows(p) \/ Draw(p)

World ==
  \/ BeginSummon \/ BeginCommit
  \/ \E p \in Polls : Reopen(p)
  \/ \E id \in Windows : Arrive(id)
  \/ \E i \in DOMAIN list : Leave(i) \/ Raise(i) \/ Minimize(i)

Next == Worker \/ (\E p \in Polls : Poll(p)) \/ World

\* The worker goes on, and so does some poll: handlers run, a timer fires, a panel
\* that is up asks again.  Nobody needs to press a key or move a window.
Spec ==
  Init /\ [][Next]_vars /\ WF_vars(Worker) /\ WF_vars(\E p \in Polls : Poll(p))

----------------------------------------------------------------------------
(* Properties.                                                              *)

\* A trigger fired is waiting, read or pushed out, one of the three; what waits
\* is the newest, and the order is the order fired.
TriggersAccounted ==
  LET waiting == {queue[i] : i \in DOMAIN queue}
      read == {taken[i] : i \in DOMAIN taken}
  IN /\ DOMAIN fired = waiting \cup read \cup dropped
     /\ waiting \cap (read \cup dropped) = {} /\ read \cap dropped = {}
     /\ InOrder(taken \o queue)
     /\ \A w \in waiting, d \in dropped : d < w

\* The panel acts on triggers in the order they were fired, though a poll of an
\* earlier panel may answer late.
PanelInOrder == InOrder(seen)

\* A summon pays for one focus: however the commits, failures and polls fall, no
\* second commit focuses a window without another summon.
OneFocusPerSummon ==
  LET summons == Cardinality({i \in DOMAIN fired : fired[i] = "summon"})
      commits == Cardinality({i \in DOMAIN fired : fired[i] = "commit"})
      focusing == at = "focus" \/ (at = "fire" /\ job.action = "commit")
      owed == IF open /\ ~(at = "fire" /\ job.action = "summon") THEN 1 ELSE 0
  IN commits + (IF focusing THEN 1 ELSE 0) + owed <= summons

\* The panel is told: between jobs the last trigger says what the switcher is,
\* unless the last commit came to nothing.
PanelIsTold ==
  at = "idle" /\ ~failed =>
    (open <=> fired # <<>> /\ fired[Len(fired)] = "summon")

\* If no window moved between the panel's reading and the commit's, the window
\* focused is the one highlighted.
FocusIsDrawnIfStill ==
  at = "focus" /\ shown.rows = job.rows /\ shown # NotShown
    => job.target = shown.target

\* Every trigger is read or pushed out in the end.
TriggersAreRead ==
  \A n \in 1..MaxJobs :
    n \in DOMAIN fired ~>
      (n \in dropped \/ \E i \in DOMAIN taken : taken[i] = n)

\* A panel that was never shown again does not sleep through a trigger: its poll
\* parks without the lock, and the hint outlives that.
NoSleepOverTriggers ==
  ~reopened =>
    \A p \in Polls :
      pollAt[p] = "parked" /\ queue # <<>> => signal \/ at = "signal"

----------------------------------------------------------------------------
(* What the comments say and the code does not do.                          *)

\* "The target is the session's, not a re-derivation" (switcher.go:338-339).
FocusIsDrawn ==
  at = "focus" /\ shown.target \in Ids(job.rows) => job.target = shown.target

\* "a waiter is already awake and will drain the queue" (switcher.go:92): while
\* triggers wait without a hint, some poll looks at the queue before it sleeps.
SomebodyDrains ==
  queue # <<>> /\ ~signal /\ at # "signal" =>
    \E p \in Polls :
      pollAt[p] = "take" \/ (p = live /\ pollAt[p] \notin {"parking", "parked"})

\* "nothing drawn: the switcher closes" (switcher.go:359): the panel is told.
PanelIsAlwaysTold ==
  at = "idle" => (open <=> fired # <<>> /\ fired[Len(fired)] = "summon")
=============================================================================
