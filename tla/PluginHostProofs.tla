-------------------------- MODULE PluginHostProofs --------------------------
(***************************************************************************)
(* Proofs about PluginHost for any goroutines, manifests and bounds.       *)
(***************************************************************************)
EXTENDS PluginHost, TLAPS

\* The mutex is held from the lock to the answer.
MutexHeld ==
  \A c \in Callers :
    /\ use[c].pc \in {"write", "scan"} \cup Ops => mu = c
    /\ use[c].pc = "lock" => use[c].op \in Ops

\* The reaper's steps, and what each has already done.
ReaperKnows ==
  /\ reaper = "none" <=> child = "unborn"
  /\ reaper \in {"mark", "close", "over"} => child = "dead"
  /\ reaper \in {"close", "over"} => health = "DISABLED"
  /\ waitCh = "closed" <=> reaper = "over"
  /\ pipes = "closed" => child = "dead"
  /\ \A c \in Callers : use[c].pc # "idle" => child # "unborn"
  /\ \A c \in Callers : use[c].answer = "yes" => child = "dead"

\* While the child says nothing it was not asked for, one line at most is under
\* way, the one its scanner waits for; a scanner that failed found a dead child.
OneUnderWay ==
  strays = 0 =>
    /\ broken => buffered = <<>> /\ child = "dead"
    /\ \A c \in Callers : use[c].pc = "scan" =>
         \/ stdin = <<use[c].id>> /\ stdout = <<>> /\ buffered = <<>>
         \/ stdin = <<>> /\ stdout = <<use[c].id>> /\ buffered = <<>>
         \/ stdin = <<>> /\ stdout = <<>> /\ buffered = <<use[c].id>>
    /\ \/ broken
       \/ \E c \in Callers : use[c].pc = "scan"
       \/ stdin = <<>> /\ stdout = <<>> /\ buffered = <<>>
    /\ AnswerIsMine

\* The inductive invariant: one exchange under way, and the reaper knows of the death.
IInv == TypeOK /\ MutexHeld /\ ReaperKnows /\ OneUnderWay

(* What a step of a goroutine does to its record. *)

\* The others' records stay, and so does what c asked for.
KeepsOthers(c) ==
  /\ use' \in [Callers -> Jobs]
  /\ \A x \in Callers : x # c => use'[x] = use[x]
  /\ use'[c].op = use[c].op

\* The places the handlers name are places.
LEMMA PlacesAre ==
  /\ Ops \subseteq Places
  /\ "lock" \in Places /\ "write" \in Places /\ "scan" \in Places
  /\ "select" \in Places /\ "done" \in Places /\ "idle" \in Places
BY DEF Places

\* The answers they return are answers.
LEMMA AnswersAre ==
  /\ "none" \in Answers /\ "closed" \in Answers /\ "unwritten" \in Answers
  /\ "line" \in Answers /\ "died" \in Answers /\ "stopped" \in Answers
  /\ "yes" \in Answers /\ "no" \in Answers
  /\ "HEALTHY" \in Answers /\ "DISABLED" \in Answers
BY DEF Answers

\* A goroutine goes on: its record is still one, the others' stay.
LEMMA MovesTo ==
  ASSUME use \in [Callers -> Jobs], NEW c \in Callers, NEW place \in Places,
         use' = [use EXCEPT ![c].pc = place]
  PROVE  /\ KeepsOthers(c)
         /\ use'[c].pc = place /\ use'[c].id = use[c].id
         /\ use'[c].answer = use[c].answer /\ use'[c].line = use[c].line
BY DEF Jobs, KeepsOthers

\* A Call takes its request's number.
LEMMA Numbers ==
  ASSUME use \in [Callers -> Jobs], NEW c \in Callers, NEW place \in Places, NEW id \in Nat,
         use' = [use EXCEPT ![c].pc = place, ![c].id = id]
  PROVE  /\ KeepsOthers(c)
         /\ use'[c].pc = place /\ use'[c].id = id
         /\ use'[c].answer = use[c].answer /\ use'[c].line = use[c].line
BY DEF Jobs, KeepsOthers

\* A goroutine ends with an answer.
LEMMA Answering ==
  ASSUME use \in [Callers -> Jobs], NEW c \in Callers, NEW answer \in Answers,
         use' = [use EXCEPT ![c].pc = "done", ![c].answer = answer]
  PROVE  /\ KeepsOthers(c)
         /\ use'[c].pc = "done" /\ use'[c].id = use[c].id
         /\ use'[c].answer = answer /\ use'[c].line = use[c].line
BY PlacesAre DEF Jobs, KeepsOthers

\* It ends and lets the mutex go.
LEMMA Returns ==
  ASSUME use \in [Callers -> Jobs], NEW c \in Callers, NEW answer \in Answers,
         Return(c, answer)
  PROVE  /\ KeepsOthers(c) /\ mu' = Nobody
         /\ use'[c].pc = "done" /\ use'[c].id = use[c].id
         /\ use'[c].answer = answer /\ use'[c].line = use[c].line
BY Answering DEF Return

\* It ends with the line it has scanned.
LEMMA TakesLine ==
  ASSUME use \in [Callers -> Jobs], NEW c \in Callers, NEW line \in Int,
         use' = [use EXCEPT ![c].pc = "done", ![c].answer = "line", ![c].line = line]
  PROVE  /\ KeepsOthers(c)
         /\ use'[c].pc = "done" /\ use'[c].id = use[c].id
         /\ use'[c].answer = "line" /\ use'[c].line = line
BY PlacesAre, AnswersAre DEF Jobs, KeepsOthers

\* It begins, with nothing asked yet.
LEMMA Begins ==
  ASSUME use \in [Callers -> Jobs], NEW c \in Callers, NEW op \in Ops,
         use' = [use EXCEPT ![c] = [Idle EXCEPT !.op = op, !.pc = "lock"]]
  PROVE  /\ use' \in [Callers -> Jobs]
         /\ \A x \in Callers : x # c => use'[x] = use[x]
         /\ use'[c].pc = "lock" /\ use'[c].answer = "none" /\ use'[c].op = op
<1>1. Idle \in Jobs /\ Idle.answer = "none"
  BY PlacesAre, AnswersAre DEF Jobs, Idle
<1>2. \A j \in Jobs :
        /\ [j EXCEPT !.op = op, !.pc = "lock"] \in Jobs
        /\ [j EXCEPT !.op = op, !.pc = "lock"].pc = "lock"
        /\ [j EXCEPT !.op = op, !.pc = "lock"].op = op
        /\ [j EXCEPT !.op = op, !.pc = "lock"].answer = j.answer
  BY PlacesAre DEF Jobs
<1> QED BY <1>1, <1>2

-----------------------------------------------------------------------------
(* The steps of the goroutines, told by their records. *)

\* What Lock does to the record of its goroutine, and to no other.
LEMMA LockIs ==
  ASSUME TypeOK, MutexHeld, NEW c \in Callers, Lock(c)
  PROVE  /\ KeepsOthers(c)
         /\ use[c].pc = "lock" /\ use'[c].pc = use[c].op /\ use'[c].pc \in Ops
         /\ use'[c].id = use[c].id
         /\ use'[c].answer = use[c].answer /\ use'[c].line = use[c].line
         /\ mu = Nobody /\ mu' = c
<1>1. use[c].op \in Ops
  BY DEF Lock, MutexHeld
<1>2. use[c].op \in Places
  BY <1>1, PlacesAre
<1> QED BY <1>1, <1>2, MovesTo DEF Lock, TypeOK

\* What Call does: it refuses, or takes a number and goes to write.
LEMMA CallIs ==
  ASSUME TypeOK, NEW c \in Callers, Call(c)
  PROVE  /\ KeepsOthers(c)
         /\ use[c].pc = "call" /\ use'[c].line = use[c].line
         /\ \/ /\ use'[c].pc = "done" /\ use'[c].answer = "closed"
               /\ mu' = Nobody /\ nextID' = nextID
            \/ /\ use'[c].pc = "write" /\ use'[c].id = nextID + 1
               /\ use'[c].answer = use[c].answer
               /\ mu' = mu /\ nextID' = nextID + 1
<1>1. CASE closed
  BY <1>1, AnswersAre, Returns DEF Call, TypeOK
<1>2. CASE ~closed
  <2>1. nextID + 1 \in Nat
    BY DEF TypeOK
  <2>2. use' = [use EXCEPT ![c].pc = "write", ![c].id = nextID + 1]
    BY <1>2 DEF Call
  <2>3. /\ KeepsOthers(c) /\ use'[c].pc = "write" /\ use'[c].id = nextID + 1
        /\ use'[c].answer = use[c].answer /\ use'[c].line = use[c].line
    BY <2>1, <2>2, PlacesAre, Numbers DEF TypeOK
  <2> QED BY <1>2, <2>3 DEF Call
<1> QED BY <1>1, <1>2

\* What a write does: the line is in the pipe, or the child is gone.
LEMMA WriteIs ==
  ASSUME TypeOK, NEW c \in Callers, Write(c)
  PROVE  /\ KeepsOthers(c)
         /\ use[c].pc = "write" /\ use'[c].id = use[c].id /\ use'[c].line = use[c].line
         /\ \/ /\ use'[c].pc = "done" /\ use'[c].answer = "unwritten" /\ mu' = Nobody
               /\ stdin' = stdin
            \/ /\ use'[c].pc = "scan" /\ use'[c].answer = use[c].answer /\ mu' = mu
               /\ stdin' = Append(stdin, use[c].id)
               /\ child # "dead"
<1>1. CASE pipes = "closed" \/ child = "dead"
  BY <1>1, AnswersAre, Returns DEF Write, TypeOK
<1>2. CASE ~(pipes = "closed" \/ child = "dead")
  BY <1>2, PlacesAre, MovesTo DEF Write, TypeOK
<1> QED BY <1>1, <1>2

\* What a line that was scanned does.
LEMMA ScanLineIs ==
  ASSUME TypeOK, NEW c \in Callers, ScanLine(c)
  PROVE  /\ KeepsOthers(c) /\ mu' = Nobody
         /\ buffered # <<>> /\ buffered' = Tail(buffered)
         /\ use[c].pc = "scan" /\ use'[c].pc = "done" /\ use'[c].id = use[c].id
         /\ use'[c].answer = "line" /\ use'[c].line = Head(buffered)
<1>1. Head(buffered) \in Int
  BY DEF TypeOK, ScanLine
<1> QED BY <1>1, TakesLine DEF ScanLine, TypeOK

\* Scan has failed, for good.
GivesUp(c) ==
  /\ use[c].pc = "scan" /\ ScanFails
  /\ broken' = TRUE /\ health' = "DISABLED"
  /\ buffered' = IF buffered = <<>> THEN <<>> ELSE <<Head(buffered)>>
  /\ Return(c, "died")
  /\ UNCHANGED <<closed, nextID, waitCh, reaper, child, pipes, stdin,
                 stdout, calls, strays>>

\* A scan takes a line, or gives up.
LEMMA ScanIs ==
  ASSUME NEW c \in Callers, Scan(c)
  PROVE  ScanLine(c) \/ ScanRead(c) \/ GivesUp(c)
BY DEF Scan, GivesUp

\* What a scan that ends does: the plugin is disabled and the call fails.
LEMMA GivesUpIs ==
  ASSUME TypeOK, NEW c \in Callers, GivesUp(c)
  PROVE  /\ KeepsOthers(c) /\ mu' = Nobody
         /\ use[c].pc = "scan" /\ use'[c].pc = "done" /\ use'[c].id = use[c].id
         /\ use'[c].answer = "died" /\ use'[c].line = use[c].line
BY AnswersAre, Returns DEF GivesUp, TypeOK

\* What Health does.
LEMMA HealthIs ==
  ASSUME TypeOK, NEW c \in Callers, Health(c)
  PROVE  /\ KeepsOthers(c) /\ mu' = Nobody
         /\ use[c].pc = "health" /\ use'[c].pc = "done" /\ use'[c].id = use[c].id
         /\ use'[c].answer = health /\ use'[c].line = use[c].line
<1>1. health \in Answers
  BY AnswersAre DEF TypeOK
<1> QED BY <1>1, Returns DEF Health, TypeOK

\* What Stop does.
LEMMA StopIs ==
  ASSUME TypeOK, NEW c \in Callers, Stop(c)
  PROVE  /\ KeepsOthers(c) /\ mu' = Nobody
         /\ use[c].pc = "stop" /\ use'[c].pc = "done" /\ use'[c].id = use[c].id
         /\ use'[c].answer = "stopped" /\ use'[c].line = use[c].line
BY AnswersAre, Returns DEF Stop, TypeOK

\* What Exited does, by what the channel says.
LEMMA ExitedIs ==
  ASSUME TypeOK, NEW c \in Callers, Exited(c)
  PROVE  /\ KeepsOthers(c) /\ mu' = Nobody
         /\ use[c].pc = "exited" /\ use'[c].pc = "done" /\ use'[c].id = use[c].id
         /\ use'[c].line = use[c].line
         /\ \/ use'[c].answer = "no" /\ health' = health
            \/ /\ use'[c].answer = "yes" /\ health' = "DISABLED"
               /\ waitCh = "closed" \/ reaper # "wait"
<1>1. PICK told \in BOOLEAN :
        /\ told => waitCh = "closed" \/ reaper # "wait"
        /\ health' = IF told THEN "DISABLED" ELSE health
        /\ Return(c, IF told THEN "yes" ELSE "no")
  BY DEF Exited
<1>2. CASE told
  <2>1. Return(c, "yes")
    BY <1>1, <1>2
  <2> QED BY <1>1, <1>2, <2>1, AnswersAre, Returns DEF Exited, TypeOK
<1>3. CASE ~told
  <2>1. Return(c, "no")
    BY <1>1, <1>3
  <2> QED BY <1>1, <1>3, <2>1, AnswersAre, Returns DEF Exited, TypeOK
<1> QED BY <1>2, <1>3

\* What WaitExit does.
LEMMA WaitExitIs ==
  ASSUME TypeOK, NEW c \in Callers, WaitExit(c)
  PROVE  /\ KeepsOthers(c)
         /\ use'[c].id = use[c].id /\ use'[c].line = use[c].line
         /\ \/ /\ use[c].pc = "waitExit" /\ use'[c].pc = "select"
               /\ use'[c].answer = use[c].answer /\ mu' = Nobody
            \/ /\ use[c].pc = "select" /\ use'[c].pc = "done" /\ mu' = mu
               /\ use'[c].answer = "no" \/ (use'[c].answer = "yes" /\ waitCh = "closed")
<1>1. CASE use[c].pc = "waitExit" /\ mu' = Nobody /\ use' = [use EXCEPT ![c].pc = "select"]
  BY <1>1, PlacesAre, MovesTo DEF TypeOK
<1>2. CASE /\ use[c].pc = "select" /\ mu' = mu /\ waitCh = "closed"
           /\ use' = [use EXCEPT ![c].pc = "done", ![c].answer = "yes"]
  BY <1>2, AnswersAre, Answering DEF TypeOK
<1>3. CASE /\ use[c].pc = "select" /\ mu' = mu
           /\ use' = [use EXCEPT ![c].pc = "done", ![c].answer = "no"]
  BY <1>3, AnswersAre, Answering DEF TypeOK
<1> QED BY <1>1, <1>2, <1>3 DEF WaitExit

-----------------------------------------------------------------------------
(* Every step keeps the invariant. *)

\* Types.
LEMMA TypeKeeps ==
  ASSUME TypeOK, MutexHeld, [Next]_vars
  PROVE  TypeOK'
<1> USE DEF TypeOK, Stray, Long, hostVars, childVars
<1>a. \A s \in Seq(Int) : s # <<>> =>
        Head(s) \in Int /\ Tail(s) \in Seq(Int) /\ <<Head(s)>> \in Seq(Int)
  OBVIOUS
<1>1. CASE Start
  BY <1>1 DEF Start
<1>2. CASE \E c \in Callers : Take(c)
  <2>p. PICK c \in Callers, op \in Ops :
        use' = [use EXCEPT ![c] = [Idle EXCEPT !.op = op, !.pc = "lock"]]
    BY <1>2 DEF Take
  <2>1. /\ use' \in [Callers -> Jobs]
        /\ \A x \in Callers : x # c => use'[x] = use[x]
        /\ use'[c].pc = "lock" /\ use'[c].answer = "none" /\ use'[c].op \in Ops
    BY <2>p, Begins DEF TypeOK
  <2> QED BY <1>2, <2>1 DEF Take
<1>3. CASE \E c \in Callers : Lock(c)
  <2> PICK c \in Callers : Lock(c)
    BY <1>3
  <2> QED BY LockIs, ZenonT(30) DEF Lock, KeepsOthers
<1>4. CASE \E c \in Callers : Call(c)
  <2> PICK c \in Callers : Call(c)
    BY <1>4
  <2> QED BY CallIs DEF Call, KeepsOthers
<1>5. CASE \E c \in Callers : Write(c)
  <2> PICK c \in Callers : Write(c)
    BY <1>5
  <2>1. use[c].id \in Nat
    BY DEF Jobs
  <2>2. Append(stdin, use[c].id) \in Seq(Nat)
    BY <2>1
  <2> QED BY <2>2, WriteIs, ZenonT(30) DEF Write, KeepsOthers
<1>6. CASE \E c \in Callers : ScanLine(c)
  <2> PICK c \in Callers : ScanLine(c)
    BY <1>6
  <2>1. buffered' \in Seq(Int)
    BY <1>a, ScanLineIs
  <2> QED BY <2>1, ScanLineIs, ZenonT(30) DEF ScanLine, KeepsOthers
<1>7. CASE \E c \in Callers : ScanRead(c)
  BY <1>7 DEF ScanRead
<1>8. CASE \E c \in Callers : GivesUp(c)
  <2> PICK c \in Callers : GivesUp(c)
    BY <1>8
  <2> QED BY GivesUpIs DEF GivesUp, KeepsOthers
<1>9. CASE \E c \in Callers : Health(c)
  <2> PICK c \in Callers : Health(c)
    BY <1>9
  <2> QED BY HealthIs DEF Health, KeepsOthers
<1>10. CASE \E c \in Callers : Stop(c)
  <2> PICK c \in Callers : Stop(c)
    BY <1>10
  <2> QED BY StopIs DEF Stop, KeepsOthers
<1>11. CASE \E c \in Callers : Exited(c)
  <2> PICK c \in Callers : Exited(c)
    BY <1>11
  <2> QED BY ExitedIs DEF Exited, KeepsOthers
<1>12. CASE \E c \in Callers : WaitExit(c)
  <2> PICK c \in Callers : WaitExit(c)
    BY <1>12
  <2>1. mu' \in Callers \cup {Nobody} /\ use' \in [Callers -> Jobs]
    BY WaitExitIs DEF KeepsOthers
  <2> QED BY <2>1 DEF WaitExit
<1>13. CASE Wait
  BY <1>13 DEF Wait
<1>14. CASE Mark
  BY <1>14 DEF Mark
<1>15. CASE CloseCh
  BY <1>15 DEF CloseCh
<1>16. CASE Answer
  BY <1>16 DEF Answer
<1>17. CASE Chatter
  BY <1>17 DEF Chatter
<1>18. CASE child \in {"up", "killed"} /\ Die
  BY <1>18 DEF Die
<1>19. CASE UNCHANGED vars
  BY <1>19 DEF vars
<1> QED
  BY <1>1, <1>2, <1>3, <1>4, <1>5, <1>6, <1>7, <1>8, <1>9, <1>10, <1>11, <1>12,
     <1>13, <1>14, <1>15, <1>16, <1>17, <1>18, <1>19, ScanIs
  DEF Next, User, Reaper, Child

\* Who is inside.
LEMMA MutexKeeps ==
  ASSUME TypeOK, MutexHeld, [Next]_vars
  PROVE  MutexHeld'
<1> USE HostAssumption DEF TypeOK, MutexHeld, Ops, Nobody, hostVars, childVars
<1>1. CASE Start
  BY <1>1 DEF Start
<1>2. CASE \E c \in Callers : Take(c)
  <2>p. PICK c \in Callers, op \in Ops :
        use' = [use EXCEPT ![c] = [Idle EXCEPT !.op = op, !.pc = "lock"]]
    BY <1>2 DEF Take
  <2>1. /\ use' \in [Callers -> Jobs]
        /\ \A x \in Callers : x # c => use'[x] = use[x]
        /\ use'[c].pc = "lock" /\ use'[c].answer = "none" /\ use'[c].op \in Ops
    BY <2>p, Begins DEF TypeOK
  <2> QED BY <1>2, <2>1 DEF Take
<1>3. CASE \E c \in Callers : Lock(c)
  <2> PICK c \in Callers : Lock(c)
    BY <1>3
  <2> QED BY LockIs DEF Lock, KeepsOthers
<1>4. CASE \E c \in Callers : Call(c)
  <2> PICK c \in Callers : Call(c)
    BY <1>4
  <2> QED BY CallIs DEF Call, KeepsOthers
<1>5. CASE \E c \in Callers : Write(c)
  <2> PICK c \in Callers : Write(c)
    BY <1>5
  <2> QED BY WriteIs DEF Write, KeepsOthers
<1>6. CASE \E c \in Callers : ScanLine(c)
  <2> PICK c \in Callers : ScanLine(c)
    BY <1>6
  <2> QED BY ScanLineIs DEF KeepsOthers
<1>7. CASE \E c \in Callers : ScanRead(c)
  BY <1>7 DEF ScanRead
<1>8. CASE \E c \in Callers : GivesUp(c)
  <2> PICK c \in Callers : GivesUp(c)
    BY <1>8
  <2> QED BY GivesUpIs DEF GivesUp, KeepsOthers
<1>9. CASE \E c \in Callers : Health(c)
  <2> PICK c \in Callers : Health(c)
    BY <1>9
  <2> QED BY HealthIs DEF Health, KeepsOthers
<1>10. CASE \E c \in Callers : Stop(c)
  <2> PICK c \in Callers : Stop(c)
    BY <1>10
  <2> QED BY StopIs DEF Stop, KeepsOthers
<1>11. CASE \E c \in Callers : Exited(c)
  <2> PICK c \in Callers : Exited(c)
    BY <1>11
  <2> QED BY ExitedIs DEF Exited, KeepsOthers
<1>12. CASE \E c \in Callers : WaitExit(c)
  <2> PICK c \in Callers : WaitExit(c)
    BY <1>12
  <2> QED BY WaitExitIs, ZenonT(30) DEF WaitExit, KeepsOthers
<1>13. CASE Wait
  BY <1>13 DEF Wait
<1>14. CASE Mark
  BY <1>14 DEF Mark
<1>15. CASE CloseCh
  BY <1>15 DEF CloseCh
<1>16. CASE Answer
  BY <1>16 DEF Answer
<1>17. CASE Chatter
  BY <1>17 DEF Chatter
<1>18. CASE child \in {"up", "killed"} /\ Die
  BY <1>18 DEF Die
<1>19. CASE UNCHANGED vars
  BY <1>19 DEF vars
<1> QED
  BY <1>1, <1>2, <1>3, <1>4, <1>5, <1>6, <1>7, <1>8, <1>9, <1>10, <1>11, <1>12,
     <1>13, <1>14, <1>15, <1>16, <1>17, <1>18, <1>19, ScanIs
  DEF Next, User, Reaper, Child

\* What the reaper and the askers know.
LEMMA ReaperKeeps ==
  ASSUME TypeOK, MutexHeld, ReaperKnows, [Next]_vars
  PROVE  ReaperKnows'
<1> USE HostAssumption DEF TypeOK, ReaperKnows, hostVars, childVars
<1>1. CASE Start
  BY <1>1 DEF Start
<1>2. CASE \E c \in Callers : Take(c)
  <2>p. PICK c \in Callers, op \in Ops :
        use' = [use EXCEPT ![c] = [Idle EXCEPT !.op = op, !.pc = "lock"]]
    BY <1>2 DEF Take
  <2>1. /\ use' \in [Callers -> Jobs]
        /\ \A x \in Callers : x # c => use'[x] = use[x]
        /\ use'[c].pc = "lock" /\ use'[c].answer = "none" /\ use'[c].op \in Ops
    BY <2>p, Begins DEF TypeOK
  <2> QED BY <1>2, <2>1 DEF Take
<1>3. CASE \E c \in Callers : Lock(c)
  <2> PICK c \in Callers : Lock(c)
    BY <1>3
  <2> QED BY LockIs DEF Lock, KeepsOthers
<1>4. CASE \E c \in Callers : Call(c)
  <2> PICK c \in Callers : Call(c)
    BY <1>4
  <2> QED BY CallIs DEF Call, KeepsOthers
<1>5. CASE \E c \in Callers : Write(c)
  <2> PICK c \in Callers : Write(c)
    BY <1>5
  <2> QED BY WriteIs, ZenonT(30) DEF Write, KeepsOthers
<1>6. CASE \E c \in Callers : ScanLine(c)
  <2> PICK c \in Callers : ScanLine(c)
    BY <1>6
  <2> QED BY ScanLineIs DEF ScanLine, KeepsOthers
<1>7. CASE \E c \in Callers : ScanRead(c)
  BY <1>7 DEF ScanRead
<1>8. CASE \E c \in Callers : GivesUp(c)
  <2> PICK c \in Callers : GivesUp(c)
    BY <1>8
  <2> QED BY GivesUpIs DEF GivesUp, KeepsOthers
<1>9. CASE \E c \in Callers : Health(c)
  <2> PICK c \in Callers : Health(c)
    BY <1>9
  <2> QED BY HealthIs DEF Health, KeepsOthers
<1>10. CASE \E c \in Callers : Stop(c)
  <2> PICK c \in Callers : Stop(c)
    BY <1>10
  <2> QED BY StopIs DEF Stop, KeepsOthers
<1>11. CASE \E c \in Callers : Exited(c)
  <2> PICK c \in Callers : Exited(c)
    BY <1>11
  <2> QED BY ExitedIs DEF Exited, KeepsOthers
<1>12. CASE \E c \in Callers : WaitExit(c)
  <2> PICK c \in Callers : WaitExit(c)
    BY <1>12
  <2> QED BY WaitExitIs, ZenonT(30) DEF WaitExit, KeepsOthers
<1>13. CASE Wait
  BY <1>13 DEF Wait
<1>14. CASE Mark
  BY <1>14 DEF Mark
<1>15. CASE CloseCh
  BY <1>15 DEF CloseCh
<1>16. CASE Answer
  BY <1>16 DEF Answer
<1>17. CASE Chatter
  BY <1>17 DEF Chatter
<1>18. CASE child \in {"up", "killed"} /\ Die
  BY <1>18 DEF Die
<1>19. CASE UNCHANGED vars
  BY <1>19 DEF vars
<1> QED
  BY <1>1, <1>2, <1>3, <1>4, <1>5, <1>6, <1>7, <1>8, <1>9, <1>10, <1>11, <1>12,
     <1>13, <1>14, <1>15, <1>16, <1>17, <1>18, <1>19, ScanIs
  DEF Next, User, Reaper, Child

\* One line under way.
LEMMA UnderWayKeeps ==
  ASSUME TypeOK, TypeOK', MutexHeld, MutexHeld', ReaperKnows, OneUnderWay, [Next]_vars
  PROVE  OneUnderWay'
<1> USE DEF TypeOK, MutexHeld, OneUnderWay, AnswerIsMine, Returned, Stray, Long,
        hostVars, childVars
<1>1. CASE Start
  BY <1>1 DEF Start
<1>2. CASE \E c \in Callers : Take(c)
  <2>p. PICK c \in Callers, op \in Ops :
        use' = [use EXCEPT ![c] = [Idle EXCEPT !.op = op, !.pc = "lock"]] /\ Ended(c)
    BY <1>2 DEF Take
  <2>1. /\ \A x \in Callers : x # c => use'[x] = use[x]
        /\ use'[c].pc = "lock" /\ use[c].pc # "scan"
    BY <2>p, Begins DEF Ended
  <2>2. UNCHANGED <<stdin, stdout, buffered, broken, child, strays>>
    BY <1>2 DEF Take
  <2> QED BY <2>1, <2>2
<1>3. CASE \E c \in Callers : Lock(c)
  <2> PICK c \in Callers : Lock(c)
    BY <1>3
  <2>1. /\ KeepsOthers(c)
        /\ use[c].pc # "scan" /\ use'[c].pc \notin {"scan", "done"}
    BY LockIs DEF Ops
  <2>2. UNCHANGED <<stdin, stdout, buffered, broken, child, strays>>
    BY DEF Lock
  <2> QED BY <2>1, <2>2 DEF KeepsOthers
<1>4. CASE \E c \in Callers : Call(c)
  <2> PICK c \in Callers : Call(c)
    BY <1>4
  <2> QED BY CallIs, ZenonT(30) DEF Call, KeepsOthers
<1>5. CASE \E c \in Callers : Write(c)
  <2> PICK c \in Callers : Write(c)
    BY <1>5
  <2>1. /\ KeepsOthers(c) /\ use[c].pc = "write"
        /\ UNCHANGED <<stdout, buffered, broken, child, strays>>
        /\ \A x \in Callers : x # c => use[x].pc # "scan"
    BY WriteIs DEF Write
  <2>2. CASE use'[c].pc = "done" /\ use'[c].answer = "unwritten" /\ stdin' = stdin
    BY <2>1, <2>2 DEF KeepsOthers
  <2>3. CASE /\ use'[c].pc = "scan" /\ use'[c].id = use[c].id
             /\ stdin' = Append(stdin, use[c].id) /\ child # "dead"
    <3> SUFFICES ASSUME strays = 0
                 PROVE  OneUnderWay'
      BY <2>1
    <3>1. stdin = <<>> /\ stdout = <<>> /\ buffered = <<>> /\ ~broken
      BY <2>1, <2>3
    <3>2. use[c].id \in Nat
      BY DEF Jobs
    <3>3. stdin' = <<use'[c].id>>
      BY <2>3, <3>1, <3>2
    <3> QED BY <2>1, <2>3, <3>1, <3>3 DEF KeepsOthers
  <2> QED BY <2>2, <2>3, WriteIs
<1>6. CASE \E c \in Callers : ScanLine(c)
  <2> PICK c \in Callers : ScanLine(c)
    BY <1>6
  <2>1. /\ KeepsOthers(c) /\ use[c].pc = "scan"
        /\ use'[c].pc = "done" /\ use'[c].id = use[c].id /\ use'[c].line = Head(buffered)
        /\ buffered # <<>> /\ buffered' = Tail(buffered)
    BY ScanLineIs
  <2>2. UNCHANGED <<stdin, stdout, broken, child, strays>>
    BY DEF ScanLine
  <2>3. \A x \in Callers : x # c => use[x].pc # "scan"
    BY <2>1
  <2> SUFFICES ASSUME strays = 0
               PROVE  OneUnderWay'
    BY <2>2
  <2>4. stdin = <<>> /\ stdout = <<>> /\ buffered = <<use[c].id>> /\ ~broken
    BY <2>1
  <2>5. buffered' = <<>> /\ use'[c].line = use'[c].id
    BY <2>1, <2>4
  <2> QED BY <2>1, <2>2, <2>3, <2>4, <2>5 DEF KeepsOthers
<1>7. CASE \E c \in Callers : ScanRead(c)
  BY <1>7 DEF ScanRead
<1>8. CASE \E c \in Callers : GivesUp(c)
  <2> PICK c \in Callers : GivesUp(c)
    BY <1>8
  <2>1. /\ KeepsOthers(c) /\ use[c].pc = "scan"
        /\ use'[c].pc = "done" /\ use'[c].answer = "died"
    BY GivesUpIs
  <2>2. /\ broken' = TRUE /\ ScanFails
        /\ buffered' = IF buffered = <<>> THEN <<>> ELSE <<Head(buffered)>>
        /\ UNCHANGED <<stdin, stdout, child, strays>>
    BY DEF GivesUp
  <2>3. \A x \in Callers : x # c => use[x].pc # "scan"
    BY <2>1, SMTT(30)
  <2> SUFFICES ASSUME strays = 0
               PROVE  OneUnderWay'
    BY <2>2
  <2>4. buffered # <<>> => Head(buffered) \in Nat
    <3>1. use[c].id \in Nat
      BY DEF Jobs
    <3>2. buffered = <<>> \/ buffered = <<use[c].id>>
      BY <2>1
    <3> QED BY <3>1, <3>2
  <2>5. buffered = <<>> /\ child = "dead"
    BY <2>2, <2>4 DEF ScanFails, ReaperKnows
  <2> QED BY <2>1, <2>2, <2>3, <2>5 DEF KeepsOthers
<1>9. CASE \E c \in Callers : Health(c)
  <2> PICK c \in Callers : Health(c)
    BY <1>9
  <2> QED BY HealthIs DEF Health, KeepsOthers
<1>10. CASE \E c \in Callers : Stop(c)
  <2> PICK c \in Callers : Stop(c)
    BY <1>10
  <2> QED BY StopIs DEF Stop, KeepsOthers
<1>11. CASE \E c \in Callers : Exited(c)
  <2> PICK c \in Callers : Exited(c)
    BY <1>11
  <2> QED BY ExitedIs, ZenonT(30) DEF Exited, KeepsOthers
<1>12. CASE \E c \in Callers : WaitExit(c)
  <2> PICK c \in Callers : WaitExit(c)
    BY <1>12
  <2> QED BY WaitExitIs, SMTT(30) DEF WaitExit, KeepsOthers
<1>13. CASE Wait
  BY <1>13 DEF Wait
<1>14. CASE Mark
  BY <1>14 DEF Mark
<1>15. CASE CloseCh
  BY <1>15 DEF CloseCh
<1>16. CASE Answer
  <2>1. /\ child # "dead" /\ stdin # <<>> /\ use' = use
        /\ stdin' = Tail(stdin) /\ stdout' = Append(stdout, Head(stdin))
        /\ UNCHANGED <<buffered, broken, strays, child>>
    BY <1>16 DEF Answer
  <2> SUFFICES ASSUME strays = 0
               PROVE  OneUnderWay'
    BY <2>1
  <2>2. PICK c \in Callers : use[c].pc = "scan" /\ ~broken
    BY <2>1
  <2>3. stdin = <<use[c].id>> /\ stdout = <<>> /\ buffered = <<>>
    BY <2>1, <2>2
  <2>4. use[c].id \in Nat
    BY <2>2 DEF Jobs
  <2>5. stdin' = <<>> /\ stdout' = <<use[c].id>>
    BY <2>1, <2>3, <2>4
  <2>6. \A x \in Callers : use[x].pc = "scan" => x = c
    BY <2>2
  <2> QED BY <2>1, <2>2, <2>3, <2>5, <2>6
<1>17. CASE Chatter
  BY <1>17 DEF Chatter
<1>18. CASE child \in {"up", "killed"} /\ Die
  BY <1>18 DEF Die
<1>19. CASE UNCHANGED vars
  BY <1>19 DEF vars
<1> QED
  BY <1>1, <1>2, <1>3, <1>4, <1>5, <1>6, <1>7, <1>8, <1>9, <1>10, <1>11, <1>12,
     <1>13, <1>14, <1>15, <1>16, <1>17, <1>18, <1>19, ScanIs
  DEF Next, User, Reaper, Child

\* A plugin nobody started satisfies the invariant.
LEMMA InitIInv ==
  ASSUME Init
  PROVE  IInv
<1>1. TypeOK
  <2>1. Idle \in Jobs
    BY PlacesAre, AnswersAre DEF Idle, Jobs
  <2>2. closed \in BOOLEAN /\ broken \in BOOLEAN
    BY Zenon DEF Init
  <2>3. use \in [Callers -> Jobs]
    BY <2>1 DEF Init
  <2>4. stdin \in Seq(Nat) /\ stdout \in Seq(Int) /\ buffered \in Seq(Int)
    BY DEF Init
  <2> QED BY <2>2, <2>3, <2>4 DEF Init, TypeOK
<1>2. MutexHeld /\ ReaperKnows
  BY DEF Init, MutexHeld, ReaperKnows, Idle, Ops
<1>3. OneUnderWay
  BY DEF Init, OneUnderWay, AnswerIsMine, Returned, Idle
<1> QED BY <1>1, <1>2, <1>3 DEF IInv

\* The invariant holds in every state.
THEOREM Invariance == Spec => []IInv
<1>1. Init => IInv
  BY InitIInv
<1>2. IInv /\ [Next]_vars => IInv'
  <2> SUFFICES ASSUME IInv, [Next]_vars
               PROVE  IInv'
    OBVIOUS
  <2>1. TypeOK' /\ MutexHeld'
    BY TypeKeeps, MutexKeeps DEF IInv
  <2>2. ReaperKnows' /\ OneUnderWay'
    BY <2>1, ReaperKeeps, UnderWayKeeps DEF IInv
  <2> QED BY <2>1, <2>2 DEF IInv
<1> QED BY <1>1, <1>2, PTL DEF Spec

\* Every variable keeps its type.
THEOREM TypeCorrect == Spec => []TypeOK
<1>1. IInv => TypeOK
  BY DEF IInv
<1> QED BY <1>1, Invariance, PTL

\* As long as the child says nothing it was not asked for, Call hands each
\* caller the line that answers its own request (plugin.go's "no response
\* matching needed"), whoever dies, stops or gives up in between.
THEOREM AnswersAreMine == Spec => []AnswerIsMine
<1>1. IInv => AnswerIsMine
  BY DEF IInv, OneUnderWay, AnswerIsMine
<1> QED BY <1>1, Invariance, PTL

\* Exited and WaitExit tell nobody of an end that has not come, and after the
\* channel is closed the plugin is found disabled.
THEOREM ReportsTrue == Spec => []ReportsAreTrue
<1>1. IInv => ReportsAreTrue
  BY DEF IInv, ReaperKnows, ReportsAreTrue, Returned
<1> QED BY <1>1, Invariance, PTL
=============================================================================
