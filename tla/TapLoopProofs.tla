----------------------------- MODULE TapLoopProofs -----------------------------
(***************************************************************************)
(* Proofs about TapLoop for any number of callers, loops and re-enables.   *)
(* The invariant: tapStopOnce lets one caller in, whose call is about one  *)
(* loop (CallsExclude); a loop's step tells its channels and its record    *)
(* (LoopsInOrder); while installs beat their timer there is one tap, held  *)
(* by the slot or by the stop under way (InTime); and while stops do too,  *)
(* the loop that runs is that one (LiveFollowsRun).  The first two hold    *)
(* whatever is late, and are enough to map every step to a step of         *)
(* TapContract or to none.                                                 *)
(***************************************************************************)
EXTENDS TapLoop, TLAPS

Uninstalled == {"unused", "bind", "create", "refused", "handle", "reply"}
Installing == Uninstalled \ {"unused"}
Served == {"live", "run", "running"}
Stopping == {"waitDone", "uninstall"}

\* The loop that takes keys, or will, in the eyes of the one who holds the lock.
Held(l) ==
  \/ slot = l
  \/ lock # NoCaller /\ cpc[lock] \in Stopping /\ mine[lock] = l

\* tapStopOnce: one caller is inside, and its call is about a loop in use.
CallsExclude ==
  /\ \A c \in Callers :
       /\ cpc[c] # "idle" => lock = c /\ mine[c] \in Loops /\ lpc[mine[c]] # "unused"
       /\ cpc[c] = "waitInstall" => slot = mine[c]
       /\ cpc[c] \in Stopping \cup {"unbind"} => slot = NoLoop
  /\ lock # NoCaller => cpc[lock] # "idle"
  /\ slot # NoLoop => slot \notin stopClosed /\ lpc[slot] # "unused"

\* Where a loop is, and what that says of its channels and its record.
LoopsInOrder ==
  \A l \in Loops :
    /\ lpc[l] = "unused" => l \notin stopClosed
    /\ l \in freed \/ tapHandle = l =>
         lpc[l] \notin {"unused", "bind", "create", "refused", "handle"}
    /\ install[l] = "none" <=> lpc[l] \in Uninstalled
    /\ install[l] = "denied" => lpc[l] = "done" /\ l \notin attached
    /\ l \in attached =>
         l \notin freed /\ lpc[l] \notin {"unused", "bind", "create", "refused"}
    /\ lpc[l] = "handle" => l \in attached

\* While installs beat their timer: a loop that is being installed has its
\* caller waiting, ...
InstallsAwaited ==
  \A l \in Loops : lpc[l] \in Installing =>
    lock # NoCaller /\ cpc[lock] = "waitInstall" /\ mine[lock] = l

\* ... the tap is the one held, the one tapHandle names and the one that decides,
TapIsHeld ==
  \A l \in Loops :
    /\ l \in attached => Held(l) /\ decide = l
    /\ l \in attached => lpc[l] = "handle" \/ tapHandle = l
    /\ tapHandle = l => l \in attached
    /\ lpc[l] \in {"create", "refused", "handle", "reply"} => decide = l
    /\ lpc[l] \in {"handle", "reply"} => l \in attached

\* ... and the slot's loop, once installed, is serving.
SlotServes ==
  \A l \in Loops :
    slot = l /\ (install[l] = "ok" \/ lock = NoCaller) =>
      l \in attached /\ lpc[l] \in Served

\* While stops beat theirs too: a loop that runs is held, and tapLive says so.
LiveFollowsRun ==
  /\ \A l \in Loops : lpc[l] \in Served \cup {"returned"} =>
       \/ slot = l
       \/ lock # NoCaller /\ cpc[lock] = "waitDone" /\ mine[lock] = l
  /\ tapLive <=> \E l \in Loops : lpc[l] \in {"run", "running", "returned"}

\* A tap the system switched off is given up, or somebody will enable it again.
OffIsHandled ==
  \A l \in off :
    /\ lpc[l] \notin Uninstalled
    /\ l \in attached =>
         \/ escalated
         \/ \E g \in Recoveries :
              rpc[g] = "sleeping" \/ (rpc[g] = "enabling" /\ rtap[g] = l)

InTime == InstallsAwaited /\ TapIsHeld /\ SlotServes /\ OffIsHandled

\* The inductive invariant of the tap, for any budget.
IInv ==
  /\ TypeOK /\ CallsExclude /\ LoopsInOrder
  /\ late = {} => InTime
  /\ late = {} /\ overdue = {} => LiveFollowsRun

-------------------------------------------------------------------------------

\* tapStopOnce and the channels hold whatever is late.
LEMMA StructureKeeps ==
  ASSUME TypeOK, CallsExclude, LoopsInOrder, [Next]_vars
  PROVE  TypeOK' /\ CallsExclude' /\ LoopsInOrder'
<1> USE TapLoopAssumption
    DEF IInv, TypeOK, MaybeLoop, CallsExclude, LoopsInOrder, Stopping,
        Uninstalled, callVars, loopVars, tapVars, recoveryVars, historyVars
<1>1. CASE \E c \in Callers, l \in Loops : CallStart(c, l)
  BY <1>1 DEF CallStart
<1>2. CASE \E c \in Callers : InstallAnswered(c)
  BY <1>2 DEF InstallAnswered, Return
<1>3. CASE \E c \in Callers : InstallTimeout(c)
  BY <1>3 DEF InstallTimeout, Return
<1>4. CASE \E c \in Callers : CallStop(c)
  BY <1>4 DEF CallStop
<1>5. CASE \E c \in Callers : StopDone(c)
  BY <1>5 DEF StopDone
<1>6. CASE \E c \in Callers : StopTimeout(c)
  BY <1>6 DEF StopTimeout
<1>7. CASE \E c \in Callers : Uninstall(c)
  BY <1>7 DEF Uninstall
<1>8. CASE \E c \in Callers : Unbind(c)
  BY <1>8 DEF Unbind, Return
<1>9. CASE \E l \in Loops : BindDecide(l)
  BY <1>9 DEF BindDecide, LoopGoto
<1>10. CASE \E l \in Loops : CreateTap(l)
  BY <1>10 DEF CreateTap, LoopGoto
<1>11. CASE \E l \in Loops : Refused(l)
  BY <1>11 DEF Refused, LoopGoto
<1>12. CASE \E l \in Loops : SetHandle(l)
  BY <1>12 DEF SetHandle, LoopGoto
<1>13. CASE \E l \in Loops : ReplyInstalled(l)
  BY <1>13 DEF ReplyInstalled, LoopGoto
<1>14. CASE \E l \in Loops : MarkLive(l)
  BY <1>14 DEF MarkLive, LoopGoto
<1>15. CASE \E l \in Loops : EnterRun(l)
  BY <1>15 DEF EnterRun, LoopGoto
<1>16. CASE \E l \in Loops : StopLoop(l)
  <2>1. PICK l \in Loops : StopLoop(l)
    BY <1>16
  <2>2. lpc' = lpc \/ (lpc[l] \in {"run", "running"} /\ lpc' = [lpc EXCEPT ![l] = "returned"])
    BY <2>1 DEF StopLoop
  <2>3. /\ UNCHANGED <<callVars, install, stopClosed, tapVars, recoveryVars, late, overdue>>
        /\ stopper' = [stopper EXCEPT ![l] = "fired"] /\ misuse' \in BOOLEAN
    BY <2>1 DEF StopLoop
  <2> HIDE <1>16
  <2>4. TypeOK'
    BY <2>2, <2>3
  <2>5. CallsExclude'
    BY <2>2, <2>3
  <2>6. LoopsInOrder'
    BY <2>2, <2>3
  <2> QED BY <2>4, <2>5, <2>6
<1>17. CASE \E l \in Loops : RunLosesSource(l)
  BY <1>17 DEF RunLosesSource, LoopGoto
<1>18. CASE \E l \in Loops : LoopExit(l)
  <2>1. TypeOK'
    <3>1. tapLive' \in BOOLEAN
      BY <1>18, Zenon DEF LoopExit
    <3> QED BY <1>18, <3>1 DEF LoopExit, LoopGoto
  <2>2. CallsExclude'
    BY <1>18 DEF LoopExit, LoopGoto
  <2>3. LoopsInOrder'
    BY <1>18 DEF LoopExit, LoopGoto
  <2> QED BY <2>1, <2>2, <2>3
<1>19. CASE \E l \in Loops : TapDisabled(l)
  BY <1>19 DEF TapDisabled
<1>20. CASE \E g \in Recoveries : ReadHandle(g)
  BY <1>20 DEF ReadHandle
<1>21. CASE \E g \in Recoveries : Reenable(g)
  BY <1>21 DEF Reenable
<1>22. CASE UNCHANGED vars
  BY <1>22 DEF vars
<1> QED
  BY <1>1, <1>2, <1>3, <1>4, <1>5, <1>6, <1>7, <1>8, <1>9, <1>10, <1>11, <1>12,
     <1>13, <1>14, <1>15, <1>16, <1>17, <1>18, <1>19, <1>20, <1>21, <1>22
  DEF Next, CallerStep, LoopStep

\* While installs beat their timer, one tap and its holder.
LEMMA InTimeKeeps ==
  ASSUME IInv, late' = {}, [Next]_vars
  PROVE  InTime'
<1> USE TapLoopAssumption
    DEF IInv, TypeOK, MaybeLoop, CallsExclude, LoopsInOrder, Stopping,
        Uninstalled, callVars, loopVars, tapVars, recoveryVars, historyVars,
        InTime, InstallsAwaited, TapIsHeld, SlotServes, OffIsHandled, Held, Installing,
        Served
<1>1. CASE \E c \in Callers, l \in Loops : CallStart(c, l)
  BY <1>1 DEF CallStart
<1>2. CASE \E c \in Callers : InstallAnswered(c)
  BY <1>2 DEF InstallAnswered, Return
<1>3. CASE \E c \in Callers : InstallTimeout(c)
  BY <1>3 DEF InstallTimeout, Return
<1>4. CASE \E c \in Callers : CallStop(c)
  BY <1>4 DEF CallStop
<1>5. CASE \E c \in Callers : StopDone(c)
  BY <1>5 DEF StopDone
<1>6. CASE \E c \in Callers : StopTimeout(c)
  BY <1>6 DEF StopTimeout
<1>7. CASE \E c \in Callers : Uninstall(c)
  BY <1>7 DEF Uninstall
<1>8. CASE \E c \in Callers : Unbind(c)
  BY <1>8 DEF Unbind, Return
<1>9. CASE \E l \in Loops : BindDecide(l)
  BY <1>9 DEF BindDecide, LoopGoto
<1>10. CASE \E l \in Loops : CreateTap(l)
  BY <1>10 DEF CreateTap, LoopGoto
<1>11. CASE \E l \in Loops : Refused(l)
  BY <1>11 DEF Refused, LoopGoto
<1>12. CASE \E l \in Loops : SetHandle(l)
  BY <1>12 DEF SetHandle, LoopGoto
<1>13. CASE \E l \in Loops : ReplyInstalled(l)
  BY <1>13 DEF ReplyInstalled, LoopGoto
<1>14. CASE \E l \in Loops : MarkLive(l)
  BY <1>14 DEF MarkLive, LoopGoto
<1>15. CASE \E l \in Loops : EnterRun(l)
  BY <1>15 DEF EnterRun, LoopGoto
<1>16. CASE \E l \in Loops : StopLoop(l)
  BY <1>16 DEF StopLoop
<1>17. CASE \E l \in Loops : RunLosesSource(l)
  BY <1>17 DEF RunLosesSource, LoopGoto
<1>18. CASE \E l \in Loops : LoopExit(l)
  BY <1>18 DEF LoopExit, LoopGoto
<1>19. CASE \E l \in Loops : TapDisabled(l)
  <2>1. PICK l \in Loops : TapDisabled(l)
    BY <1>19
  <2>2. /\ lpc[l] = "running" /\ off' = off \cup {l}
        /\ UNCHANGED <<callVars, loopVars, stopClosed, tapVars, historyVars, rtap>>
    BY <2>1 DEF TapDisabled
  <2>3. \/ escalated'
        \/ /\ escalated => escalated'
           /\ \E g \in Recoveries :
                rpc[g] = "idle" /\ rpc' = [rpc EXCEPT ![g] = "sleeping"]
    BY <2>1 DEF TapDisabled
  <2>4. ASSUME NEW m \in off', m \in attached, ~escalated'
        PROVE  \E g \in Recoveries :
                 rpc'[g] = "sleeping" \/ (rpc'[g] = "enabling" /\ rtap[g] = m)
    <3>1. PICK g \in Recoveries :
            ~escalated /\ rpc[g] = "idle" /\ rpc' = [rpc EXCEPT ![g] = "sleeping"]
      BY <2>3, <2>4
    <3>2. rpc'[g] = "sleeping"
      BY <3>1
    <3> QED BY <3>1, <3>2
  <2>5. OffIsHandled'
    BY <2>2, <2>4
  <2> QED BY <2>2, <2>5
<1>20. CASE \E g \in Recoveries : ReadHandle(g)
  BY <1>20 DEF ReadHandle
<1>21. CASE \E g \in Recoveries : Reenable(g)
  BY <1>21 DEF Reenable
<1>22. CASE UNCHANGED vars
  BY <1>22 DEF vars
<1> QED
  BY <1>1, <1>2, <1>3, <1>4, <1>5, <1>6, <1>7, <1>8, <1>9, <1>10, <1>11, <1>12,
     <1>13, <1>14, <1>15, <1>16, <1>17, <1>18, <1>19, <1>20, <1>21, <1>22
  DEF Next, CallerStep, LoopStep

\* While stops beat theirs too, tapLive.
LEMMA LiveKeeps ==
  ASSUME IInv, late' = {}, overdue' = {}, [Next]_vars
  PROVE  LiveFollowsRun'
<1> USE TapLoopAssumption
    DEF IInv, TypeOK, MaybeLoop, CallsExclude, LoopsInOrder, Stopping,
        Uninstalled, callVars, loopVars, tapVars, recoveryVars, historyVars,
        InTime, InstallsAwaited, TapIsHeld, SlotServes, OffIsHandled, Held, Installing,
        Served, LiveFollowsRun
<1>1. CASE \E c \in Callers, l \in Loops : CallStart(c, l)
  BY <1>1 DEF CallStart
<1>2. CASE \E c \in Callers : InstallAnswered(c)
  BY <1>2 DEF InstallAnswered, Return
<1>3. CASE \E c \in Callers : InstallTimeout(c)
  BY <1>3 DEF InstallTimeout, Return
<1>4. CASE \E c \in Callers : CallStop(c)
  BY <1>4 DEF CallStop
<1>5. CASE \E c \in Callers : StopDone(c)
  BY <1>5 DEF StopDone
<1>6. CASE \E c \in Callers : StopTimeout(c)
  BY <1>6 DEF StopTimeout
<1>7. CASE \E c \in Callers : Uninstall(c)
  BY <1>7 DEF Uninstall
<1>8. CASE \E c \in Callers : Unbind(c)
  BY <1>8 DEF Unbind, Return
<1>9. CASE \E l \in Loops : BindDecide(l)
  BY <1>9 DEF BindDecide, LoopGoto
<1>10. CASE \E l \in Loops : CreateTap(l)
  BY <1>10 DEF CreateTap, LoopGoto
<1>11. CASE \E l \in Loops : Refused(l)
  BY <1>11 DEF Refused, LoopGoto
<1>12. CASE \E l \in Loops : SetHandle(l)
  BY <1>12 DEF SetHandle, LoopGoto
<1>13. CASE \E l \in Loops : ReplyInstalled(l)
  BY <1>13 DEF ReplyInstalled, LoopGoto
<1>14. CASE \E l \in Loops : MarkLive(l)
  BY <1>14 DEF MarkLive, LoopGoto
<1>15. CASE \E l \in Loops : EnterRun(l)
  BY <1>15 DEF EnterRun, LoopGoto
<1>16. CASE \E l \in Loops : StopLoop(l)
  <2>1. PICK l \in Loops : StopLoop(l)
    BY <1>16
  <2>2. lpc' = lpc \/ (lpc[l] \in {"run", "running"} /\ lpc' = [lpc EXCEPT ![l] = "returned"])
    BY <2>1 DEF StopLoop
  <2>3. UNCHANGED <<callVars, tapVars, late, overdue>>
    BY <2>1 DEF StopLoop
  <2> QED BY <2>2, <2>3
<1>17. CASE \E l \in Loops : RunLosesSource(l)
  BY <1>17 DEF RunLosesSource, LoopGoto
<1>18. CASE \E l \in Loops : LoopExit(l)
  BY <1>18 DEF LoopExit, LoopGoto
<1>19. CASE \E l \in Loops : TapDisabled(l)
  BY <1>19 DEF TapDisabled
<1>20. CASE \E g \in Recoveries : ReadHandle(g)
  BY <1>20 DEF ReadHandle
<1>21. CASE \E g \in Recoveries : Reenable(g)
  BY <1>21 DEF Reenable
<1>22. CASE UNCHANGED vars
  BY <1>22 DEF vars
<1> QED
  BY <1>1, <1>2, <1>3, <1>4, <1>5, <1>6, <1>7, <1>8, <1>9, <1>10, <1>11, <1>12,
     <1>13, <1>14, <1>15, <1>16, <1>17, <1>18, <1>19, <1>20, <1>21, <1>22
  DEF Next, CallerStep, LoopStep

\* Nothing runs at first.
LEMMA InitIInv == Init => IInv
<1> SUFFICES ASSUME Init PROVE IInv
  OBVIOUS
<1> USE TapLoopAssumption DEF Init
<1>1. TypeOK
  <2>1. tapLive \in BOOLEAN /\ escalated \in BOOLEAN /\ misuse \in BOOLEAN
    BY Zenon
  <2> QED BY <2>1 DEF TypeOK, MaybeLoop
<1>2. CallsExclude /\ LoopsInOrder
  BY DEF CallsExclude, LoopsInOrder, Stopping, Uninstalled
<1>3. InTime
  BY DEF InTime, InstallsAwaited, TapIsHeld, SlotServes, OffIsHandled, Installing,
         Uninstalled
<1>4. LiveFollowsRun
  BY DEF LiveFollowsRun, Served
<1> QED BY <1>1, <1>2, <1>3, <1>4 DEF IInv

\* The inductive invariant, from the three lemmas.
THEOREM Invariance == Spec => []IInv
<1>1. IInv /\ [Next]_vars => IInv'
  <2> SUFFICES ASSUME IInv, [Next]_vars PROVE IInv'
    OBVIOUS
  <2>1. TypeOK' /\ CallsExclude' /\ LoopsInOrder'
    BY StructureKeeps DEF IInv
  <2>2. late' = {} => InTime'
    BY InTimeKeeps
  <2>3. late' = {} /\ overdue' = {} => LiveFollowsRun'
    BY LiveKeeps
  <2> QED BY <2>1, <2>2, <2>3 DEF IInv
<1> QED BY InitIInv, <1>1, PTL DEF Spec

-------------------------------------------------------------------------------

\* Every variable keeps its type.
THEOREM TypeCorrect == Spec => []TypeOK
<1>1. IInv => TypeOK
  BY DEF IInv
<1> QED BY Invariance, <1>1, PTL

\* A tap that takes keys decides with its own Driver (tap_cgo.go: the order of
\* setDecide, cxtap_create and TapUninstall), while installs beat their timer.
THEOREM TapsDecide == Spec => []TapDecides
<1>1. IInv => TapDecides
  BY DEF IInv, InTime, TapIsHeld, TapDecides, TypeOK
<1> QED BY Invariance, <1>1, PTL

\* Outside the calls a tap is the one TapStop would stop, however slow the stops.
THEOREM NoTapIsOrphaned == Spec => []NoOrphanInTime
<1>1. IInv => NoOrphanInTime
  BY DEF IInv, InTime, TapIsHeld, Held, NoOrphanInTime, NoOrphanTap, TypeOK
<1> QED BY Invariance, <1>1, PTL

\* Outside the calls a taken slot has a loop that serves behind it: no start is
\* refused as "already running" while nothing runs.
THEOREM SlotsHaveLoops == Spec => []SlotHasLoopInTime
<1>1. IInv => SlotHasLoopInTime
  BY
  DEF IInv, InTime, SlotServes, Served, SlotHasLoopInTime, SlotHasLoop, TypeOK,
      MaybeLoop
<1> QED BY Invariance, <1>1, PTL

\* A tap the system switched off is being re-enabled, or reported as given up
\* (crossosGoTapDisabled and its backoff), while installs beat their timer.
THEOREM DisabledTapsAreHandled == Spec => []DisabledIsHandled
<1>1. IInv => DisabledIsHandled
  BY DEF IInv, InTime, OffIsHandled, DisabledIsHandled
<1> QED BY Invariance, <1>1, PTL

\* TapLive answers the truth while installs and stops beat their timers.
THEOREM LiveIsTrue == Spec => []LiveIsTruthInTime
<1>1. ASSUME IInv, late = {}, overdue = {}, Settled
      PROVE  tapLive <=> attached # {}
  <2> USE <1>1 DEF Settled
  <2>1. \A l \in Loops : l \in attached => slot = l
    BY DEF IInv, InTime, TapIsHeld, Held
  <2>2. \A l \in Loops : slot = l => l \in attached /\ lpc[l] \in Served
    BY DEF IInv, InTime, SlotServes
  <2>3. tapLive <=> \E l \in Loops : lpc[l] = "running"
    BY DEF IInv, LiveFollowsRun
  <2>4. \A l \in Loops : lpc[l] = "running" => slot = l
    BY DEF IInv, LiveFollowsRun, Served
  <2> QED BY <2>1, <2>2, <2>3, <2>4 DEF IInv, TypeOK, Served
<1>2. IInv => LiveIsTruthInTime
  BY <1>1 DEF LiveIsTruthInTime, LiveIsTruth
<1> QED BY Invariance, <1>2, PTL

-------------------------------------------------------------------------------
(* The refinement. *)

\* The abstract slot, without the choice among callers: only one can be there.
StopUnderWay == lock # NoCaller /\ cpc[lock] \in Stopping
SlotSeen == IF StopUnderWay THEN mine[lock] ELSE slot

\* The lock's holder is the only one that can be stopping.
LEMMA SlotIsSeen ==
  ASSUME CallsExclude, TypeOK
  PROVE  contractSlot = SlotSeen
<1> DEFINE stopping == {c \in Callers : cpc[c] \in {"waitDone", "uninstall"}}
<1>1. \A c \in Callers : c \in stopping <=> StopUnderWay /\ c = lock
  BY TapLoopAssumption DEF CallsExclude, TypeOK, StopUnderWay, Stopping
<1>2. CASE StopUnderWay
  <2>1. stopping = {lock}
    BY <1>1, <1>2 DEF TypeOK, StopUnderWay
  <2> QED BY <1>2, <2>1 DEF contractSlot, SlotSeen
<1>3. CASE ~StopUnderWay
  <2>1. stopping = {}
    BY <1>1, <1>3
  <2> QED BY <1>3, <2>1 DEF contractSlot, SlotSeen
<1> QED BY <1>2, <1>3

\* The steps of the contract, on what the adapter shows of it.
TakesSlot(l) ==
  /\ SlotSeen = NoLoop /\ SlotSeen' = l
  /\ contractPending' = contractPending \cup {l}
  /\ UNCHANGED <<contractUp, tapHandle>>
Arrives(l) ==
  /\ l \in contractPending /\ contractPending' = contractPending \ {l}
  /\ contractUp' = contractUp \cup {l} /\ tapHandle' = l
  /\ SlotSeen' = SlotSeen
IsRefused(l) ==
  /\ l \in contractPending /\ contractPending' = contractPending \ {l}
  /\ SlotSeen' = SlotSeen
  /\ UNCHANGED <<contractUp, tapHandle>>
Releases ==
  /\ SlotSeen \notin contractPending \cup contractUp /\ SlotSeen' = NoLoop
  /\ UNCHANGED <<contractUp, tapHandle, contractPending>>
Removes ==
  /\ SlotSeen # NoLoop /\ SlotSeen' = NoLoop
  /\ contractUp' = contractUp \ {tapHandle} /\ tapHandle' = NoLoop
  /\ UNCHANGED contractPending
Rests ==
  /\ SlotSeen' = SlotSeen
  /\ UNCHANGED <<contractUp, tapHandle, contractPending>>

\* Each step of a call or of a goroutine is one of those, whatever is late.
LEMMA StepRefines ==
  ASSUME TypeOK, CallsExclude, LoopsInOrder, TypeOK', [Next]_vars
  PROVE  \/ \E l \in Loops : TakesSlot(l) \/ Arrives(l) \/ IsRefused(l)
         \/ Releases \/ Removes \/ Rests
<1> USE TapLoopAssumption
    DEF SlotSeen, StopUnderWay, Stopping, contractUp, contractPending, callVars,
        loopVars, tapVars, recoveryVars, historyVars, TypeOK, MaybeLoop
<1>1. ASSUME NEW c \in Callers, NEW l \in Loops, CallStart(c, l) PROVE TakesSlot(l)
  BY <1>1 DEF CallStart, TakesSlot
<1>2. ASSUME NEW c \in Callers, InstallAnswered(c) PROVE Releases \/ Rests
  <2>1. lock = c /\ cpc[c] = "waitInstall" /\ slot = mine[c] /\ mine[c] \in Loops
    BY <1>2 DEF CallsExclude, InstallAnswered
  <2>2. CASE install[mine[c]] = "denied"
    <3>1. mine[c] \notin attached /\ lpc[mine[c]] = "done"
      BY <2>1, <2>2 DEF LoopsInOrder
    <3> QED BY <1>2, <2>1, <2>2, <3>1 DEF InstallAnswered, Return, Releases
  <2>3. CASE install[mine[c]] # "denied"
    BY <1>2, <2>1, <2>3 DEF InstallAnswered, Return, Rests
  <2> QED BY <2>2, <2>3
<1>3. ASSUME NEW c \in Callers, InstallTimeout(c) PROVE Rests
  BY <1>3 DEF InstallTimeout, Return, CallsExclude, Rests
<1>4. ASSUME NEW c \in Callers, CallStop(c) PROVE Rests
  BY <1>4 DEF CallStop, Rests
<1>5. ASSUME NEW c \in Callers, StopDone(c) \/ StopTimeout(c) PROVE Rests
  BY <1>5 DEF StopDone, StopTimeout, CallsExclude, Rests
<1>6. ASSUME NEW c \in Callers, Uninstall(c) PROVE Removes
  <2>1. lock = c /\ cpc[c] = "uninstall" /\ slot = NoLoop /\ mine[c] \in Loops
    BY <1>6 DEF CallsExclude, Uninstall
  <2> QED BY <1>6, <2>1 DEF Uninstall, Removes
<1>7. ASSUME NEW c \in Callers, Unbind(c) PROVE Rests
  BY <1>7 DEF Unbind, Return, CallsExclude, Rests
<1>8. ASSUME NEW l \in Loops, CreateTap(l) PROVE IsRefused(l) \/ Rests
  BY <1>8 DEF CreateTap, LoopGoto, LoopsInOrder, IsRefused, Rests
<1>9. ASSUME NEW l \in Loops, SetHandle(l) PROVE Arrives(l)
  BY <1>9 DEF SetHandle, LoopGoto, LoopsInOrder, Arrives
<1>10. ASSUME NEW l \in Loops,
              BindDecide(l) \/ Refused(l) \/ ReplyInstalled(l) \/ MarkLive(l)
              \/ EnterRun(l) \/ RunLosesSource(l) \/ LoopExit(l)
       PROVE  Rests
  BY <1>10 DEF BindDecide, Refused, ReplyInstalled, MarkLive, EnterRun, RunLosesSource,
               LoopExit, LoopGoto, Rests
<1>11. ASSUME NEW l \in Loops, StopLoop(l) PROVE Rests
  <2>1. \/ lpc' = lpc
        \/ /\ lpc[l] \in {"run", "running"}
           /\ lpc' = [lpc EXCEPT ![l] = "returned"]
    BY <1>11 DEF StopLoop
  <2>2. UNCHANGED <<callVars, tapVars>>
    BY <1>11 DEF StopLoop
  <2> QED BY <2>1, <2>2 DEF Rests
<1>12. ASSUME NEW l \in Loops, TapDisabled(l) PROVE Rests
  BY <1>12 DEF TapDisabled, Rests
<1>13. ASSUME NEW g \in Recoveries, ReadHandle(g) \/ Reenable(g) PROVE Rests
  BY <1>13 DEF ReadHandle, Reenable, Rests
<1>14. CASE UNCHANGED vars
  BY <1>14 DEF vars, Rests
<1> QED BY <1>1, <1>2, <1>3, <1>4, <1>5, <1>6, <1>7, <1>8, <1>9, <1>10, <1>11, <1>12,
           <1>13, <1>14, Zenon
        DEF Next, CallerStep, LoopStep

\* The adapter keeps its contract: every step of TapStart, TapStop and the
\* goroutines is one of TapContract or none, whatever outlasts its timer.
THEOREM ContractKept == Spec => KeepsContract
<1>1. Init => Contract!TapInit
  <2> SUFFICES ASSUME Init
               PROVE  /\ contractSlot = NoLoop /\ contractUp = {}
                      /\ tapHandle = NoLoop /\ contractPending = {}
    BY DEF Contract!TapInit
  <2>1. IInv
    BY InitIInv
  <2>2. contractSlot = SlotSeen
    BY <2>1, SlotIsSeen DEF IInv
  <2> QED BY <2>2 DEF Init, SlotSeen, StopUnderWay, contractUp, contractPending
<1>2. IInv => contractSlot = SlotSeen
  BY SlotIsSeen DEF IInv
<1>3. (IInv => contractSlot = SlotSeen)'
  BY <1>2, PTL
<1>4. ASSUME IInv, IInv', [Next]_vars
      PROVE  [Contract!TapNext]_(Contract!tapVars)
  <2>1. contractSlot = SlotSeen /\ contractSlot' = SlotSeen'
    BY <1>2, <1>3, <1>4
  <2>2. ASSUME NEW l \in Loops, TakesSlot(l) PROVE Contract!InstallLate(l)
    BY <2>1, <2>2 DEF TakesSlot, Contract!InstallLate
  <2>3. ASSUME NEW l \in Loops, Arrives(l) PROVE Contract!LateArrival(l)
    BY <2>1, <2>3 DEF Arrives, Contract!LateArrival
  <2>4. ASSUME NEW l \in Loops, IsRefused(l) PROVE Contract!LateRefusal(l)
    BY <2>1, <2>4 DEF IsRefused, Contract!LateRefusal
  <2>5. Releases => Contract!ReleaseSlot
    BY <2>1 DEF Releases, Contract!ReleaseSlot
  <2>6. Removes => Contract!RemoveTap
    BY <2>1 DEF Removes, Contract!RemoveTap
  <2>7. Rests => UNCHANGED Contract!tapVars
    BY <2>1 DEF Rests, Contract!tapVars
  <2>8. \/ \E l \in Loops : TakesSlot(l) \/ Arrives(l) \/ IsRefused(l)
        \/ Releases \/ Removes \/ Rests
    BY <1>4, StepRefines DEF IInv
  <2> QED BY <2>2, <2>3, <2>4, <2>5, <2>6, <2>7, <2>8, Zenon DEF Contract!TapNext
<1> QED BY <1>1, <1>4, Invariance, PTL DEF Spec, KeepsContract, Contract!TapSpec
===============================================================================
