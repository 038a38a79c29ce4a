--------------------------- MODULE KillSwitchProofs ---------------------------
(* Theorems about KillSwitch, for every set of drivers and requests.         *)
EXTENDS KillSwitch, TLAPS

\* The first boot is typed.
LEMMA InitTypeOK == Init => TypeOK
<1> SUFFICES ASSUME Init PROVE TypeOK
  OBVIOUS
<1>1. pc \in [Procs -> {"down", "idle"}]
  BY DEF Init, NoGoroutines
<1>2. job \in [Procs -> Jobs] /\ held \in [Procs -> MaybeDriver]
  BY DEF Init, Jobs, MaybeDriver
<1>3. once \in [Drivers -> {"unused", "idle", "busy", "done"}]
  BY DEF Init
<1>4. TapTypeOK
  BY DEF Init, TapInit, TapTypeOK, MaybeDriver
<1> QED
  BY <1>1, <1>2, <1>3, <1>4
     DEF Init, TypeOK, MaybeDriver, RequestSteps, MainSteps

\* Where a goroutine goes on, and what becomes of its locals.
LEMMA ProceedSteps ==
  ASSUME TypeOK, NEW p \in Procs, NEW s, Proceed(p, s)
  PROVE  /\ pc' = [pc EXCEPT ![p] = s]
         /\ \E h \in {held[p], NoDriver} : held' = [held EXCEPT ![p] = h]
         /\ \E j \in {job[p], "none"} : job' = [job EXCEPT ![p] = j]
BY DEF Proceed, Goto, TypeOK

\* Every step keeps the types: an install is of the driver its startTap made.
LEMMA NextTypeOK == TypeOK /\ OwnDriver /\ [Next]_vars => TypeOK'
<1> SUFFICES ASSUME TypeOK, OwnDriver, [Next]_vars PROVE TypeOK'
  OBVIOUS
<1> USE DEF TypeOK, TapTypeOK, MaybeDriver, tapVars, coreVars, latchVars,
            onceVars, historyVars, Goto, Persist
<1>s. /\ \A j \in Jobs : AfterStop[j] \in {"idle", "seed", "resetPersist", "exit"}
      /\ \A j \in Jobs : AfterStart[j] \in {"idle", "serve"}
      /\ \A k \in Kinds : FirstStep[k] \in {"panicKill", "unlatch", "resetKill"}
  BY KillSwitchAssumption DEF AfterStop, AfterStart, FirstStep, Jobs
<1>1. CASE Boot
  <2>1. memLatch' \in BOOLEAN /\ underLatch' \in BOOLEAN
    BY <1>1, Zenon DEF Boot
  <2>2. pc' \in [Procs -> StartSteps \cup StopSteps \cup RequestSteps
                          \cup MainSteps]
    BY <1>1 DEF Boot, StartSteps
  <2>3. job' \in [Procs -> Jobs]
    BY <1>1 DEF Boot, Jobs
  <2> QED
    BY <1>1, <2>1, <2>2, <2>3 DEF Boot
<1>2. CASE ProcessEnds
  BY <1>2 DEF ProcessEnds, NoGoroutines, RequestSteps, MainSteps, Jobs
<1>3. CASE Signal
  <2>1. killed' \in BOOLEAN /\ memLatch' \in BOOLEAN /\ fileLatch' \in BOOLEAN
        /\ owned' \in BOOLEAN /\ underLatch' \in BOOLEAN /\ abandoned' \in BOOLEAN
    BY <1>3, Zenon DEF Signal
  <2>2. pc' \in [Procs -> StartSteps \cup StopSteps \cup RequestSteps
                          \cup MainSteps]
    BY <1>3 DEF Signal, StopSteps
  <2>3. job' \in [Procs -> Jobs] /\ held' \in [Procs -> MaybeDriver]
    BY <1>3 DEF Signal
  <2> QED
    BY <1>3, <2>1, <2>2, <2>3 DEF Signal
<1>4. CASE TapComesUp
  BY <1>4 DEF TapComesUp, LateArrival, LateRefusal
<1>5. ASSUME NEW p \in Procs, StartOrStopTap(p) PROVE TypeOK'
  <2>1. CASE StopNothing(p)
    BY <2>1, <1>s, ProceedSteps DEF StopNothing, RequestSteps, StartSteps, MainSteps, Jobs
  <2>2. CASE StopWatcher(p)
    BY <2>2 DEF StopWatcher, StopSteps
  <2>3. CASE StopTap(p)
    <3>1. abandoned' \in BOOLEAN
      BY <2>3, Zenon DEF StopTap
    <3>2. /\ pc' = [pc EXCEPT ![p] = AfterStop[job[p]]]
          /\ \E h \in {held[p], NoDriver} : held' = [held EXCEPT ![p] = h]
          /\ \E j \in {job[p], "none"} : job' = [job EXCEPT ![p] = j]
      BY <2>3, ProceedSteps DEF StopTap
    <3>3. /\ pc' \in [Procs -> StartSteps \cup StopSteps \cup RequestSteps
                               \cup MainSteps]
          /\ job' \in [Procs -> Jobs] /\ held' \in [Procs -> MaybeDriver]
      BY <1>s, <3>2 DEF RequestSteps, StartSteps, MainSteps, Jobs
    <3>4. TapTypeOK' /\ once' \in [Drivers -> {"unused", "idle", "busy", "done"}]
      BY <2>3 DEF StopTap, RemoveTap
    <3> QED
      BY <2>3, <3>1, <3>3, <3>4 DEF StopTap
  <2>4. ASSUME NEW d \in Drivers, SeedCache(p, d) PROVE TypeOK'
    BY <2>4 DEF SeedCache, StartSteps
  <2>5. CASE CheckLatch(p)
    BY <2>5 DEF CheckLatch, StartSteps
  <2>6. CASE RefuseTap(p)
    <3>1. job' \in [Procs -> Jobs]
      BY <2>6 DEF RefuseTap, Jobs
    <3>2. killed' \in BOOLEAN
      BY <2>6, Zenon DEF RefuseTap
    <3> QED
      BY <2>6, <1>s, <3>1, <3>2 DEF RefuseTap, RequestSteps, MainSteps
  <2>7. CASE InstallTap(p)
    <3>1. TapTypeOK'
      <4>1. held[p] \in Drivers
        BY <2>7 DEF InstallTap, OwnDriver, Starting
      <4> QED
        BY <2>7, <4>1 DEF InstallTap, InstallOK, InstallDenied, InstallBusy, InstallLate
    <3> QED
      BY <2>7, <3>1 DEF InstallTap, InstallOK, InstallDenied, InstallBusy, InstallLate,
                        StartSteps
  <2>8. CASE RecordOK(p)
    BY <2>8 DEF RecordOK, StartSteps
  <2>9. CASE RecordFailed(p)
    BY <2>9 DEF RecordFailed, StartSteps
  <2>10. CASE OwnTap(p)
    BY <2>10 DEF OwnTap, StartSteps
  <2>11. CASE PublishStop(p)
    <3>1. /\ pc' = [pc EXCEPT ![p] = AfterStart[job[p]]]
          /\ \E h \in {held[p], NoDriver} : held' = [held EXCEPT ![p] = h]
          /\ \E j \in {job[p], "none"} : job' = [job EXCEPT ![p] = j]
      BY <2>11, ProceedSteps DEF PublishStop
    <3>2. job[p] \in Jobs /\ "none" \in Jobs /\ held[p] \in MaybeDriver
      BY DEF Jobs
    <3>3. AfterStart[job[p]] \in RequestSteps \cup MainSteps
      BY <1>s, <3>2 DEF RequestSteps, MainSteps
    <3>4. /\ pc' \in [Procs -> StartSteps \cup StopSteps \cup RequestSteps
                               \cup MainSteps]
          /\ job' \in [Procs -> Jobs] /\ held' \in [Procs -> MaybeDriver]
      BY <3>1, <3>2, <3>3
    <3> QED
      BY <2>11, <3>2, <3>4 DEF PublishStop
  <2> QED
    BY <1>5, <2>1, <2>2, <2>3, <2>4, <2>5, <2>6, <2>7, <2>8, <2>9, <2>10,
       <2>11 DEF StartOrStopTap
<1>6. ASSUME NEW r \in Requests, RequestStep(r) PROVE TypeOK'
  <2>1. ASSUME NEW k \in Kinds, Arrive(r, k) PROVE TypeOK'
    <3>1. k \in Jobs /\ FirstStep[k] \in RequestSteps
      BY <1>s, KillSwitchAssumption DEF Jobs, RequestSteps
    <3>2. pc' \in [Procs -> StartSteps \cup StopSteps \cup RequestSteps
                            \cup MainSteps]
      BY <2>1, <3>1 DEF Arrive
    <3>3. job' \in [Procs -> Jobs] /\ held' \in [Procs -> MaybeDriver]
      BY <2>1, <3>1 DEF Arrive
    <3> QED
      BY <2>1, <3>2, <3>3 DEF Arrive
  <2>2. CASE PanicKill(r)
    <3>1. killed' \in BOOLEAN /\ memLatch' \in BOOLEAN /\ fileLatch' \in BOOLEAN
          /\ owned' \in BOOLEAN /\ underLatch' \in BOOLEAN /\ abandoned' \in BOOLEAN
      BY <2>2, Zenon DEF PanicKill
    <3>2. pc' \in [Procs -> StartSteps \cup StopSteps \cup RequestSteps
                            \cup MainSteps]
      BY <2>2 DEF PanicKill, RequestSteps
    <3>3. job' \in [Procs -> Jobs] /\ held' \in [Procs -> MaybeDriver]
      BY <2>2 DEF PanicKill
    <3> QED
      BY <2>2, <3>1, <3>2, <3>3 DEF PanicKill
  <2>3. CASE PanicPersist(r)
    <3>1. memLatch' \in BOOLEAN /\ fileLatch' \in BOOLEAN /\ underLatch' \in BOOLEAN
      BY <2>3, Zenon DEF PanicPersist
    <3>2. pc' \in [Procs -> StartSteps \cup StopSteps \cup RequestSteps
                            \cup MainSteps]
      BY <2>3 DEF PanicPersist, RequestSteps
    <3> QED
      BY <2>3, <3>1, <3>2 DEF PanicPersist
  <2>4. CASE PanicReport(r)
    <3>1. killed' \in BOOLEAN /\ memLatch' \in BOOLEAN /\ fileLatch' \in BOOLEAN
          /\ owned' \in BOOLEAN /\ underLatch' \in BOOLEAN /\ abandoned' \in BOOLEAN
      BY <2>4, Zenon DEF PanicReport
    <3>2. pc' \in [Procs -> StartSteps \cup StopSteps \cup RequestSteps
                            \cup MainSteps]
      BY <2>4 DEF PanicReport, StopSteps
    <3>3. job' \in [Procs -> Jobs] /\ held' \in [Procs -> MaybeDriver]
      BY <2>4 DEF PanicReport
    <3> QED
      BY <2>4, <3>1, <3>2, <3>3 DEF PanicReport
  <2>5. CASE ResumeUnlatch(r)
    <3>1. memLatch' \in BOOLEAN /\ fileLatch' \in BOOLEAN /\ underLatch' \in BOOLEAN
      BY <2>5, Zenon DEF ResumeUnlatch
    <3>2. Proceed(r, "clear") \/ Proceed(r, "idle")
      BY <2>5, Zenon DEF ResumeUnlatch
    <3>3. /\ pc' \in [Procs -> StartSteps \cup StopSteps \cup RequestSteps
                               \cup MainSteps]
          /\ job' \in [Procs -> Jobs] /\ held' \in [Procs -> MaybeDriver]
      BY <3>2, ProceedSteps DEF RequestSteps, Procs, Jobs
    <3> QED
      BY <2>5, <3>1, <3>3 DEF ResumeUnlatch
  <2>6. CASE ResumeClear(r)
    BY <2>6 DEF ResumeClear, StopSteps
  <2>7. CASE ResetKill(r)
    <3>1. killed' \in BOOLEAN /\ memLatch' \in BOOLEAN /\ underLatch' \in BOOLEAN
      BY <2>7, Zenon DEF ResetKill
    <3>2. pc' \in [Procs -> StartSteps \cup StopSteps \cup RequestSteps
                            \cup MainSteps]
      BY <2>7 DEF ResetKill, StopSteps
    <3>3. held' \in [Procs -> MaybeDriver] /\ stopTapFn' \in MaybeDriver
      BY <2>7 DEF ResetKill
    <3> QED
      BY <2>7, <3>1, <3>2, <3>3 DEF ResetKill
  <2>8. CASE ResetPersist(r)
    <3>1. memLatch' \in BOOLEAN /\ fileLatch' \in BOOLEAN /\ underLatch' \in BOOLEAN
      BY <2>8, Zenon DEF ResetPersist
    <3>2. pc' \in [Procs -> StartSteps \cup StopSteps \cup RequestSteps
                            \cup MainSteps]
      BY <2>8 DEF ResetPersist, RequestSteps
    <3> QED
      BY <2>8, <3>1, <3>2 DEF ResetPersist
  <2>9. CASE ResetClear(r)
    <3>1. memLatch' \in BOOLEAN /\ fileLatch' \in BOOLEAN /\ underLatch' \in BOOLEAN
      BY <2>9, Zenon DEF ResetClear
    <3>2. pc' \in [Procs -> StartSteps \cup StopSteps \cup RequestSteps
                            \cup MainSteps]
      BY <2>9 DEF ResetClear, RequestSteps
    <3> QED
      BY <2>9, <3>1, <3>2 DEF ResetClear
  <2>10. CASE ResetDelete(r)
    <3>1. memLatch' \in BOOLEAN /\ fileLatch' \in BOOLEAN /\ underLatch' \in BOOLEAN
      BY <2>10, Zenon DEF ResetDelete
    <3>2. pc' \in [Procs -> StartSteps \cup StopSteps \cup RequestSteps
                            \cup MainSteps]
      BY <2>10 DEF ResetDelete, RequestSteps
    <3> QED
      BY <2>10, <3>1, <3>2 DEF ResetDelete
  <2>11. CASE ResetForget(r)
    <3>1. owned' \in BOOLEAN
      BY <2>11, Zenon DEF ResetForget
    <3>2. /\ pc' \in [Procs -> StartSteps \cup StopSteps \cup RequestSteps
                               \cup MainSteps]
          /\ job' \in [Procs -> Jobs] /\ held' \in [Procs -> MaybeDriver]
      BY <2>11, ProceedSteps DEF ResetForget, RequestSteps, Procs, Jobs
    <3> QED
      BY <2>11, <3>1, <3>2 DEF ResetForget
  <2> QED
    BY <1>6, <2>1, <2>2, <2>3, <2>4, <2>5, <2>6, <2>7, <2>8, <2>9, <2>10,
       <2>11 DEF RequestStep
<1>7. CASE UNCHANGED vars
  BY <1>7 DEF vars
<1> QED
  BY <1>1, <1>2, <1>3, <1>4, <1>5, <1>6, <1>7 DEF Next

-------------------------------------------------------------------------------
StartingSteps == {"check", "refuse", "install", "recordOK", "recordFailed",
                  "own", "publish"}
PublishingSteps == {"recordOK", "recordFailed", "own", "publish"}

\* The parts of the inductive invariant a change of pc can disturb.
Parts ==
  /\ StoppableInTime
  /\ DownIsGone
  /\ UnusedIsFree
  /\ OwnDriver
  /\ SlotIsFresh
  /\ SlotIsReachable
  /\ LatchIsObeyed

\* A step that only moves one goroutine p to step s, perhaps forgetting its
\* driver or capturing the Core's stop function, keeps every part, provided p
\* neither leaves the publishing steps nor abandons a pending stop.
LEMMA PcStep ==
  ASSUME TypeOK, TypeOK', Parts,
         NEW p \in Procs, NEW s, NEW h \in {held[p], NoDriver, stopTapFn},
         pc' = [pc EXCEPT ![p] = s],
         held' = [held EXCEPT ![p] = h],
         UNCHANGED <<tapVars, once, watching, stopTapFn, abandoned>>,
         s # "down", pc[Main] # "down",
         s \in StartingSteps => Starting(p) /\ h = held[p],
         Publishing(p) => s \in PublishingSteps,
         ~StopPending(p),
         underLatch' => underLatch /\ memLatch' /\ s # "install"
  PROVE  Parts'
<1> USE DEF TypeOK, TapTypeOK, tapVars, Starting, Publishing, StartingSteps,
            PublishingSteps
<1>1. StoppableInTime'
  BY DEF Parts, StoppableInTime, LiveTapIsStoppable
<1>2. DownIsGone'
  BY DEF DownIsGone, Procs
<1>3. UnusedIsFree'
  BY DriverAssumption DEF Parts, UnusedIsFree
<1>4. OwnDriver'
  BY DriverAssumption DEF Parts, OwnDriver
<1>5. SlotIsFresh'
  BY DEF Parts, SlotIsFresh
<1>6. SlotIsReachable'
  BY DEF Parts, SlotIsReachable, StopPending
<1>7. LatchIsObeyed'
  BY DEF Parts, LatchIsObeyed
<1> QED
  BY <1>1, <1>2, <1>3, <1>4, <1>5, <1>6, <1>7 DEF Parts

\* The first boot satisfies the invariant.
LEMMA InitIInv == Init => IInv
<1> SUFFICES ASSUME Init PROVE IInv
  OBVIOUS
<1>1. TypeOK
  BY InitTypeOK
<1>2. StoppableInTime /\ SlotIsFresh /\ SlotIsReachable
  BY DEF Init, TapInit, StoppableInTime, LiveTapIsStoppable, SlotIsFresh,
         SlotIsReachable
<1>3. DownIsGone
  BY KillSwitchAssumption
     DEF Init, TapInit, DownIsGone, NoGoroutines, Procs
<1>4. UnusedIsFree
  BY DriverAssumption DEF Init, TapInit, UnusedIsFree
<1>5. OwnDriver
  BY DEF Init, NoGoroutines, OwnDriver, Starting
<1>6. LatchIsObeyed
  BY DEF Init, LatchIsObeyed
<1> QED
  BY <1>1, <1>2, <1>3, <1>4, <1>5, <1>6 DEF IInv

\* The steps that do more than move a goroutine on, one lemma each.

\* A new process finds no tap, and obeys the latch it read from the file.
LEMMA BootParts == TypeOK /\ TypeOK' /\ Parts /\ Boot => Parts'
<1> SUFFICES ASSUME TypeOK, TypeOK', Parts, Boot PROVE Parts'
  OBVIOUS
<1> USE DEF Boot, TypeOK, TapTypeOK, tapVars, historyVars, coreVars, onceVars
<1>1. \A p \in Procs : pc'[p] \in {"idle", "seed"}
  BY DEF Parts, DownIsGone, Procs
<1>2. slot' = NoDriver /\ up' = {} /\ pending' = {}
  BY DEF Parts, DownIsGone
<1>3. StoppableInTime' /\ SlotIsFresh' /\ SlotIsReachable'
  BY <1>2 DEF Parts, StoppableInTime, LiveTapIsStoppable, SlotIsFresh, SlotIsReachable
<1>4. DownIsGone'
  BY DEF DownIsGone, Procs
<1>5. UnusedIsFree'
  BY DEF Parts, UnusedIsFree
<1>6. OwnDriver'
  BY <1>1 DEF OwnDriver, Starting
<1>7. LatchIsObeyed'
  BY <1>1, <1>2, Zenon DEF LatchIsObeyed
<1> QED
  BY <1>3, <1>4, <1>5, <1>6, <1>7 DEF Parts

\* A process that ends takes everything with it.
LEMMA EndParts == TypeOK /\ TypeOK' /\ Parts /\ ProcessEnds => Parts'
<1> SUFFICES ASSUME TypeOK, TypeOK', Parts, ProcessEnds PROVE Parts'
  OBVIOUS
<1> USE DEF ProcessEnds
<1>1. \A p \in Procs : pc'[p] \in {"idle", "down"}
  BY DEF NoGoroutines
<1>2. StoppableInTime' /\ SlotIsFresh' /\ SlotIsReachable'
  BY DEF StoppableInTime, LiveTapIsStoppable, SlotIsFresh, SlotIsReachable
<1>3. DownIsGone'
  BY KillSwitchAssumption DEF DownIsGone, NoGoroutines, Procs
<1>4. UnusedIsFree'
  BY DriverAssumption DEF UnusedIsFree
<1>5. OwnDriver'
  BY <1>1 DEF OwnDriver, Starting
<1>6. LatchIsObeyed'
  BY <1>1, Zenon DEF Parts, LatchIsObeyed, latchVars, historyVars
<1> QED
  BY <1>2, <1>3, <1>4, <1>5, <1>6 DEF Parts

\* A late answer brings a tap up, or none: the slot does not move, and under a
\* latch no install is pending.
LEMMA ComesUpParts == TypeOK /\ Parts /\ TapComesUp => Parts'
<1> SUFFICES ASSUME TypeOK, Parts, TapComesUp PROVE Parts'
  OBVIOUS
<1> USE DEF TapComesUp, LateArrival, LateRefusal, TapTypeOK, TypeOK, Parts, coreVars,
            onceVars, historyVars
<1>1. StoppableInTime' /\ SlotIsFresh' /\ DownIsGone' /\ UnusedIsFree'
  BY DEF StoppableInTime, LiveTapIsStoppable, SlotIsFresh, DownIsGone, UnusedIsFree
<1>2. OwnDriver' /\ SlotIsReachable'
  BY DEF OwnDriver, Starting, SlotIsReachable, Publishing, StopPending
<1>3. LatchIsObeyed'
  BY Zenon DEF LatchIsObeyed, latchVars
<1> QED
  BY <1>1, <1>2, <1>3

\* Entering the Once keeps the slot fresh (busy) and reachable (by p).
LEMMA StopWatcherParts ==
  ASSUME TypeOK, TypeOK', Parts, NEW p \in Procs, StopWatcher(p)
  PROVE  Parts'
<1> USE DEF StopWatcher, Goto, TypeOK, TapTypeOK, tapVars, historyVars, coreVars, Starting
<1>1. StoppableInTime' /\ SlotIsFresh'
  BY DEF Parts, StoppableInTime, LiveTapIsStoppable, SlotIsFresh
<1>2. DownIsGone'
  BY DEF Parts, DownIsGone, Procs
<1>3. UnusedIsFree'
  BY DEF Parts, UnusedIsFree
<1>4. OwnDriver'
  BY DEF Parts, OwnDriver
<1>5. SlotIsReachable'
  BY DEF SlotIsReachable, StopPending
<1>6. LatchIsObeyed'
  BY DEF Parts, LatchIsObeyed, latchVars, historyVars
<1> QED
  BY <1>1, <1>2, <1>3, <1>4, <1>5, <1>6 DEF Parts

\* TapStop empties the slot.
LEMMA StopTapParts ==
  ASSUME TypeOK, TypeOK', Parts, NEW p \in Procs, StopTap(p)
  PROVE  Parts'
<1> USE DEF StopTap, RemoveTap, TypeOK, TapTypeOK, coreVars, Starting
<1>0. AfterStop[job[p]] \in {"idle", "seed", "resetPersist", "exit"}
  BY DEF AfterStop, Jobs
<1>p. /\ pc' = [pc EXCEPT ![p] = AfterStop[job[p]]]
      /\ \E h \in {held[p], NoDriver} : held' = [held EXCEPT ![p] = h]
  BY ProceedSteps
<1>h. /\ \A q \in Procs \ {p} : held'[q] = held[q] /\ pc'[q] = pc[q]
      /\ held'[p] \in {held[p], NoDriver}
  BY <1>p
<1>a. StoppableInTime'
  BY DEF Parts, StoppableInTime, LiveTapIsStoppable
<1>1. SlotIsFresh' /\ SlotIsReachable'
  BY DEF SlotIsFresh, SlotIsReachable
<1>2. DownIsGone'
  BY <1>0, <1>p DEF Parts, DownIsGone, Procs
<1>3. UnusedIsFree'
  BY <1>p, DriverAssumption DEF Parts, UnusedIsFree
<1>4. OwnDriver'
  <2>1. ~Starting(p)'
    BY <1>0, <1>p
  <2> QED BY <1>h, <2>1, DriverAssumption DEF Parts, OwnDriver
<1>5. LatchIsObeyed'
  BY <1>0, <1>p DEF Parts, LatchIsObeyed, latchVars, historyVars
<1> QED
  BY <1>a, <1>1, <1>2, <1>3, <1>4, <1>5 DEF Parts

\* A new driver is known to nobody else.
LEMMA SeedParts ==
  ASSUME TypeOK, TypeOK', Parts, NEW p \in Procs, NEW d \in Drivers,
         SeedCache(p, d)
  PROVE  Parts'
<1> USE DEF SeedCache, Goto, TypeOK, TapTypeOK, tapVars, historyVars, Starting
<1>1. StoppableInTime' /\ SlotIsFresh'
  BY DEF Parts, StoppableInTime, LiveTapIsStoppable, SlotIsFresh, UnusedIsFree
<1>2. DownIsGone'
  BY DEF Parts, DownIsGone, Procs
<1>3. UnusedIsFree'
  BY DEF Parts, UnusedIsFree
<1>4. OwnDriver'
  BY DEF Parts, OwnDriver, UnusedIsFree
<1>5. SlotIsReachable'
  <2>1. CASE stopTapFn # NoDriver /\ once[stopTapFn] = "idle"
    BY <2>1 DEF SlotIsReachable
  <2>2. ASSUME NEW q \in Procs, Publishing(q) \/ StopPending(q)
        PROVE  (Publishing(q) \/ StopPending(q))'
    BY <2>2 DEF Parts, UnusedIsFree, Publishing, StopPending
  <2> QED
    BY <2>1, <2>2 DEF Parts, SlotIsReachable
<1>6. LatchIsObeyed'
  BY DEF Parts, LatchIsObeyed, latchVars, historyVars
<1> QED
  BY <1>1, <1>2, <1>3, <1>4, <1>5, <1>6 DEF Parts

\* Taking the slot, with the tap up or still to come: the taker is inside
\* startTap with a watched driver, and will publish its stop function.
LEMMA TakeSlotParts ==
  ASSUME TypeOK, TypeOK', Parts, NEW p \in Procs, pc[p] = "install",
         slot = NoDriver, slot' = held[p],
         \/ UNCHANGED <<up, handle>> /\ pending' = pending \cup {held[p]}
         \/ UNCHANGED pending /\ up' = up \cup {held[p]} /\ handle' = held[p],
         NEW s \in {"recordOK", "recordFailed"}, pc' = [pc EXCEPT ![p] = s],
         UNCHANGED <<coreVars, latchVars, onceVars, held, historyVars>>
  PROVE  Parts'
<1> USE DEF TypeOK, TapTypeOK, coreVars, onceVars, historyVars, Starting
<1>0. held[p] \in Drivers /\ once[held[p]] = "idle" /\ held[p] \in watching
  BY DEF Parts, OwnDriver
<1>1. StoppableInTime' /\ SlotIsFresh'
  BY <1>0, DriverAssumption DEF Parts, StoppableInTime, LiveTapIsStoppable, SlotIsFresh
<1>2. DownIsGone'
  BY DEF Parts, DownIsGone, Procs
<1>3. UnusedIsFree'
  BY <1>0 DEF Parts, UnusedIsFree
<1>4. OwnDriver'
  BY DEF Parts, OwnDriver
<1>5. SlotIsReachable'
  BY DEF SlotIsReachable, Publishing
<1>6. LatchIsObeyed'
  BY DEF Parts, LatchIsObeyed
<1> QED
  BY <1>1, <1>2, <1>3, <1>4, <1>5, <1>6 DEF Parts

\* Publishing arms the kill switch with a stop function nobody has spent.
LEMMA PublishParts ==
  ASSUME TypeOK, TypeOK', Parts, NEW p \in Procs, PublishStop(p)
  PROVE  Parts'
<1> USE DEF PublishStop, TypeOK, TapTypeOK, tapVars, onceVars, historyVars, Starting
<1>0. AfterStart[job[p]] \in {"idle", "serve"}
  BY DEF AfterStart, Jobs
<1>p. /\ pc' = [pc EXCEPT ![p] = AfterStart[job[p]]]
      /\ \E h \in {held[p], NoDriver} : held' = [held EXCEPT ![p] = h]
  BY ProceedSteps
<1>h. /\ \A q \in Procs \ {p} : held'[q] = held[q] /\ pc'[q] = pc[q]
      /\ held'[p] \in {held[p], NoDriver}
  BY <1>p
<1>1. held[p] \in Drivers /\ once[held[p]] = "idle"
  BY DEF Parts, OwnDriver
<1>2. StoppableInTime' /\ SlotIsFresh'
  BY DEF Parts, StoppableInTime, LiveTapIsStoppable, SlotIsFresh
<1>3. DownIsGone'
  BY <1>0, <1>p DEF Parts, DownIsGone, Procs
<1>4. UnusedIsFree'
  BY <1>1, <1>p, DriverAssumption DEF Parts, UnusedIsFree
<1>5. OwnDriver'
  <2>1. ~Starting(p)'
    BY <1>0, <1>p
  <2> QED BY <1>h, <2>1, DriverAssumption DEF Parts, OwnDriver
<1>6. SlotIsReachable'
  BY <1>1, DriverAssumption DEF SlotIsReachable
<1>7. LatchIsObeyed'
  BY <1>0, <1>p DEF Parts, LatchIsObeyed, latchVars, historyVars
<1> QED
  BY <1>2, <1>3, <1>4, <1>5, <1>6, <1>7 DEF Parts

\* Whoever takes the Core's stop function is on the way to running it.
LEMMA CaptureParts ==
  ASSUME TypeOK, TypeOK', Parts, NEW p \in Procs,
         pc[p] \in {"clear", "resetKill"},
         pc' = [pc EXCEPT ![p] = "stop"],
         held' = [held EXCEPT ![p] = stopTapFn],
         stopTapFn' = NoDriver,
         UNCHANGED <<tapVars, latchVars, onceVars, historyVars>>
  PROVE  Parts'
<1> USE DEF TypeOK, TapTypeOK, tapVars, onceVars, historyVars, Starting
<1>1. StoppableInTime' /\ SlotIsFresh'
  BY DEF Parts, StoppableInTime, LiveTapIsStoppable, SlotIsFresh
<1>2. DownIsGone'
  BY DEF Parts, DownIsGone, Procs
<1>3. UnusedIsFree'
  BY DriverAssumption DEF Parts, UnusedIsFree
<1>4. OwnDriver'
  BY DriverAssumption DEF Parts, OwnDriver
<1>5. SlotIsReachable'
  <2>1. CASE stopTapFn # NoDriver /\ once[stopTapFn] = "idle"
    BY <2>1 DEF SlotIsReachable, StopPending
  <2>2. ASSUME NEW q \in Procs, Publishing(q) \/ StopPending(q)
        PROVE  (Publishing(q) \/ StopPending(q))'
    BY <2>2 DEF Publishing, StopPending
  <2> QED
    BY <2>1, <2>2 DEF Parts, SlotIsReachable
<1>6. LatchIsObeyed'
  BY DEF Parts, LatchIsObeyed, latchVars, historyVars
<1> QED
  BY <1>1, <1>2, <1>3, <1>4, <1>5, <1>6 DEF Parts

-------------------------------------------------------------------------------
\* A goroutine with something to do belongs to a running process.
LEMMA Running ==
  ASSUME TypeOK, Parts, NEW p \in Procs, pc[p] \notin {"idle", "down"}
  PROVE  pc[Main] # "down"
BY DEF Parts, DownIsGone, Procs

\* A step of startTap, or of its stop, keeps each part of the invariant.
LEMMA StartOrStopParts ==
  ASSUME TypeOK, TypeOK', Parts, NEW p \in Procs, StartOrStopTap(p)
  PROVE  Parts'
<1> USE DEF Goto, TypeOK, TapTypeOK, tapVars, coreVars, onceVars, historyVars
<1>s. /\ AfterStop[job[p]] \in {"idle", "seed", "resetPersist", "exit"}
      /\ AfterStart[job[p]] \in {"idle", "serve"}
  BY DEF AfterStop, AfterStart, Jobs
<1>h. held' = held => held' = [held EXCEPT ![p] = held[p]]
  OBVIOUS
<1>1. CASE StopNothing(p)
  <2>1. ~StopPending(p) /\ ~Publishing(p) /\ pc[Main] # "down"
    BY <1>1, Running DEF StopNothing, StopPending, Publishing
  <2>2. underLatch' => underLatch /\ memLatch' /\ AfterStop[job[p]] # "install"
    BY <1>1, <1>s DEF StopNothing, Parts, LatchIsObeyed, latchVars, historyVars
  <2>3. PICK h \in {held[p], NoDriver} :
          /\ pc' = [pc EXCEPT ![p] = AfterStop[job[p]]]
          /\ held' = [held EXCEPT ![p] = h]
    BY <1>1, ProceedSteps DEF StopNothing
  <2> QED
    BY <1>1, <1>s, <2>1, <2>2, <2>3, PcStep
       DEF StopNothing, StartingSteps, PublishingSteps
<1>2. CASE StopWatcher(p)
  BY <1>2, StopWatcherParts
<1>3. CASE StopTap(p)
  BY <1>3, StopTapParts
<1>4. ASSUME NEW d \in Drivers, SeedCache(p, d) PROVE Parts'
  BY <1>4, SeedParts
<1>5. CASE CheckLatch(p)
  <2>1. ~StopPending(p) /\ ~Publishing(p) /\ Starting(p) /\ pc[Main] # "down"
    BY <1>5, Running DEF CheckLatch, StopPending, Publishing, Starting
  <2> DEFINE s == IF memLatch THEN "refuse" ELSE "install"
  <2>2. underLatch' => underLatch /\ memLatch' /\ s # "install"
    BY <1>5 DEF CheckLatch, Parts, LatchIsObeyed, latchVars, historyVars
  <2>3. s # "down" /\ pc' = [pc EXCEPT ![p] = s]
    BY <1>5 DEF CheckLatch
  <2> HIDE DEF s
  <2> QED
    BY <1>5, <1>h, <2>1, <2>2, <2>3, PcStep DEF CheckLatch
<1>6. CASE RefuseTap(p)
  <2>1. ~StopPending(p) /\ ~Publishing(p) /\ pc[Main] # "down"
    BY <1>6, Running DEF RefuseTap, StopPending, Publishing
  <2>2. underLatch' => underLatch /\ memLatch' /\ AfterStart[job[p]] # "install"
    BY <1>6, <1>s DEF RefuseTap, Parts, LatchIsObeyed, latchVars, historyVars
  <2> QED
    BY <1>6, <1>s, <2>1, <2>2, PcStep
       DEF RefuseTap, StartingSteps, PublishingSteps
<1>7. CASE InstallTap(p)
  <2>1. CASE InstallOK(held[p]) /\ Goto(p, "recordOK")
    BY <1>7, <2>1, TakeSlotParts DEF InstallTap, InstallOK
  <2>2. CASE InstallLate(held[p]) /\ Goto(p, "recordFailed")
    BY <1>7, <2>2, TakeSlotParts DEF InstallTap, InstallLate
  <2>3. CASE UNCHANGED tapVars /\ Goto(p, "recordFailed")
    <3>1. ~StopPending(p) /\ ~Publishing(p) /\ Starting(p) /\ pc[Main] # "down"
      BY <1>7, Running DEF InstallTap, StopPending, Publishing, Starting
    <3>2. underLatch' => underLatch /\ memLatch' /\ "recordFailed" # "install"
      BY <1>7 DEF InstallTap, Parts, LatchIsObeyed, latchVars, historyVars
    <3> QED
      BY <1>7, <1>h, <2>3, <3>1, <3>2, PcStep DEF InstallTap
  <2> QED
    BY <1>7, <2>1, <2>2, <2>3 DEF InstallTap, InstallDenied, InstallBusy
<1>8. CASE RecordOK(p)
  <2>1. ~StopPending(p) /\ Starting(p) /\ pc[Main] # "down"
    BY <1>8, Running DEF RecordOK, StopPending, Starting
  <2>2. underLatch' => underLatch /\ memLatch' /\ "own" # "install"
    BY <1>8 DEF RecordOK, Parts, LatchIsObeyed, latchVars, historyVars
  <2> QED
    BY <1>8, <1>h, <2>1, <2>2, PcStep DEF RecordOK, PublishingSteps
<1>9. CASE RecordFailed(p)
  <2>1. ~StopPending(p) /\ Starting(p) /\ pc[Main] # "down"
    BY <1>9, Running DEF RecordFailed, StopPending, Starting
  <2>2. underLatch' => underLatch /\ memLatch' /\ "publish" # "install"
    BY <1>9 DEF RecordFailed, Parts, LatchIsObeyed, latchVars, historyVars
  <2> QED
    BY <1>9, <1>h, <2>1, <2>2, PcStep DEF RecordFailed, PublishingSteps
<1>10. CASE OwnTap(p)
  <2>1. ~StopPending(p) /\ Starting(p) /\ pc[Main] # "down"
    BY <1>10, Running DEF OwnTap, StopPending, Starting
  <2>2. underLatch' => underLatch /\ memLatch' /\ "publish" # "install"
    BY <1>10 DEF OwnTap, Parts, LatchIsObeyed, latchVars, historyVars
  <2> QED
    BY <1>10, <1>h, <2>1, <2>2, PcStep DEF OwnTap, PublishingSteps
<1>11. CASE PublishStop(p)
  BY <1>11, PublishParts
<1> QED
  BY <1>1, <1>2, <1>3, <1>4, <1>5, <1>6, <1>7, <1>8, <1>9, <1>10, <1>11
     DEF StartOrStopTap

\* Most request steps touch neither the tap nor its stop function.
LEMMA RequestPc ==
  ASSUME TypeOK, TypeOK', Parts, NEW r \in Requests,
         NEW s \in RequestSteps \cup StopSteps,
         NEW h \in {held[r], NoDriver, stopTapFn},
         pc[r] \in RequestSteps, pc[r] = "idle" => pc[Main] # "down",
         pc' = [pc EXCEPT ![r] = s],
         held' = [held EXCEPT ![r] = h],
         UNCHANGED <<tapVars, once, watching, stopTapFn, abandoned>>,
         underLatch' => underLatch /\ memLatch'
  PROVE  Parts'
<1> USE DEF RequestSteps, StopSteps
<1>1. r \in Procs
  BY DEF Procs
<1>2. pc[Main] # "down"
  BY <1>1, Running
<1>3. ~StopPending(r) /\ ~Publishing(r) /\ s # "down" /\ s # "install"
  BY DEF StopPending, Publishing
<1> HIDE DEF RequestSteps, StopSteps
<1>4. s \notin StartingSteps
  BY DEF RequestSteps, StopSteps, StartingSteps
<1> QED
  BY <1>1, <1>2, <1>3, <1>4, PcStep

\* So does a step of a handler before and after it.
LEMMA RequestParts ==
  ASSUME TypeOK, TypeOK', Parts, NEW r \in Requests, RequestStep(r)
  PROVE  Parts'
<1> USE DEF Goto, tapVars, coreVars, onceVars, historyVars, RequestSteps, StopSteps
<1>h. held' = held => held' = [held EXCEPT ![r] = held[r]]
  BY DEF TypeOK
<1>l. underLatch => memLatch
  BY DEF Parts, LatchIsObeyed
<1>1. ASSUME NEW k \in Kinds, Arrive(r, k) PROVE Parts'
  <2>1. FirstStep[k] \in RequestSteps
    BY KillSwitchAssumption DEF FirstStep
  <2>2. underLatch' => underLatch /\ memLatch'
    BY <1>1, <1>l, Zenon DEF Arrive, latchVars
  <2> QED
    BY <1>1, <2>1, <2>2, RequestPc DEF Arrive
<1>2. CASE PanicKill(r)
  <2>1. underLatch' => underLatch /\ memLatch'
    BY <1>2, <1>l, Zenon DEF PanicKill, latchVars
  <2> QED
    BY <1>2, <2>1, RequestPc DEF PanicKill
<1>3. CASE PanicPersist(r)
  <2>0. memLatch' = TRUE \/ memLatch' = memLatch
    BY <1>3 DEF PanicPersist, Persist, latchVars
  <2>1. underLatch' => underLatch /\ memLatch'
    BY <1>3, <1>l, <2>0 DEF PanicPersist, TypeOK
  <2> QED
    BY <1>3, <1>h, <2>1, RequestPc DEF PanicPersist
<1>4. CASE PanicReport(r)
  <2>1. underLatch' => underLatch /\ memLatch'
    BY <1>4, <1>l, Zenon DEF PanicReport, latchVars
  <2> QED
    BY <1>4, <1>h, <2>1, RequestPc DEF PanicReport
<1>5. CASE ResumeUnlatch(r)
  <2>0. \/ underLatch' = FALSE
        \/ memLatch' = memLatch /\ underLatch' = underLatch
    BY <1>5 DEF ResumeUnlatch, latchVars
  <2>1. underLatch' => underLatch /\ memLatch'
    BY <1>l, <2>0 DEF TypeOK
  <2>2. PICK s \in {"clear", "idle"} : Proceed(r, s)
    BY <1>5 DEF ResumeUnlatch
  <2>3. PICK h \in {held[r], NoDriver} :
          /\ pc' = [pc EXCEPT ![r] = s]
          /\ held' = [held EXCEPT ![r] = h]
    BY <2>2, ProceedSteps DEF Procs
  <2> QED
    BY <1>5, <2>1, <2>3, RequestPc DEF ResumeUnlatch
<1>6. CASE ResumeClear(r)
  BY <1>6, CaptureParts DEF ResumeClear, Procs
<1>7. CASE ResetKill(r)
  BY <1>7, CaptureParts DEF ResetKill, Procs
<1>8. CASE ResetPersist(r)
  <2>0. memLatch' = TRUE \/ memLatch' = memLatch
    BY <1>8 DEF ResetPersist, Persist, latchVars
  <2>1. underLatch' => underLatch /\ memLatch'
    BY <1>8, <1>l, <2>0 DEF ResetPersist, TypeOK
  <2> QED
    BY <1>8, <1>h, <2>1, RequestPc DEF ResetPersist
<1>9. CASE ResetClear(r)
  <2>0. \/ underLatch' = FALSE
        \/ memLatch' = memLatch /\ underLatch' = underLatch
    BY <1>9 DEF ResetClear, latchVars
  <2>1. underLatch' => underLatch /\ memLatch'
    BY <1>l, <2>0 DEF TypeOK
  <2> QED
    BY <1>9, <1>h, <2>1, RequestPc DEF ResetClear
<1>10. CASE ResetDelete(r)
  <2>1. underLatch' => underLatch /\ memLatch'
    BY <1>10, <1>l, Zenon DEF ResetDelete
  <2> QED
    BY <1>10, <1>h, <2>1, RequestPc DEF ResetDelete
<1>11. CASE ResetForget(r)
  <2>1. underLatch' => underLatch /\ memLatch'
    BY <1>11, <1>l, Zenon DEF ResetForget, latchVars
  <2>2. PICK h \in {held[r], NoDriver} :
          /\ pc' = [pc EXCEPT ![r] = "idle"]
          /\ held' = [held EXCEPT ![r] = h]
    BY <1>11, ProceedSteps DEF ResetForget, Procs
  <2> QED
    BY <1>11, <2>1, <2>2, RequestPc DEF ResetForget
<1> QED
  BY <1>1, <1>2, <1>3, <1>4, <1>5, <1>6, <1>7, <1>8, <1>9, <1>10, <1>11
     DEF RequestStep

\* The invariant is inductive.
LEMMA NextIInv == IInv /\ [Next]_vars => IInv'
<1> SUFFICES ASSUME IInv, [Next]_vars PROVE IInv'
  OBVIOUS
<1>0. TypeOK /\ TypeOK' /\ Parts
  BY NextTypeOK DEF IInv, Parts
<1> SUFFICES Parts'
  BY <1>0 DEF IInv, Parts
<1>1. CASE Boot
  BY <1>0, <1>1, BootParts
<1>2. CASE ProcessEnds
  BY <1>0, <1>2, EndParts
<1>3. CASE Signal
  <2>1. underLatch' => underLatch /\ memLatch' /\ "stop" # "install"
    BY <1>0, <1>3 DEF Signal, Parts, LatchIsObeyed, latchVars, historyVars
  <2>2. Main \in Procs /\ ~StopPending(Main) /\ ~Publishing(Main)
    BY <1>3 DEF Signal, Procs, StopPending, Publishing
  <2>3. pc[Main] # "down" /\ held' = [held EXCEPT ![Main] = held[Main]]
    BY <1>0, <1>3 DEF Signal, TypeOK
  <2> QED
    BY <1>0, <1>3, <2>1, <2>2, <2>3, PcStep
       DEF Signal, StartingSteps, tapVars, onceVars, coreVars, historyVars
<1>4. CASE TapComesUp
  BY <1>0, <1>4, ComesUpParts
<1>5. ASSUME NEW p \in Procs, StartOrStopTap(p) PROVE Parts'
  BY <1>0, <1>5, StartOrStopParts
<1>6. ASSUME NEW r \in Requests, RequestStep(r) PROVE Parts'
  BY <1>0, <1>6, RequestParts
<1>7. CASE UNCHANGED vars
  <2>1. StoppableInTime' /\ DownIsGone' /\ UnusedIsFree' /\ SlotIsFresh'
    BY <1>0, <1>7 DEF vars, tapVars, coreVars, onceVars, Parts,
       historyVars, StoppableInTime, LiveTapIsStoppable, DownIsGone, UnusedIsFree,
       SlotIsFresh
  <2>2. OwnDriver' /\ SlotIsReachable'
    BY <1>0, <1>7 DEF vars, tapVars, coreVars, onceVars, Parts, OwnDriver,
       Starting, SlotIsReachable, Publishing, StopPending
  <2>3. LatchIsObeyed'
    BY <1>0, <1>7, Zenon DEF vars, historyVars, tapVars, latchVars, Parts, LatchIsObeyed
  <2> QED
    BY <2>1, <2>2, <2>3 DEF Parts
<1> QED
  BY <1>0, <1>1, <1>2, <1>3, <1>4, <1>5, <1>6, <1>7 DEF Next, Parts, IInv

\* The inductive invariant holds in every reachable state.
THEOREM InvariantHolds == Spec => []IInv
<1>1. Init => IInv
  BY InitIInv
<1>2. IInv /\ [Next]_vars => IInv'
  BY NextIInv
<1> QED
  BY <1>1, <1>2, PTL DEF Spec

\* Every variable keeps its type, whatever the requests do.
THEOREM TypeCorrect == Spec => []TypeOK
<1>1. IInv => TypeOK
  BY DEF IInv
<1> QED
  BY <1>1, InvariantHolds, PTL

\* No interleaving of requests, start-up, late installs, failed writes and
\* restarts leaves a tap delivering keys on a cache whose watcher is gone
\* (startTap, main.go), unless a TapStop came while an install was pending.
THEOREM FreshContext == Spec => []TapHasFreshContext
<1>1. IInv => TapHasFreshContext
  <2> SUFFICES ASSUME IInv, ~abandoned, NEW d \in up
               PROVE  d \in watching \/ once[d] = "busy"
    BY DEF TapHasFreshContext
  <2>1. d = slot /\ d \in Drivers
    BY DEF IInv, TypeOK, TapTypeOK, StoppableInTime, LiveTapIsStoppable
  <2> QED BY <2>1, DriverAssumption DEF IInv, SlotIsFresh
<1> QED
  BY <1>1, InvariantHolds, PTL

\* Whenever the daemon is quiet with a tap up or on its way, the stop function
\* the next PANIC STOP will call is there, unspent, and takes down that tap
\* (safety.panicStop, main.go), unless a TapStop came while an install was
\* pending.
THEOREM AlwaysArmed == Spec => []KillSwitchArmed
<1>1. IInv => KillSwitchArmed
  <2> SUFFICES ASSUME IInv, Quiet, ~abandoned, up \cup pending # {}
               PROVE  /\ stopTapFn # NoDriver /\ once[stopTapFn] = "idle"
                      /\ LiveTapIsStoppable
    BY DEF KillSwitchArmed
  <2>1. LiveTapIsStoppable
    BY DEF IInv, StoppableInTime
  <2>2. slot # NoDriver
    BY <2>1, DriverAssumption DEF LiveTapIsStoppable, IInv, TypeOK, TapTypeOK
  <2>3. \A p \in Procs : pc[p] \in {"idle", "serve"}
    BY DEF Quiet, Procs
  <2>4. \A p \in Procs : ~Publishing(p) /\ ~StopPending(p)
    BY <2>3 DEF Publishing, StopPending
  <2> QED
    BY <2>1, <2>2, <2>4 DEF IInv, SlotIsReachable
<1> QED
  BY <1>1, InvariantHolds, PTL

\* A process respawned from a latched file attaches no tap while the latch
\* stands, however its start-up and its clients interleave (startTap).
THEOREM LatchSurvivesRespawn == Spec => []BootLatchHolds
<1>1. IInv => BootLatchHolds
  BY DEF IInv, LatchIsObeyed, BootLatchHolds
<1> QED
  BY <1>1, InvariantHolds, PTL
-------------------------------------------------------------------------------
(* What a client that sends its requests one after the other may rely on.     *)

\* One request at a time, none before main's startTap is over, and installs
\* that answer within installTimeout.
OneClient == (\A r, q \in Requests : r = q) /\ ~LateInstalls /\ ~EarlyClients

\* Each goroutine keeps to its own steps, and main starts the tap alone.
OneByOne ==
  /\ pc[Main] \in StartSteps => \A r \in Requests : pc[r] = "idle"
  /\ pc[Main] \in StartSteps \cup StopSteps \cup MainSteps
  /\ pc[Main] # "down" => job[Main] = "main"
  /\ \A r \in Requests :
       /\ pc[r] \notin MainSteps
       /\ pc[r] # "idle" => job[r] \in {"panic", "resume", "reset"}
       /\ pc[r] \in {"panicKill", "panicPersist", "panicReport"} => job[r] = "panic"
       /\ pc[r] \in {"unlatch", "clear"} \cup StartSteps => job[r] = "resume"
       /\ pc[r] \in {"resetKill", "resetPersist", "resetClear", "resetDelete", "resetForget"}
            => job[r] = "reset"

\* Whoever latches has killed first, and whoever revives has unlatched first.
LatchKills ==
  /\ memLatch =>
       /\ pc[Main] \notin {"install", "recordOK", "recordFailed", "own", "publish"}
       /\ pc[Main] = "serve" => killed
  /\ \A r \in Requests :
       /\ \/ pc[r] \in {"panicPersist", "panicReport", "resetPersist"}
          \/ pc[r] \in StopSteps /\ job[r] # "resume"
         => killed
       /\ \/ pc[r] = "clear" \/ pc[r] \in StartSteps
          \/ pc[r] \in StopSteps /\ job[r] = "resume"
         => ~memLatch

\* Until its signal a process has accounted for its tap.
Serving == pc[Main] \in StartSteps \cup {"serve"}

\* The steps that follow a stop, and those of a start before it has a tap.
EmptySteps == {"seed", "check", "refuse", "install", "recordFailed",
               "resetPersist", "resetClear", "resetDelete", "resetForget"}

\* A tap that is up was reported live and can be stopped by the next request, or
\* by the one under way.
TapIsAccounted ==
  Serving =>
    /\ pending = {} /\ ~abandoned
    /\ \A p \in Procs : pc[p] \in EmptySteps => slot = NoDriver
    /\ slot # NoDriver =>
         /\ interception = "live" \/ \E p \in Procs : pc[p] = "recordOK"
         /\ \A r \in Requests :
              /\ pc[Main] = "serve"
                 /\ pc[r] \in {"idle", "panicKill", "unlatch", "clear", "resetKill"} =>
                   stopTapFn # NoDriver /\ once[stopTapFn] = "idle"
              /\ pc[r] \in {"panicPersist", "panicReport", "stop"} =>
                   held[r] # NoDriver /\ once[held[r]] = "idle"

\* The inductive invariant of one client.
ClientInv == OneByOne /\ LatchKills /\ TapIsAccounted

\* Where the tables of steps lead.
LEMMA WhereTo ==
  /\ FirstStep["panic"] = "panicKill" /\ FirstStep["resume"] = "unlatch"
  /\ FirstStep["reset"] = "resetKill"
  /\ AfterStop["main"] = "exit" /\ AfterStop["panic"] = "idle"
  /\ AfterStop["resume"] = "seed" /\ AfterStop["reset"] = "resetPersist"
  /\ AfterStart["main"] = "serve" /\ AfterStart["resume"] = "idle"
BY DEF FirstStep, AfterStop, AfterStart, Jobs

\* Start-up and stop keep each goroutine to its steps.
LEMMA OneByOneKeeps ==
  ASSUME OneClient, IInv, TypeOK', OneByOne, [Next]_vars
  PROVE  OneByOne'
<1> USE KillSwitchAssumption
    DEF OneByOne, StartSteps, StopSteps, MainSteps, Goto, Proceed, historyVars, IInv, TypeOK, Procs
<1>a. \A p \in Procs : pc[p] \in StopSteps =>
        \/ p = Main /\ AfterStop[job[p]] = "exit"
        \/ p # Main /\ job[p] = "panic" /\ AfterStop[job[p]] = "idle"
        \/ p # Main /\ job[p] = "resume" /\ AfterStop[job[p]] = "seed"
        \/ p # Main /\ job[p] = "reset" /\ AfterStop[job[p]] = "resetPersist"
  BY WhereTo
<1>b. \A p \in Procs : pc[p] \in StartSteps =>
        \/ p = Main /\ AfterStart[job[p]] = "serve"
        \/ p # Main /\ AfterStart[job[p]] = "idle"
  BY WhereTo
<1>1. CASE Boot
  BY <1>1 DEF Boot, DownIsGone
<1>2. CASE ProcessEnds
  BY <1>2 DEF ProcessEnds, NoGoroutines
<1>3. CASE Signal
  BY <1>3 DEF Signal
<1>4. CASE TapComesUp
  BY <1>4 DEF TapComesUp
<1>5. ASSUME NEW p \in Procs, StartOrStopTap(p) PROVE OneByOne'
  <2>1. CASE StopNothing(p)
    BY <2>1, <1>a DEF StopNothing
  <2>2. CASE StopWatcher(p)
    BY <2>2 DEF StopWatcher
  <2>3. CASE StopTap(p)
    BY <2>3, <1>a DEF StopTap
  <2>4. ASSUME NEW d \in Drivers, SeedCache(p, d) PROVE OneByOne'
    BY <2>4 DEF SeedCache
  <2>5. CASE CheckLatch(p)
    BY <2>5 DEF CheckLatch
  <2>6. CASE RefuseTap(p)
    BY <2>6, <1>b DEF RefuseTap
  <2>7. CASE InstallTap(p)
    BY <2>7 DEF InstallTap
  <2>8. CASE RecordOK(p)
    BY <2>8 DEF RecordOK
  <2>9. CASE RecordFailed(p)
    BY <2>9 DEF RecordFailed
  <2>10. CASE OwnTap(p)
    BY <2>10 DEF OwnTap
  <2>11. CASE PublishStop(p)
    BY <2>11, <1>b DEF PublishStop
  <2> QED
    BY <1>5, <2>1, <2>2, <2>3, <2>4, <2>5, <2>6, <2>7, <2>8, <2>9, <2>10, <2>11
       DEF StartOrStopTap
<1>6. ASSUME NEW r \in Requests, RequestStep(r) PROVE OneByOne'
  <2>1. ASSUME NEW k \in Kinds, Arrive(r, k) PROVE OneByOne'
    BY <2>1, WhereTo DEF Arrive, OneClient
  <2>2. CASE PanicKill(r)
    BY <2>2 DEF PanicKill
  <2>3. CASE PanicPersist(r)
    BY <2>3 DEF PanicPersist
  <2>4. CASE PanicReport(r)
    BY <2>4 DEF PanicReport
  <2>5. CASE ResumeUnlatch(r)
    <3>1. CASE pc' = [pc EXCEPT ![r] = "clear"] /\ UNCHANGED job
      BY <2>5, <3>1 DEF ResumeUnlatch
    <3>2. CASE /\ pc' = [pc EXCEPT ![r] = "idle"]
               /\ job' = [job EXCEPT ![r] = "none"]
      BY <2>5, <3>2 DEF ResumeUnlatch
    <3> QED BY <2>5, <3>1, <3>2 DEF ResumeUnlatch, Persist
  <2>6. CASE ResumeClear(r)
    BY <2>6 DEF ResumeClear
  <2>7. CASE ResetKill(r)
    BY <2>7 DEF ResetKill
  <2>8. CASE ResetPersist(r)
    BY <2>8 DEF ResetPersist
  <2>9. CASE ResetClear(r)
    BY <2>9 DEF ResetClear
  <2>10. CASE ResetDelete(r)
    BY <2>10 DEF ResetDelete
  <2>11. CASE ResetForget(r)
    BY <2>11 DEF ResetForget
  <2> QED
    BY <1>6, <2>1, <2>2, <2>3, <2>4, <2>5, <2>6, <2>7, <2>8, <2>9, <2>10, <2>11
       DEF RequestStep
<1>7. CASE UNCHANGED vars
  BY <1>7 DEF vars
<1> QED
  BY <1>1, <1>2, <1>3, <1>4, <1>5, <1>6, <1>7 DEF Next

\* The kill switch is pulled before the latch, and let go after it.
LEMMA LatchKillsKeeps ==
  ASSUME OneClient, IInv, TypeOK', OneByOne, LatchKills, [Next]_vars
  PROVE  LatchKills'
<1> USE KillSwitchAssumption
    DEF OneByOne, LatchKills, StartSteps, StopSteps, MainSteps, Goto, Proceed, historyVars, IInv, TypeOK, Procs,
        coreVars, latchVars
<1>a. \A p \in Procs : pc[p] \in StopSteps =>
        \/ p = Main /\ AfterStop[job[p]] = "exit"
        \/ p # Main /\ job[p] = "panic" /\ AfterStop[job[p]] = "idle"
        \/ p # Main /\ job[p] = "resume" /\ AfterStop[job[p]] = "seed"
        \/ p # Main /\ job[p] = "reset" /\ AfterStop[job[p]] = "resetPersist"
  BY WhereTo
<1>b. \A p \in Procs : pc[p] \in StartSteps =>
        \/ p = Main /\ AfterStart[job[p]] = "serve"
        \/ p # Main /\ AfterStart[job[p]] = "idle"
  BY WhereTo
<1>1. CASE Boot
  BY <1>1 DEF Boot, DownIsGone
<1>2. CASE ProcessEnds
  BY <1>2 DEF ProcessEnds, NoGoroutines
<1>3. CASE Signal
  BY <1>3 DEF Signal
<1>4. CASE TapComesUp
  BY <1>4 DEF TapComesUp
<1>5. ASSUME NEW p \in Procs, StartOrStopTap(p) PROVE LatchKills'
  <2>1. CASE StopNothing(p)
    BY <2>1, <1>a DEF StopNothing
  <2>2. CASE StopWatcher(p)
    BY <2>2 DEF StopWatcher
  <2>3. CASE StopTap(p)
    BY <2>3, <1>a DEF StopTap
  <2>4. ASSUME NEW d \in Drivers, SeedCache(p, d) PROVE LatchKills'
    BY <2>4 DEF SeedCache
  <2>5. CASE CheckLatch(p)
    BY <2>5 DEF CheckLatch
  <2>6. CASE RefuseTap(p)
    BY <2>6, <1>b DEF RefuseTap
  <2>7. CASE InstallTap(p)
    BY <2>7 DEF InstallTap
  <2>8. CASE RecordOK(p)
    BY <2>8 DEF RecordOK
  <2>9. CASE RecordFailed(p)
    BY <2>9 DEF RecordFailed
  <2>10. CASE OwnTap(p)
    BY <2>10 DEF OwnTap
  <2>11. CASE PublishStop(p)
    BY <2>11, <1>b DEF PublishStop
  <2> QED
    BY <1>5, <2>1, <2>2, <2>3, <2>4, <2>5, <2>6, <2>7, <2>8, <2>9, <2>10, <2>11
       DEF StartOrStopTap
<1>6. ASSUME NEW r \in Requests, RequestStep(r) PROVE LatchKills'
  <2> USE DEF OneClient, Persist
  <2>1. ASSUME NEW k \in Kinds, Arrive(r, k) PROVE LatchKills'
    BY <2>1, WhereTo DEF Arrive
  <2>2. CASE PanicKill(r)
    BY <2>2 DEF PanicKill
  <2>3. CASE PanicPersist(r)
    BY <2>3 DEF PanicPersist
  <2>4. CASE PanicReport(r)
    BY <2>4 DEF PanicReport
  <2>5. CASE ResumeUnlatch(r)
    <3>1. CASE pc' = [pc EXCEPT ![r] = "clear"] /\ memLatch' = FALSE
      BY <2>5, <3>1 DEF ResumeUnlatch
    <3>2. CASE pc' = [pc EXCEPT ![r] = "idle"] /\ UNCHANGED latchVars
      BY <2>5, <3>2 DEF ResumeUnlatch
    <3> QED BY <2>5, <3>1, <3>2 DEF ResumeUnlatch, Persist
  <2>6. CASE ResumeClear(r)
    BY <2>6 DEF ResumeClear
  <2>7. CASE ResetKill(r)
    BY <2>7 DEF ResetKill
  <2>8. CASE ResetPersist(r)
    BY <2>8 DEF ResetPersist
  <2>9. CASE ResetClear(r)
    BY <2>9 DEF ResetClear
  <2>10. CASE ResetDelete(r)
    BY <2>10 DEF ResetDelete
  <2>11. CASE ResetForget(r)
    BY <2>11 DEF ResetForget
  <2> QED
    BY <1>6, <2>1, <2>2, <2>3, <2>4, <2>5, <2>6, <2>7, <2>8, <2>9, <2>10, <2>11
       DEF RequestStep
<1>7. CASE UNCHANGED vars
  BY <1>7 DEF vars
<1> QED
  BY <1>1, <1>2, <1>3, <1>4, <1>5, <1>6, <1>7 DEF Next

\* A start begins with no tap, and a stop ends with none.
LEMMA TapIsAccountedKeeps ==
  ASSUME OneClient, IInv, TypeOK', OneByOne, LatchKills, TapIsAccounted, [Next]_vars
  PROVE  TapIsAccounted'
<1> USE KillSwitchAssumption
    DEF OneByOne, TapIsAccounted, Serving, EmptySteps, StartSteps, StopSteps, MainSteps,
        Goto, Proceed, historyVars, IInv, TypeOK, TapTypeOK, Procs, tapVars, coreVars, onceVars, OneClient
<1>a. \A p \in Procs : pc[p] \in StopSteps =>
        \/ p = Main /\ AfterStop[job[p]] = "exit"
        \/ p # Main /\ job[p] = "panic" /\ AfterStop[job[p]] = "idle"
        \/ p # Main /\ job[p] = "resume" /\ AfterStop[job[p]] = "seed"
        \/ p # Main /\ job[p] = "reset" /\ AfterStop[job[p]] = "resetPersist"
  BY WhereTo
<1>b. \A p \in Procs : pc[p] \in StartSteps =>
        \/ p = Main /\ AfterStart[job[p]] = "serve"
        \/ p # Main /\ AfterStart[job[p]] = "idle"
  BY WhereTo
<1>1. CASE Boot
  BY <1>1 DEF Boot, DownIsGone, LiveTapIsStoppable
<1>2. CASE ProcessEnds
  BY <1>2 DEF ProcessEnds, NoGoroutines
<1>3. CASE Signal
  BY <1>3 DEF Signal
<1>4. CASE TapComesUp
  BY <1>4 DEF TapComesUp
<1>5. ASSUME NEW p \in Procs, StartOrStopTap(p) PROVE TapIsAccounted'
  <2>1. CASE StopNothing(p)
    BY <2>1, <1>a DEF StopNothing
  <2>2. CASE StopWatcher(p)
    BY <2>2 DEF StopWatcher
  <2>3. CASE StopTap(p)
    BY <2>3, <1>a DEF StopTap, RemoveTap
  <2>4. ASSUME NEW d \in Drivers, SeedCache(p, d) PROVE TapIsAccounted'
    BY <2>4 DEF SeedCache
  <2>5. CASE CheckLatch(p)
    BY <2>5 DEF CheckLatch
  <2>6. CASE RefuseTap(p)
    BY <2>6, <1>b DEF RefuseTap
  <2>7. CASE InstallTap(p)
    BY <2>7 DEF InstallTap, InstallOK, InstallDenied, InstallBusy
  <2>8. CASE RecordOK(p)
    BY <2>8 DEF RecordOK
  <2>9. CASE RecordFailed(p)
    BY <2>9 DEF RecordFailed
  <2>10. CASE OwnTap(p)
    BY <2>10 DEF OwnTap
  <2>11. CASE PublishStop(p)
    <3>1. held[p] \in Drivers /\ once[held[p]] = "idle" /\ held[p] # NoDriver
      BY <2>11, DriverAssumption DEF PublishStop, OwnDriver, Starting
    <3>2. CASE p = Main
      <4>1. pc' = [pc EXCEPT ![Main] = "serve"] /\ \A r \in Requests : pc[r] = "idle"
        BY <2>11, <1>b, <3>2 DEF PublishStop
      <4> QED BY <2>11, <3>1, <3>2, <4>1 DEF PublishStop
    <3>3. CASE p # Main
      <4>1. pc' = [pc EXCEPT ![p] = "idle"] /\ \A r \in Requests : r = p
        <5>1. AfterStart[job[p]] = "idle"
          BY <2>11, <1>b, <3>3 DEF PublishStop
        <5> QED BY <2>11, <3>3, <5>1 DEF PublishStop
      <4> QED BY <2>11, <3>1, <3>3, <4>1 DEF PublishStop
    <3> QED BY <3>2, <3>3
  <2> QED
    BY <1>5, <2>1, <2>2, <2>3, <2>4, <2>5, <2>6, <2>7, <2>8, <2>9, <2>10, <2>11
       DEF StartOrStopTap
<1>6. ASSUME NEW r \in Requests, RequestStep(r) PROVE TapIsAccounted'
  <2>1. ASSUME NEW k \in Kinds, Arrive(r, k) PROVE TapIsAccounted'
    BY <2>1, WhereTo DEF Arrive
  <2>2. CASE PanicKill(r)
    BY <2>2 DEF PanicKill
  <2>3. CASE PanicPersist(r)
    BY <2>3 DEF PanicPersist
  <2>4. CASE PanicReport(r)
    BY <2>4 DEF PanicReport
  <2>5. CASE ResumeUnlatch(r)
    <3>1. CASE pc' = [pc EXCEPT ![r] = "clear"] /\ memLatch' = FALSE
      BY <2>5, <3>1 DEF ResumeUnlatch
    <3>2. CASE pc' = [pc EXCEPT ![r] = "idle"] /\ UNCHANGED latchVars
      BY <2>5, <3>2 DEF ResumeUnlatch
    <3> QED BY <2>5, <3>1, <3>2 DEF ResumeUnlatch, Persist
  <2>6. CASE ResumeClear(r)
    BY <2>6 DEF ResumeClear
  <2>7. CASE ResetKill(r)
    BY <2>7 DEF ResetKill
  <2>8. CASE ResetPersist(r)
    BY <2>8 DEF ResetPersist
  <2>9. CASE ResetClear(r)
    BY <2>9 DEF ResetClear
  <2>10. CASE ResetDelete(r)
    BY <2>10 DEF ResetDelete
  <2>11. CASE ResetForget(r)
    BY <2>11 DEF ResetForget
  <2> QED
    BY <1>6, <2>1, <2>2, <2>3, <2>4, <2>5, <2>6, <2>7, <2>8, <2>9, <2>10, <2>11
       DEF RequestStep
<1>7. CASE UNCHANGED vars
  BY <1>7 DEF vars
<1> QED
  BY <1>1, <1>2, <1>3, <1>4, <1>5, <1>6, <1>7 DEF Next

\* What one client relies on is inductive on top of IInv.
LEMMA ClientStep == OneClient /\ IInv /\ ClientInv /\ [Next]_vars => ClientInv'
BY NextTypeOK, OneByOneKeeps, LatchKillsKeeps, TapIsAccountedKeeps DEF ClientInv, IInv

\* ... and holds while no process runs.
LEMMA ClientStart == Init => ClientInv
BY KillSwitchAssumption
   DEF Init, TapInit, NoGoroutines, Procs, ClientInv, OneByOne, LatchKills, TapIsAccounted,
       Serving, StartSteps, StopSteps, MainSteps

\* ClientInv holds in every state one client at a time can reach.
LEMMA ClientReaches ==
  ASSUME OneClient PROVE Spec => []ClientInv
<1>1. Init => ClientInv
  BY ClientStart
<1>2. IInv /\ ClientInv /\ [Next]_vars => ClientInv'
  BY ClientStep
<1> QED BY <1>1, <1>2, InvariantHolds, PTL DEF Spec

\* With its requests one at a time, the daemon never sits latched with a tap that
\* decides keys (handlePanicStop, handleResume, handleReset).
THEOREM LatchStops ==
  ASSUME OneClient PROVE Spec => []LatchedMeansStopped
<1>1. ClientInv => LatchedMeansStopped
  BY DEF ClientInv, LatchKills, LatchedMeansStopped, Quiet, Intercepting
<1> QED BY <1>1, ClientReaches, PTL

\* ... and core.status says "live" of every tap that is up (tapLiveStatus).
THEOREM StatusIsTrue ==
  ASSUME OneClient PROVE Spec => []StatusTruth
<1>1. IInv /\ ClientInv => StatusTruth
  <2> SUFFICES ASSUME IInv, ClientInv, Quiet, up # {} PROVE interception = "live"
    BY DEF StatusTruth
  <2>1. Serving
    BY DEF Quiet, Serving
  <2>2. slot # NoDriver
    BY <2>1, DriverAssumption
       DEF ClientInv, TapIsAccounted, IInv, TypeOK, TapTypeOK, StoppableInTime,
           LiveTapIsStoppable
  <2> QED BY <2>1, <2>2 DEF ClientInv, TapIsAccounted, Quiet, Procs
<1> QED BY <1>1, InvariantHolds, ClientReaches, PTL
===============================================================================
