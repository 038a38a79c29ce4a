------------------------------- MODULE TapLoop -------------------------------
(***************************************************************************)
(* The adapter's event tap (core/internal/adapter/tap_cgo.go over          *)
(* platform/darwin/adapter/tap_bridge.c): TapStart and TapStop against the *)
(* run-loop goroutine, the goroutine that stops it, and the re-enable      *)
(* goroutines the system's timeouts spawn.                                 *)
(*                                                                         *)
(* A loop stands for one TapStart that got the slot, with everything made  *)
(* for it: its Driver, its stop, done and install channels, its goroutines *)
(* and its C record.  Time is abstracted: a timer may fire as long as the  *)
(* answer it bounds is not there.                                          *)
(***************************************************************************)
EXTENDS Integers, FiniteSets

CONSTANTS
  Callers,       \* the goroutines that call TapStart and TapStop
  NoCaller,      \* nobody holds tapStopOnce
  Loops,         \* the TapStarts that may get the slot
  NoLoop,        \* no loop, no tap
  Recoveries,    \* re-enable goroutines that may sleep at once
  MaxReenables,  \* disables within the window before the tap is given up
  LostStop       \* whether CFRunLoopStop is lost on a loop not yet running

ASSUME TapLoopAssumption ==
  /\ NoCaller \notin Callers
  /\ NoLoop \notin Loops
  /\ MaxReenables \in Nat
  /\ LostStop \in BOOLEAN

VARIABLES
  lock,        \* the holder of tapStopOnce
  cpc,         \* where each caller is
  mine,        \* the loop a caller's call is about
  slot,        \* the loop whose channels are in tapLoopStop/tapLoopDone
  lpc,         \* where each loop's goroutine is
  install,     \* the install channel of each loop
  stopClosed,  \* the loops whose stop channel is closed
  stopper,     \* the goroutine that waits on a loop's stop channel
  attached,    \* the loops whose C record exists: the tap takes keys
  freed,       \* the loops whose C record was destroyed
  tapHandle,   \* the tap the package believes in
  tapLive,     \* what TapLive() answers
  decide,      \* the loop whose Driver decideExport names
  off,         \* taps the system has disabled for being too slow
  disables,    \* disables remembered in the recovery window
  escalated,   \* TapUnhealthy()
  rpc,         \* where each re-enable goroutine is
  rtap,        \* the tap it read
  late,        \* history: the loops whose install outlasted installTimeout
  overdue,     \* history: the loops whose end outlasted stopTimeout
  misuse       \* history: a C call was given a destroyed record

callVars == <<lock, cpc, mine, slot>>
loopVars == <<lpc, install, stopper>>
tapVars == <<attached, freed, tapHandle, tapLive, decide>>
recoveryVars == <<off, disables, escalated, rpc, rtap>>
historyVars == <<late, overdue, misuse>>
vars == <<callVars, loopVars, stopClosed, tapVars, recoveryVars, historyVars>>

MaybeLoop == Loops \cup {NoLoop}

TypeOK ==
  /\ lock \in Callers \cup {NoCaller}
  /\ cpc \in [Callers -> {"idle", "waitInstall", "waitDone", "uninstall",
                          "unbind"}]
  /\ mine \in [Callers -> MaybeLoop]
  /\ slot \in MaybeLoop
  /\ lpc \in [Loops -> {"unused", "bind", "create", "refused", "handle",
                        "reply", "live", "run", "running", "returned",
                        "done"}]
  /\ install \in [Loops -> {"none", "ok", "denied"}]
  /\ stopClosed \subseteq Loops
  /\ stopper \in [Loops -> {"none", "waiting", "fired"}]
  /\ attached \subseteq Loops
  /\ freed \subseteq Loops
  /\ tapHandle \in MaybeLoop
  /\ tapLive \in BOOLEAN
  /\ decide \in MaybeLoop
  /\ off \subseteq Loops
  /\ disables \in 0..(MaxReenables + 1)
  /\ escalated \in BOOLEAN
  /\ rpc \in [Recoveries -> {"idle", "sleeping", "enabling"}]
  /\ rtap \in [Recoveries -> MaybeLoop]
  /\ late \subseteq Loops
  /\ overdue \subseteq Loops
  /\ misuse \in BOOLEAN

Init ==
  /\ lock = NoCaller
  /\ cpc = [c \in Callers |-> "idle"]
  /\ mine = [c \in Callers |-> NoLoop]
  /\ slot = NoLoop
  /\ lpc = [l \in Loops |-> "unused"]
  /\ install = [l \in Loops |-> "none"]
  /\ stopClosed = {}
  /\ stopper = [l \in Loops |-> "none"]
  /\ attached = {}
  /\ freed = {}
  /\ tapHandle = NoLoop
  /\ tapLive = FALSE
  /\ decide = NoLoop
  /\ off = {}
  /\ disables = 0
  /\ escalated = FALSE
  /\ rpc = [g \in Recoveries |-> "idle"]
  /\ rtap = [g \in Recoveries |-> NoLoop]
  /\ late = {}
  /\ overdue = {}
  /\ misuse = FALSE

-------------------------------------------------------------------------------
(* TapStart and TapStop.  tapStopOnce is held from the first step to the     *)
(* last, so a start that finds the slot taken and a stop that finds it empty *)
(* return without a trace and have no action here.                           *)

CallStart(c, l) ==
  /\ lock = NoCaller
  /\ slot = NoLoop
  /\ lpc[l] = "unused"
  /\ lock' = c
  /\ slot' = l
  /\ mine' = [mine EXCEPT ![c] = l]
  /\ cpc' = [cpc EXCEPT ![c] = "waitInstall"]
  /\ lpc' = [lpc EXCEPT ![l] = "bind"]
  /\ UNCHANGED <<install, stopper, stopClosed, tapVars, recoveryVars,
                 historyVars>>

Return(c) ==
  /\ lock' = NoCaller
  /\ cpc' = [cpc EXCEPT ![c] = "idle"]
  /\ mine' = [mine EXCEPT ![c] = NoLoop]

\* The install replied: a refused one releases the slot.
InstallAnswered(c) ==
  /\ cpc[c] = "waitInstall"
  /\ install[mine[c]] # "none"
  /\ slot' = IF install[mine[c]] = "denied" THEN NoLoop ELSE slot
  /\ Return(c)
  /\ UNCHANGED <<loopVars, stopClosed, tapVars, recoveryVars, historyVars>>

\* installTimeout: "still in progress", and the slot stays taken.
InstallTimeout(c) ==
  /\ cpc[c] = "waitInstall"
  /\ install[mine[c]] = "none"
  /\ late' = late \cup {mine[c]}
  /\ Return(c)
  /\ UNCHANGED <<slot, loopVars, stopClosed, tapVars, recoveryVars, overdue,
                 misuse>>

\* Mutant: a stop does not keep other calls out.
CallStopUnlocked(c) ==
  /\ lock = NoCaller
  /\ slot # NoLoop
  /\ cpc[c] = "idle"
  /\ mine' = [mine EXCEPT ![c] = slot]
  /\ slot' = NoLoop
  /\ stopClosed' = stopClosed \cup {slot}
  /\ cpc' = [cpc EXCEPT ![c] = "waitDone"]
  /\ UNCHANGED <<lock, loopVars, tapVars, recoveryVars, historyVars>>

CallStop(c) ==
  /\ lock = NoCaller
  /\ slot # NoLoop
  /\ lock' = c
  /\ mine' = [mine EXCEPT ![c] = slot]
  /\ slot' = NoLoop
  /\ stopClosed' = stopClosed \cup {slot}
  /\ cpc' = [cpc EXCEPT ![c] = "waitDone"]
  /\ UNCHANGED <<loopVars, tapVars, recoveryVars, historyVars>>

StopDone(c) ==
  /\ cpc[c] = "waitDone"
  /\ lpc[mine[c]] = "done"
  /\ cpc' = [cpc EXCEPT ![c] = "uninstall"]
  /\ UNCHANGED <<lock, mine, slot, loopVars, stopClosed, tapVars, recoveryVars,
                 historyVars>>

\* Mutant: only an install that has not answered is given up on.
StopWaitsForLoop(c) ==
  /\ cpc[c] = "waitDone"
  /\ install[mine[c]] = "none"
  /\ overdue' = overdue \cup {mine[c]}
  /\ cpc' = [cpc EXCEPT ![c] = "uninstall"]
  /\ UNCHANGED <<lock, mine, slot, loopVars, stopClosed, tapVars, recoveryVars,
                 late, misuse>>

\* stopTimeout: tear the tap down anyway.
StopTimeout(c) ==
  /\ cpc[c] = "waitDone"
  /\ lpc[mine[c]] # "done"
  /\ overdue' = overdue \cup {mine[c]}
  /\ cpc' = [cpc EXCEPT ![c] = "uninstall"]
  /\ UNCHANGED <<lock, mine, slot, loopVars, stopClosed, tapVars, recoveryVars,
                 late, misuse>>

\* Mutant: the handle is dropped, the tap is not destroyed.
UninstallForgets(c) ==
  /\ cpc[c] = "uninstall"
  /\ tapHandle' = NoLoop
  /\ cpc' = [cpc EXCEPT ![c] = "unbind"]
  /\ UNCHANGED <<lock, mine, slot, loopVars, stopClosed, attached, freed,
                 tapLive, decide, recoveryVars, historyVars>>

\* TapUninstall: destroy whatever tapHandle names, under tapMu ...
Uninstall(c) ==
  /\ cpc[c] = "uninstall"
  /\ attached' = attached \ {tapHandle}
  /\ freed' = freed \cup ({tapHandle} \ {NoLoop})
  /\ tapHandle' = NoLoop
  /\ cpc' = [cpc EXCEPT ![c] = "unbind"]
  /\ UNCHANGED <<lock, mine, slot, loopVars, stopClosed, tapLive, decide,
                 recoveryVars, historyVars>>

\* ... then unbind the decision entry, and return.
Unbind(c) ==
  /\ cpc[c] = "unbind"
  /\ decide' = NoLoop
  /\ Return(c)
  /\ UNCHANGED <<slot, loopVars, stopClosed, attached, freed, tapHandle,
                 tapLive, recoveryVars, historyVars>>

CallerStep(c) ==
  \/ \E l \in Loops : CallStart(c, l)
  \/ InstallAnswered(c) \/ InstallTimeout(c)
  \/ CallStop(c) \/ StopDone(c) \/ StopTimeout(c) \/ Uninstall(c) \/ Unbind(c)

-------------------------------------------------------------------------------
(* The goroutine that owns a tap's run loop.                                 *)

LoopGoto(l, step) == lpc' = [lpc EXCEPT ![l] = step]

\* The decision entry is bound before the source exists.
BindDecide(l) ==
  /\ lpc[l] = "bind"
  /\ decide' = l
  /\ LoopGoto(l, "create")
  /\ UNCHANGED <<callVars, install, stopper, stopClosed, attached, freed,
                 tapHandle, tapLive, recoveryVars, historyVars>>

\* cxtap_create: an enabled tap, or NULL without consent.
CreateTap(l) ==
  /\ lpc[l] = "create"
  /\ \/ LoopGoto(l, "handle") /\ attached' = attached \cup {l}
     \/ LoopGoto(l, "refused") /\ UNCHANGED attached
  /\ UNCHANGED <<callVars, install, stopper, stopClosed, freed, tapHandle,
                 tapLive, decide, recoveryVars, historyVars>>

Refused(l) ==
  /\ lpc[l] = "refused"
  /\ decide' = NoLoop
  /\ install' = [install EXCEPT ![l] = "denied"]
  /\ LoopGoto(l, "done")
  /\ UNCHANGED <<callVars, stopper, stopClosed, attached, freed, tapHandle,
                 tapLive, recoveryVars, historyVars>>

SetHandle(l) ==
  /\ lpc[l] = "handle"
  /\ tapHandle' = l
  /\ LoopGoto(l, "reply")
  /\ UNCHANGED <<callVars, install, stopper, stopClosed, attached, freed,
                 tapLive, decide, recoveryVars, historyVars>>

ReplyInstalled(l) ==
  /\ lpc[l] = "reply"
  /\ install' = [install EXCEPT ![l] = "ok"]
  /\ LoopGoto(l, "live")
  /\ UNCHANGED <<callVars, stopper, stopClosed, tapVars, recoveryVars,
                 historyVars>>

\* tapLive, and the goroutine that waits for the stop channel.
MarkLive(l) ==
  /\ lpc[l] = "live"
  /\ tapLive' = TRUE
  /\ stopper' = [stopper EXCEPT ![l] = "waiting"]
  /\ LoopGoto(l, "run")
  /\ UNCHANGED <<callVars, install, stopClosed, attached, freed, tapHandle,
                 decide, recoveryVars, historyVars>>

\* cxtap_run enters CFRunLoopRun.
EnterRun(l) ==
  /\ lpc[l] = "run"
  /\ LoopGoto(l, "running")
  /\ UNCHANGED <<callVars, install, stopper, stopClosed, tapVars, recoveryVars,
                 historyVars>>

\* cxtap_stop ends a run that is going on; whether CFRunLoopStop is remembered
\* by a run loop that is not running yet is the system's affair.
StopLoop(l) ==
  /\ stopper[l] = "waiting"
  /\ l \in stopClosed
  /\ stopper' = [stopper EXCEPT ![l] = "fired"]
  /\ misuse' = (misuse \/ l \in freed)
  /\ LET heard == /\ lpc[l] \in {"run", "running"}
                  /\ lpc[l] = "run" => ~LostStop
                  /\ l \notin freed
     IN lpc' = IF heard THEN [lpc EXCEPT ![l] = "returned"] ELSE lpc
  /\ UNCHANGED <<callVars, install, stopClosed, tapVars, recoveryVars, late,
                 overdue>>

\* With its port destroyed the run loop has no source left and may end.
RunLosesSource(l) ==
  /\ lpc[l] = "running"
  /\ l \in freed
  /\ LoopGoto(l, "returned")
  /\ UNCHANGED <<callVars, install, stopper, stopClosed, tapVars, recoveryVars,
                 historyVars>>

\* Mutant: the loop's exit does not clear the flag.
ExitStillLive(l) ==
  /\ lpc[l] = "returned"
  /\ LoopGoto(l, "done")
  /\ UNCHANGED <<callVars, install, stopper, stopClosed, tapVars, recoveryVars,
                 historyVars>>

\* tapLive is cleared, and done closed.
LoopExit(l) ==
  /\ lpc[l] = "returned"
  /\ tapLive' = FALSE
  /\ LoopGoto(l, "done")
  /\ UNCHANGED <<callVars, install, stopper, stopClosed, attached, freed,
                 tapHandle, decide, recoveryVars, historyVars>>

LoopStep(l) ==
  \/ BindDecide(l) \/ CreateTap(l) \/ Refused(l) \/ SetHandle(l)
  \/ ReplyInstalled(l) \/ MarkLive(l) \/ EnterRun(l) \/ StopLoop(l)
  \/ RunLosesSource(l) \/ LoopExit(l)

-------------------------------------------------------------------------------
(* kCGEventTapDisabledByTimeout and the bounded re-enable.                   *)

\* crossosGoTapDisabled, on the run-loop thread: the disables older than the
\* window are forgotten, this one is counted, and past the bound the tap is
\* given up instead of re-enabled.
TapDisabled(l) ==
  /\ lpc[l] = "running"
  /\ l \in attached \ off
  /\ off' = off \cup {l}
  /\ \E kept \in 0..disables :
       LET gaveUp == kept + 1 > MaxReenables IN
       /\ disables' = IF gaveUp THEN MaxReenables + 1 ELSE kept + 1
       /\ escalated' = (escalated \/ gaveUp)
       /\ UNCHANGED rtap
       /\ IF gaveUp
            THEN UNCHANGED rpc
            ELSE \E g \in Recoveries :
                   /\ rpc[g] = "idle"
                   /\ rpc' = [rpc EXCEPT ![g] = "sleeping"]
  /\ UNCHANGED <<callVars, loopVars, stopClosed, tapVars, historyVars>>

\* After ReenableBackoff: the handle is read under tapMu, which is released.
ReadHandle(g) ==
  /\ rpc[g] = "sleeping"
  /\ rtap' = [rtap EXCEPT ![g] = tapHandle]
  /\ rpc' = [rpc EXCEPT ![g] = IF tapHandle = NoLoop THEN "idle"
                                                       ELSE "enabling"]
  /\ UNCHANGED <<callVars, loopVars, stopClosed, tapVars, off, disables,
                 escalated, historyVars>>

\* cxtap_enable on the handle that was read.
Reenable(g) ==
  /\ rpc[g] = "enabling"
  /\ misuse' = (misuse \/ rtap[g] \in freed)
  /\ off' = off \ {rtap[g]}
  /\ rpc' = [rpc EXCEPT ![g] = "idle"]
  /\ rtap' = [rtap EXCEPT ![g] = NoLoop]
  /\ UNCHANGED <<callVars, loopVars, stopClosed, tapVars, disables, escalated, late,
                 overdue>>

Next ==
  \/ \E c \in Callers : CallerStep(c)
  \/ \E l \in Loops : LoopStep(l) \/ TapDisabled(l)
  \/ \E g \in Recoveries : ReadHandle(g) \/ Reenable(g)

Spec == Init /\ [][Next]_vars

\* Goroutines that can run do run, and timers fire.  Nothing obliges a caller
\* to call, nor a run loop to notice that its source is gone.
FairSpec ==
  /\ Spec
  /\ \A c \in Callers :
       WF_vars(InstallAnswered(c) \/ InstallTimeout(c) \/ StopDone(c)
               \/ StopTimeout(c) \/ Uninstall(c) \/ Unbind(c))
  /\ \A l \in Loops :
       WF_vars(BindDecide(l) \/ CreateTap(l) \/ Refused(l) \/ SetHandle(l)
               \/ ReplyInstalled(l) \/ MarkLive(l) \/ EnterRun(l)
               \/ StopLoop(l) \/ LoopExit(l))
  /\ \A g \in Recoveries : WF_vars(ReadHandle(g) \/ Reenable(g))

-------------------------------------------------------------------------------
(* What TapContract's variables are here.  While a stop is under way the     *)
(* abstract slot is still taken, by the loop that is being stopped; a tap    *)
(* counts as up from the moment tapHandle has been told of it.               *)
contractSlot ==
  LET stopping == {c \in Callers : cpc[c] \in {"waitDone", "uninstall"}} IN
  IF stopping = {} THEN slot ELSE mine[CHOOSE c \in stopping : TRUE]

contractUp == {l \in attached : lpc[l] # "handle"}

contractPending == {l \in Loops : lpc[l] \in {"bind", "create", "handle"}}

Contract == INSTANCE TapContract WITH
  Drivers <- Loops, NoDriver <- NoLoop, slot <- contractSlot, up <- contractUp,
  handle <- tapHandle, pending <- contractPending

\* TapStart, TapStop and the goroutines they leave behind do what the daemon is
\* written against, TapContract, whichever timer fires and however late an
\* install or a run loop answers.
KeepsContract == Contract!TapSpec

\* Nobody is inside TapStart or TapStop, and no loop between two steps.
Settled ==
  /\ lock = NoCaller
  /\ \A l \in Loops : lpc[l] \in {"unused", "running", "done"}

\* TapLive answers the truth: there is a running tap exactly when it says so
\* (tap_cgo.go: "true between a successful install and stop").
LiveIsTruth == Settled => (tapLive <=> attached # {})

\* It does as long as every install and every stop beats its timer.
LiveIsTruthInTime == late = {} /\ overdue = {} => LiveIsTruth

\* A tap that takes keys decides with its own Driver: no stop, refused start
\* or slow goroutine of another loop unbinds it.
TapDecides == late = {} /\ Settled => \A l \in attached : decide = l

\* A tap the system switched off is being re-enabled, or is reported as given
\* up: remapping never stops without a signal.
DisabledIsHandled ==
  late = {} => \A l \in off \cap attached :
    escalated \/ \E g \in Recoveries : rpc[g] # "idle"

\* Outside the calls, a tap that takes keys is the one TapStop would stop.
NoOrphanTap == lock = NoCaller => attached \subseteq {slot}

\* It is as long as every install beats its timer, however slow the stops.
NoOrphanInTime == late = {} => NoOrphanTap

\* Outside the calls, a taken slot has a loop behind it: no start is refused
\* as "already running" while nothing runs or will run.
SlotHasLoop == lock = NoCaller /\ slot # NoLoop => lpc[slot] # "done"

\* It has as long as every install beats its timer.
SlotHasLoopInTime == late = {} => SlotHasLoop

\* The tap reported as given up is the tap there is now.
UnhealthyIsNow ==
  Settled /\ escalated /\ attached # {} => off \cap attached # {}

\* A destroyed tap record is never used again.
NoUseAfterFree == ~misuse

\* A TapStop that has begun returns, whatever the run loop does.
StopReturns ==
  \A c \in Callers : cpc[c] = "waitDone" ~> cpc[c] = "idle"
===============================================================================
