------------------------------ MODULE KillSwitch ------------------------------
(***************************************************************************)
(* PANIC STOP, resume and Reset Everything against the keyboard tap        *)
(* (core/cmd/crossos/main.go).                                             *)
(*                                                                         *)
(* Every IPC request runs on a goroutine of its own, and so does main's    *)
(* start-up: the steps below are the critical sections of those            *)
(* goroutines, and nothing but the locks in the code orders them.  The     *)
(* kill switch lives in three places that one request writes one after the *)
(* other: the process (killed), the settings store (memLatch) with its     *)
(* file (fileLatch), and the tap itself.  A process may die between any    *)
(* two steps and is started again by launchd from the file alone.          *)
(***************************************************************************)
EXTENDS TapContract

CONSTANTS
  Requests,      \* the IPC requests that may be in flight at once
  Main,          \* main's own goroutine
  Kinds,         \* which requests arrive, out of "panic", "resume", "reset"
  LateInstalls,  \* whether an install may outlast installTimeout
  EarlyClients   \* whether a client calls before main's startTap is over

ASSUME KillSwitchAssumption ==
  /\ Main \notin Requests
  /\ Kinds \subseteq {"panic", "resume", "reset"}
  /\ LateInstalls \in BOOLEAN
  /\ EarlyClients \in BOOLEAN

VARIABLES
  killed,        \* Core.killed: decideLocked passes every key through
  memLatch,      \* the settings store's PanicStopped()
  fileLatch,     \* the same flag in config.json
  interception,  \* Core.interception: "unset", "off" or "live" (tapLiveStatus)
  tapError,      \* Core.tapError: "none", "panic" or "start"
  stopTapFn,     \* Core.stopTapFn, named by the driver whose tap it stops
  windowCache,   \* Core.windowCache, named by the startTap that made it
  watching,      \* the startTaps whose watchFocusedApp goroutine still runs
  owned,         \* the tap is in the ownership ledger Core.owned
  once,          \* the sync.Once of each startTap's stop function
  pc,            \* the next step of each goroutine
  job,           \* the request a goroutine is serving
  held,          \* the goroutine's local: a captured stop, or its own driver
  underLatch,    \* history: started from a latched file, not cleared since
  abandoned      \* history: a TapStop freed the slot of an install still pending

coreVars == <<killed, interception, tapError, stopTapFn, windowCache, owned>>
latchVars == <<memLatch, fileLatch>>
onceVars == <<watching, once>>
historyVars == <<underLatch, abandoned>>
vars == <<tapVars, coreVars, latchVars, onceVars, pc, job, held, historyVars>>

Procs == Requests \cup {Main}

StartSteps == {"seed", "check", "refuse", "install", "recordOK",
               "recordFailed", "own", "publish"}
StopSteps == {"stop", "stopping"}
RequestSteps == {"idle", "panicKill", "panicPersist", "panicReport",
                 "unlatch", "clear", "resetKill", "resetPersist",
                 "resetClear", "resetDelete", "resetForget"}
MainSteps == {"down", "serve", "exit"}

Jobs == {"panic", "resume", "reset", "main", "none"}

\* Where a goroutine goes once the stop function it called has returned, and
\* once its startTap has.
AfterStop == [panic |-> "idle", resume |-> "seed", reset |-> "resetPersist",
              main |-> "exit", none |-> "idle"]
AfterStart == [j \in Jobs |-> IF j = "main" THEN "serve" ELSE "idle"]

FirstStep == [panic |-> "panicKill", resume |-> "unlatch",
              reset |-> "resetKill"]

TypeOK ==
  /\ TapTypeOK
  /\ killed \in BOOLEAN
  /\ memLatch \in BOOLEAN
  /\ fileLatch \in BOOLEAN
  /\ interception \in {"unset", "off", "live"}
  /\ tapError \in {"none", "panic", "start"}
  /\ stopTapFn \in MaybeDriver
  /\ windowCache \in MaybeDriver
  /\ watching \subseteq Drivers
  /\ owned \in BOOLEAN
  /\ once \in [Drivers -> {"unused", "idle", "busy", "done"}]
  /\ pc \in [Procs -> StartSteps \cup StopSteps \cup RequestSteps \cup MainSteps]
  /\ job \in [Procs -> Jobs]
  /\ held \in [Procs -> MaybeDriver]
  /\ underLatch \in BOOLEAN
  /\ abandoned \in BOOLEAN

-------------------------------------------------------------------------------
NoGoroutines == [p \in Procs |-> IF p = Main THEN "down" ELSE "idle"]

\* No process is running, and nothing was ever saved.
Init ==
  /\ TapInit
  /\ killed = FALSE
  /\ interception = "unset"
  /\ tapError = "none"
  /\ stopTapFn = NoDriver
  /\ windowCache = NoDriver
  /\ watching = {}
  /\ owned = FALSE
  /\ once = [d \in Drivers |-> "unused"]
  /\ pc = NoGoroutines
  /\ job = [p \in Procs |-> "none"]
  /\ held = [p \in Procs |-> NoDriver]
  /\ memLatch = FALSE
  /\ fileLatch = FALSE
  /\ underLatch = FALSE
  /\ abandoned = FALSE

\* Mutant: the tap is started before the settings were loaded.
BootUnloaded ==
  /\ pc[Main] = "down"
  /\ memLatch' = FALSE
  /\ underLatch' = fileLatch
  /\ pc' = [pc EXCEPT ![Main] = "seed"]
  /\ job' = [job EXCEPT ![Main] = "main"]
  /\ UNCHANGED <<tapVars, coreVars, fileLatch, onceVars, held, abandoned>>

\* main: load the settings, own the socket, serve IPC, then start the tap.
Boot ==
  /\ pc[Main] = "down"
  /\ memLatch' = fileLatch
  /\ underLatch' = fileLatch
  /\ pc' = [pc EXCEPT ![Main] = "seed"]
  /\ job' = [job EXCEPT ![Main] = "main"]
  /\ UNCHANGED <<tapVars, coreVars, fileLatch, onceVars, held, abandoned>>

\* A crash, a kill, or main returning: the operating system takes the tap
\* back and only the file is left.
ProcessEnds ==
  /\ pc[Main] # "down"
  /\ slot' = NoDriver
  /\ up' = {}
  /\ handle' = NoDriver
  /\ pending' = {}
  /\ killed' = FALSE
  /\ interception' = "unset"
  /\ tapError' = "none"
  /\ stopTapFn' = NoDriver
  /\ windowCache' = NoDriver
  /\ watching' = {}
  /\ owned' = FALSE
  /\ once' = [d \in Drivers |-> "unused"]
  /\ pc' = NoGoroutines
  /\ job' = [p \in Procs |-> "none"]
  /\ held' = [p \in Procs |-> NoDriver]
  /\ abandoned' = FALSE
  /\ UNCHANGED <<latchVars, underLatch>>

\* main receives SIGINT or SIGTERM and runs its deferred stopTap, which is
\* the stop function of the startTap main itself called.
Signal ==
  /\ pc[Main] = "serve"
  /\ pc' = [pc EXCEPT ![Main] = "stop"]
  /\ UNCHANGED <<tapVars, coreVars, latchVars, onceVars, job, held, historyVars>>

\* A request reaches the server, on a connection of its own.  The server is
\* up before main starts the tap and until the process is gone.
Arrive(r, k) ==
  /\ pc[Main] # "down"
  /\ pc[Main] \in StartSteps => EarlyClients
  /\ pc[r] = "idle"
  /\ k = "resume" => \E d \in Drivers : once[d] = "unused"
  /\ pc' = [pc EXCEPT ![r] = FirstStep[k]]
  /\ job' = [job EXCEPT ![r] = k]
  /\ held' = [held EXCEPT ![r] = NoDriver]
  /\ UNCHANGED <<tapVars, coreVars, latchVars, onceVars, historyVars>>

Goto(p, step) == pc' = [pc EXCEPT ![p] = step]

\* Go on to a step that may be the end of the request, and of its locals.
Proceed(p, step) ==
  /\ Goto(p, step)
  /\ IF step = "idle"
       THEN /\ job' = [job EXCEPT ![p] = "none"]
            /\ held' = [held EXCEPT ![p] = NoDriver]
       ELSE UNCHANGED <<job, held>>

-------------------------------------------------------------------------------
(* The stop function startTap returns, and startTap itself.                 *)

\* Running a nil or an already spent stop function does nothing.
StopNothing(p) ==
  /\ pc[p] = "stop"
  /\ held[p] # NoDriver => once[held[p]] = "done"
  /\ Proceed(p, AfterStop[job[p]])
  /\ UNCHANGED <<tapVars, coreVars, latchVars, onceVars, historyVars>>

\* The first caller enters the sync.Once and closes the watcher; a second
\* caller waits inside the Once, so it has no step here while it is busy.
StopWatcher(p) ==
  /\ pc[p] = "stop"
  /\ held[p] # NoDriver
  /\ once[held[p]] = "idle"
  /\ once' = [once EXCEPT ![held[p]] = "busy"]
  /\ watching' = watching \ {held[p]}
  /\ Goto(p, "stopping")
  /\ UNCHANGED <<tapVars, coreVars, latchVars, job, held, historyVars>>

\* Mutant: the Once is never left.
StopTapStuck(p) ==
  /\ pc[p] = "stopping"
  /\ RemoveTap
  /\ abandoned' = (abandoned \/ slot \in pending)
  /\ Proceed(p, AfterStop[job[p]])
  /\ UNCHANGED <<coreVars, latchVars, onceVars, underLatch>>

\* Mutant: the Once is spent although the tap could not be taken down.
StopTapGivesUp(p) ==
  /\ pc[p] = "stopping"
  /\ RemoveTap \/ UNCHANGED tapVars
  /\ abandoned' = (abandoned \/ slot \in pending)
  /\ once' = [once EXCEPT ![held[p]] = "done"]
  /\ Proceed(p, AfterStop[job[p]])
  /\ UNCHANGED <<coreVars, latchVars, watching, underLatch>>

\* ... then takes the tap down and leaves the Once.
StopTap(p) ==
  /\ pc[p] = "stopping"
  /\ RemoveTap
  /\ abandoned' = (abandoned \/ slot \in pending)
  /\ once' = [once EXCEPT ![held[p]] = "done"]
  /\ Proceed(p, AfterStop[job[p]])
  /\ UNCHANGED <<coreVars, latchVars, watching, underLatch>>

\* One driver not made yet is as good as another.
NextDriver == CHOOSE d \in Drivers : once[d] = "unused"

\* A new cache, its watcher, and the cache published for window dispatch.
SeedCache(p, d) ==
  /\ pc[p] = "seed"
  /\ once[d] = "unused"
  /\ d = NextDriver
  /\ once' = [once EXCEPT ![d] = "idle"]
  /\ watching' = watching \cup {d}
  /\ windowCache' = d
  /\ held' = [held EXCEPT ![p] = d]
  /\ Goto(p, "check")
  /\ UNCHANGED <<tapVars, killed, interception, tapError, stopTapFn, owned,
                 latchVars, job, historyVars>>

\* Mutant: startTap does not look at the latch.
CheckNothing(p) ==
  /\ pc[p] = "check"
  /\ Goto(p, "install")
  /\ UNCHANGED <<tapVars, coreVars, latchVars, onceVars, job, held, historyVars>>

\* A persisted PANIC STOP outranks everything.
CheckLatch(p) ==
  /\ pc[p] = "check"
  /\ Goto(p, IF memLatch THEN "refuse" ELSE "install")
  /\ UNCHANGED <<tapVars, coreVars, latchVars, onceVars, job, held, historyVars>>

\* Latched: no tap, and no stop function either (startTap returns an empty
\* one, so main is left holding nothing).
RefuseTap(p) ==
  /\ pc[p] = "refuse"
  /\ killed' = TRUE
  /\ interception' = "off"
  /\ tapError' = "panic"
  /\ Goto(p, AfterStart[job[p]])
  /\ held' = [held EXCEPT ![p] = NoDriver]
  /\ job' = IF job[p] = "main" THEN job ELSE [job EXCEPT ![p] = "none"]
  /\ UNCHANGED <<tapVars, stopTapFn, windowCache, owned, latchVars, onceVars,
                 historyVars>>

\* tapStartFn(d), with each answer it can give.
InstallTap(p) ==
  /\ pc[p] = "install"
  /\ \/ InstallOK(held[p]) /\ Goto(p, "recordOK")
     \/ InstallDenied /\ Goto(p, "recordFailed")
     \/ InstallBusy /\ Goto(p, "recordFailed")
     \/ LateInstalls /\ InstallLate(held[p]) /\ Goto(p, "recordFailed")
  /\ UNCHANGED <<coreVars, latchVars, onceVars, job, held, historyVars>>

\* The install that TapStart gave up on answers on the run-loop thread.
TapComesUp ==
  /\ \E d \in pending : LateArrival(d) \/ LateRefusal(d)
  /\ UNCHANGED <<coreVars, latchVars, onceVars, pc, job, held, historyVars>>

\* Mutant: the status is left as the last attempt wrote it.
RecordOnlyError(p) ==
  /\ pc[p] = "recordOK"
  /\ tapError' = "none"
  /\ Goto(p, "own")
  /\ UNCHANGED <<tapVars, killed, interception, stopTapFn, windowCache, owned,
                 latchVars, onceVars, job, held, historyVars>>

\* What core.status will answer, and the reason it will give.
RecordOK(p) ==
  /\ pc[p] = "recordOK"
  /\ interception' = "live"
  /\ tapError' = "none"
  /\ Goto(p, "own")
  /\ UNCHANGED <<tapVars, killed, stopTapFn, windowCache, owned, latchVars,
                 onceVars, job, held, historyVars>>

RecordFailed(p) ==
  /\ pc[p] = "recordFailed"
  /\ interception' = "off"
  /\ tapError' = "start"
  /\ Goto(p, "publish")
  /\ UNCHANGED <<tapVars, killed, stopTapFn, windowCache, owned, latchVars,
                 onceVars, job, held, historyVars>>

\* own(): the tap enters the ownership ledger.
OwnTap(p) ==
  /\ pc[p] = "own"
  /\ owned' = TRUE
  /\ Goto(p, "publish")
  /\ UNCHANGED <<tapVars, killed, interception, tapError, stopTapFn,
                 windowCache, latchVars, onceVars, job, held, historyVars>>

\* Mutant: the watcher ends when startTap returns.
PublishAndClose(p) ==
  /\ pc[p] = "publish"
  /\ stopTapFn' = held[p]
  /\ watching' = watching \ {held[p]}
  /\ Proceed(p, AfterStart[job[p]])
  /\ UNCHANGED <<tapVars, killed, interception, tapError, windowCache, owned,
                 latchVars, once, historyVars>>

\* The stop function becomes the one the next PANIC STOP will call.
PublishStop(p) ==
  /\ pc[p] = "publish"
  /\ stopTapFn' = held[p]
  /\ Proceed(p, AfterStart[job[p]])
  /\ UNCHANGED <<tapVars, killed, interception, tapError, windowCache, owned,
                 latchVars, onceVars, historyVars>>

StartOrStopTap(p) ==
  \/ StopNothing(p) \/ StopWatcher(p) \/ StopTap(p)
  \/ \E d \in Drivers : SeedCache(p, d)
  \/ CheckLatch(p) \/ RefuseTap(p) \/ InstallTap(p)
  \/ RecordOK(p) \/ RecordFailed(p) \/ OwnTap(p) \/ PublishStop(p)

-------------------------------------------------------------------------------
(* SetPanicStopped(on): the store adopts the value only when the write       *)
(* reached the file.                                                         *)

Persist(on) ==
  /\ memLatch' = on
  /\ fileLatch' = on

\* safety.panicStop
PanicKill(r) ==
  /\ pc[r] = "panicKill"
  /\ killed' = TRUE
  /\ held' = [held EXCEPT ![r] = stopTapFn]
  /\ Goto(r, "panicPersist")
  /\ UNCHANGED <<tapVars, interception, tapError, stopTapFn, windowCache,
                 owned, latchVars, onceVars, job, historyVars>>

\* A write that fails is only logged: the stop goes on, in memory alone.
PanicPersist(r) ==
  /\ pc[r] = "panicPersist"
  /\ Persist(TRUE) \/ UNCHANGED latchVars
  /\ Goto(r, "panicReport")
  /\ UNCHANGED <<tapVars, coreVars, onceVars, job, held, historyVars>>

PanicReport(r) ==
  /\ pc[r] = "panicReport"
  /\ tapError' = "panic"
  /\ Goto(r, "stop")
  /\ UNCHANGED <<tapVars, killed, interception, stopTapFn, windowCache, owned,
                 latchVars, onceVars, job, held, historyVars>>

\* safety.resume: a write that fails ends the request with an error.
ResumeUnlatch(r) ==
  /\ pc[r] = "unlatch"
  /\ \/ /\ Persist(FALSE)
        /\ underLatch' = FALSE
        /\ Proceed(r, "clear")
     \/ /\ Proceed(r, "idle")
        /\ UNCHANGED <<latchVars, underLatch>>
  /\ UNCHANGED <<tapVars, coreVars, onceVars, abandoned>>

ResumeClear(r) ==
  /\ pc[r] = "clear"
  /\ killed' = FALSE
  /\ tapError' = "none"
  /\ held' = [held EXCEPT ![r] = stopTapFn]
  /\ stopTapFn' = NoDriver
  /\ Goto(r, "stop")
  /\ UNCHANGED <<tapVars, interception, windowCache, owned, latchVars,
                 onceVars, job, historyVars>>

\* safety.reset
ResetKill(r) ==
  /\ pc[r] = "resetKill"
  /\ killed' = TRUE
  /\ held' = [held EXCEPT ![r] = stopTapFn]
  /\ stopTapFn' = NoDriver
  /\ Goto(r, "stop")
  /\ UNCHANGED <<tapVars, interception, tapError, windowCache, owned,
                 latchVars, onceVars, job, historyVars>>

ResetPersist(r) ==
  /\ pc[r] = "resetPersist"
  /\ Persist(TRUE) \/ UNCHANGED latchVars
  /\ Goto(r, "resetClear")
  /\ UNCHANGED <<tapVars, coreVars, onceVars, job, held, historyVars>>

\* Store.Clear empties the whole document, the latch with it.
ResetClear(r) ==
  /\ pc[r] = "resetClear"
  /\ \/ Persist(FALSE) /\ underLatch' = FALSE
     \/ UNCHANGED <<latchVars, underLatch>>
  /\ Goto(r, "resetDelete")
  /\ UNCHANGED <<tapVars, coreVars, onceVars, job, held, abandoned>>

\* os.Remove of the settings file: the next process reads defaults.
ResetDelete(r) ==
  /\ pc[r] = "resetDelete"
  /\ fileLatch' \in {FALSE, fileLatch}
  /\ Goto(r, "resetForget")
  /\ UNCHANGED <<tapVars, coreVars, memLatch, onceVars, job, held, historyVars>>

ResetForget(r) ==
  /\ pc[r] = "resetForget"
  /\ owned' = FALSE
  /\ Proceed(r, "idle")
  /\ UNCHANGED <<tapVars, killed, interception, tapError, stopTapFn,
                 windowCache, latchVars, onceVars, historyVars>>

RequestStep(r) ==
  \/ \E k \in Kinds : Arrive(r, k)
  \/ PanicKill(r) \/ PanicPersist(r) \/ PanicReport(r)
  \/ ResumeUnlatch(r) \/ ResumeClear(r)
  \/ ResetKill(r) \/ ResetPersist(r) \/ ResetClear(r)
  \/ ResetDelete(r) \/ ResetForget(r)

Next ==
  \/ Boot
  \/ ProcessEnds
  \/ Signal
  \/ TapComesUp
  \/ \E p \in Procs : StartOrStopTap(p)
  \/ \E r \in Requests : RequestStep(r)

Spec == Init /\ [][Next]_vars

\* A goroutine that can run does run: the Go scheduler is fair, and none of
\* these steps waits for anything but a lock or the sync.Once.
Handling(r) ==
  \/ StartOrStopTap(r)
  \/ PanicKill(r) \/ PanicPersist(r) \/ PanicReport(r)
  \/ ResetKill(r) \/ ResetPersist(r) \/ ResetClear(r)
  \/ ResetDelete(r) \/ ResetForget(r)
FairSpec ==
  /\ Spec
  /\ \A r \in Requests : WF_vars(Handling(r))
  /\ WF_vars(StartOrStopTap(Main))

-------------------------------------------------------------------------------
\* No request in flight and main waiting for a signal.
Quiet ==
  /\ pc[Main] = "serve"
  /\ \A r \in Requests : pc[r] = "idle"

Intercepting == up # {} /\ ~killed

\* The tap's decisions read the focused application from the cache of the
\* startTap that installed it; while keys are delivered that cache has a
\* watcher keeping it fresh, except while its own stop is on the way to the
\* tap.  A frozen cache makes every app-scoped rule unreachable (main.go,
\* the comment in startTap).  An install may be late; only one that was still
\* pending when a TapStop freed its slot is excused, with all that follows.
TapHasFreshContext ==
  ~abandoned => \A d \in up : d \in watching \/ once[d] = "busy"

\* Whenever nothing is in flight and a tap is up or still to come, the stop
\* function a PANIC STOP would pick up is one that has not been spent, and the
\* tap it takes down is that one: the sync.Once cannot turn the kill switch
\* into a no-op, unless a TapStop came while an install was pending.
KillSwitchArmed ==
  Quiet /\ ~abandoned /\ up \cup pending # {} =>
    /\ stopTapFn # NoDriver
    /\ once[stopTapFn] = "idle"
    /\ LiveTapIsStoppable

\* The same whatever came when: no tap is up that the next PANIC STOP cannot
\* reach.
KillSwitchAlwaysArmed ==
  Quiet /\ up # {} =>
    stopTapFn # NoDriver /\ once[stopTapFn] = "idle" /\ LiveTapIsStoppable

\* A process started from a latched file attaches no tap until it has itself
\* cleared the latch: a crash-loop respawn does not undo an emergency stop
\* (main.go, handlePanicStop: "Latch it").
BootLatchHolds ==
  underLatch => up = {}

\* When nothing is in flight, a latched document means a stopped process: the
\* two records of one emergency stop agree.
LatchedMeansStopped ==
  Quiet /\ memLatch => ~Intercepting

\* core.status never says "off" about a tap that is delivering keys.
StatusTruth ==
  Quiet /\ up # {} => interception = "live"

\* An interception that is off is never unexplained: core.status shows the
\* kill switch, or a tap error.
SilenceIsExplained ==
  Quiet /\ up = {} /\ ~killed => tapError # "none"

\* A tap that is attached is in the ownership audit.
AuditNamesTap ==
  Quiet /\ up # {} => owned

\* After main has run its deferred stop, with no request in flight, no tap is
\* left behind.
ShutdownRemovesTap ==
  (pc[Main] = "exit" /\ \A r \in Requests : pc[r] = "idle") => up = {}

\* Reset Everything reports "tap stopped and the kill switch latched": what
\* it does after latching keeps the latch.
ResetKeepsLatch ==
  [][\A r \in Requests : ResetClear(r) /\ memLatch => memLatch']_vars

\* An emergency stop that has begun always ends: no stop waits for ever
\* inside a sync.Once, whoever else is stopping the same tap.
StopCompletes ==
  \A r \in Requests : (pc[r] \in {"panicKill", "resetKill"}) ~> (pc[r] = "idle")

-------------------------------------------------------------------------------
(* The inductive invariant behind BootLatchHolds, TapHasFreshContext and     *)
(* KillSwitchArmed.                                                          *)

\* p is inside startTap, with a driver of its own.
Starting(p) ==
  pc[p] \in {"check", "refuse", "install", "recordOK", "recordFailed", "own",
             "publish"}

\* p is past the install and will publish its stop function.
Publishing(p) == pc[p] \in {"recordOK", "recordFailed", "own", "publish"}

\* p is on its way to TapStop through a stop function not spent yet.
StopPending(p) ==
  \/ pc[p] = "stopping"
  \/ /\ pc[p] = "stop"
     /\ held[p] # NoDriver
     /\ once[held[p]] \in {"idle", "busy"}

\* Nothing of a process is left while none runs.
DownIsGone ==
  pc[Main] = "down" =>
    /\ slot = NoDriver /\ up = {} /\ pending = {} /\ ~abandoned
    /\ \A r \in Requests : pc[r] = "idle"

\* Every tap, up or on its way, is the slot's, as long as no TapStop came
\* while an install was pending.
StoppableInTime == ~abandoned => LiveTapIsStoppable

\* A driver nobody made yet is known to nobody.
UnusedIsFree ==
  \A d \in Drivers : once[d] = "unused" =>
    /\ slot # d
    /\ stopTapFn # d
    /\ \A p \in Procs : held[p] # d

\* Until its stop function is published, a startTap's driver is its own.
OwnDriver ==
  \A p \in Procs : Starting(p) =>
    /\ held[p] \in Drivers
    /\ once[held[p]] = "idle"
    /\ held[p] \in watching
    /\ stopTapFn # held[p]
    /\ \A q \in Procs \ {p} : held[q] # held[p]

\* The driver in the slot still has its watcher, or is just being stopped.
SlotIsFresh ==
  slot # NoDriver => slot \in watching \/ once[slot] = "busy"

\* A taken slot can be released by somebody: by the stop function the Core
\* holds, by one about to be published, or by one already on its way.
SlotIsReachable ==
  slot # NoDriver =>
    \/ stopTapFn # NoDriver /\ once[stopTapFn] = "idle"
    \/ \E p \in Procs : Publishing(p) \/ StopPending(p)

\* Under an uncleared latch no startTap is past its check.
LatchIsObeyed ==
  underLatch =>
    /\ memLatch
    /\ slot = NoDriver /\ up = {} /\ pending = {}
    /\ \A p \in Procs : pc[p] # "install"

IInv ==
  /\ TypeOK
  /\ StoppableInTime
  /\ DownIsGone
  /\ UnusedIsFree
  /\ OwnDriver
  /\ SlotIsFresh
  /\ SlotIsReachable
  /\ LatchIsObeyed
===============================================================================
