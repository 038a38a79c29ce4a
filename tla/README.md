# CrossOS in TLA+

CrossOS is a macOS daemon (`core/cmd/crossos`) that reads the keyboard through a
CGEventTap, decides every key against rules, plugins and settings, and serves a
JSON-RPC socket to a Swift app and a Finder extension. This directory holds TLA+
models of its stateful parts, the TLC runs that check them on small instances,
and TLAPS proofs of what matters most for instances of any size.

    tlc -workers 2 -config KillSwitchConc.cfg MCKillSwitch
    tlapm KillSwitchProofs.tla

Paths below are relative to `src/core` unless they say otherwise.

## The system

One process, many goroutines: every IPC connection has its own
(`pkg/ipc/ipc.go`), `main` has one, the event tap's run loop is locked to an OS
thread and calls back into Go for every key, a worker runs the actions those
keys ask for, a watcher polls the focused application, timers re-enable a tap
the system has disabled. They meet in three kinds of state: `Core` under
`Core.mu` (`cmd/crossos/main.go`), the settings store under its own lock and the
file behind it (`pkg/settings`), and the package variables of the tap adapter
under three locks (`internal/adapter/tap_cgo.go`). launchd starts the process
again when it dies, from the file alone.

| Part | State | Operations | What is hard | Correct when |
|---|---|---|---|---|
| Kill switch and start-up (`main.go`) | killed, interception, tapError, stopTapFn, windowCache, owned | panicStop, resume, reset, startTap, shutdown | one emergency stop is written in three places by separate critical sections; requests overlap each other and main; crashes | a latched document means no interception; the kill switch is always armed; status and audit tell the truth |
| Tap adapter (`tap_cgo.go`, `platform/darwin/adapter/tap_bridge.c`) | slot, handle, decide callback, live flag, disable counts | TapStart, TapStop, the run loop, re-enable | timeouts that give up on work that goes on; lost wake-ups; a C record freed under a user | no tap outlives its owner; a disabled tap is re-enabled or reported |
| Settings store (`pkg/settings`) | one document in memory and on disk | load, update, ApplyBatch, RevertProfile, Clear | failed writes, crashes, documents that do not validate | memory and file agree; a batch is all or nothing; undo is exact |
| Plugin enablement, profiles, trials (`main.go`, `pagedata.go`, `pkg/safety`) | Core.plugins, Core.trials, Trial.State | setEnabled, profileApply, profileDeactivate, begin, confirm and rollback trial, reset | two stores under two locks, written in different orders by different handlers; an unlocked state machine | what runs is what is stored |
| Key decision and dispatch (`main.go`, `pkg/event/router.go`, `pkg/rule`, `pkg/keyboard`) | router, key state, 64-job queue | decideLocked, dispatch | a key is consumed before its action is queued; actions outlive a panic | a consumed key has its action, or is reported |
| Alt+Tab switcher (`switcher.go`, `pkg/winswitch`) | session, trigger queue of 8, one waiter's signal | summon, commit, fire, long poll, window list | queue overflow, windows that vanish between the list and the commit | the window chosen is the one drawn |
| Finder menu and file types (`finderdata.go`, `findermenu.go`, `pkg/filetype`) | fileTypes, menuOff, the user's folder | edit, reorder, toggle, create, duplicate, relative path | read-modify-write across two locks; a long copy into a folder others use | no row is lost, no file replaced, no half copy shown |
| Plugin child process (`pkg/plugin/plugin.go`) | child, health, waitCh | Start, Call, Stop, Health, Exited, WaitExit, the reaper | Call holds the lock while it waits for a child that may never answer | answers reach their callers; Stop works |
| Packs and marketplace (`pkg/plugin/pack.go`, `marketplace.go`) | each pack's state, ref, deadline | install, update, confirm, enable, disable, uninstall | a table, operations that step around it, and a clock | nothing is used that was not tried |
| Daemon lifecycle (`pkg/daemon`, `pkg/pluginapi`) | state, events | run, pause, resume, safe mode, stop | two steps for one resume | the events tell the whole history |
| Event bus, recorder, observe (`pkg/event/bus.go`, `pkg/record`, `pkg/observe`) | pending, traces, mode | Publish, Drain, OnOutcome, SetMode, Reproduce | concurrent drains, modes that change between recording and reading | outcomes arrive in order; what is shown is redacted |
| IPC server and socket (`pkg/ipc`, `main.go`, `lock_unix.go`) | listener, connections, lock file, socket path | start-up, Serve, Close | several processes, crashes, stale sockets, connections nobody closes | one daemon serves and can be reached; Close ends |
| Focused-app watcher and context engine (`main.go`, `pkg/ctx`) | the query slot, the cache | tick, query, timeout; Update, Read, Full | a query that outlives its timeout; a reader lock taken twice | the cache never goes back; every read ends |
| Window actions (`pkg/winlayout`, `main.go`, `ax_bridge.c`) | cached frame, remembered frames | zones, close, maximize; Snap, Restore | two coordinate systems; the focus moves between the look and the act | restore undoes a snap |
| Conflicts page (`pagedata.go`) | none: it reads the rules | core.conflicts | a second answer to "who wins this chord" | it names the rule the keyboard picks |
| User rules (`pkg/userrules`) | the table and its file | create, update, delete, compile | identity derived from content | one rule per identity |
| Config merge, intent registry, app routing, updater | none, or one file | pure or sequential functions | boundaries | as their definitions say |
| Windows adapter, other page projections, Swift views | none of their own | platform calls, rendering | none that a model reaches | |

The interactions that matter: the IPC handlers call the store (its own lock) and
then take `Core.mu`, or the other way round; `startTap` is called by main and by
resume and calls `adapter.TapStart`; panicStop and reset call whatever
`stopTapFn` was published last, which calls `adapter.TapStop`; the tap calls
`Core.decideLocked` for every key, which reads `Core.plugins` and the store's
verdicts and compiles a router from them.

## Modules

- **`TapContract`** is the abstract specification: what `adapter.TapStart` and
  `adapter.TapStop` do for the daemon. At most one driver owns the slot; an
  install succeeds, is denied, is refused because the slot is taken, or is still
  in progress when TapStart returns (`InstallLate`). It is then `pending`, and
  arrives or is refused whatever has become of the slot (`LateArrival`,
  `LateRefusal`). A removal empties the slot and destroys the tap `tapHandle`
  names, if there is one by then: a pending install goes on, and its tap comes up
  with nobody to stop it. A tap counts as up from the moment the handle names it.
- **`KillSwitch`** extends it with the daemon: `handlePanicStop`, `handleResume`,
  `handleSafetyReset`, `startTap`, start-up, shutdown and respawn. Each goroutine
  has a program counter, and a step is one critical section. Every `startTap` that
  gets as far as its cache is a new *driver*, which names the cache, its watcher
  and the `sync.Once` of its stop function; `held` is the stop function a goroutine
  captured. `memLatch` and `fileLatch` are `panicStop` in memory and in config.json,
  and part only by a crash or a deleted file. `abandoned` records that a stop freed
  the slot of a pending install. The stores' other fields are `Enablement`'s.
- **`KillSwitchProofs`** holds the theorems about it.
- **`TapLoop`** opens the adapter: TapStart and TapStop step by step, the run-loop
  goroutine and its stopper, the C tap and its record, the disabled-by-timeout
  callback with its window of disables, and the goroutines that re-enable the tap.
  `KeepsContract` maps it to `TapContract`: the abstract slot is the adapter's, or
  the loop being stopped; the taps up are those attached and in or past the handle;
  the pending ones are the loops on their way there. The daemon is checked against
  the contract, and the adapter, late answers included, against the same contract.
- **`Settings`** has the document and what each mutation makes of it, as operators;
  one user-edited list (shortcuts) stands for all of them.
- **`Enablement`** has the three sets of plugins (running, stored, on disk) and
  the handlers that move them, each as the two or three critical sections it is,
  with trials and resets. `excused` records which plugins were moved by requests
  that overlapped, or by a request that answered with an error: the conditional
  properties are about all the others.
- **`Rules`** has the pure part of a decision as operators: which events a rule
  claims, which rule wins, what a picked user rule compiles to, who may ask for what,
  and the last gate of `decideLocked`. `rule.Resolve`'s sort is the order `Outranks`.
- **`Dispatch`** has a key from the tap's callback to its action. `decideLocked` is
  one step per lock it takes (plugins, the user table, its grants, each rule's global
  switch and the app's override, `killed`); between them the handlers write all of
  these. `Deliver` swallows the key and queues its action, the worker performs it, and
  what `translateCopy` posts comes back through `Return`. The histories `moments`,
  `overlap` and `pruned` say what an instant decision would have been.
- **`WinSwitch`** has the switcher's session as operators: the default pick, the
  newcomers it steps over, following a target, cycling. A row is an id and two flags.
- **`SwitchSession`** is one session against a list that changes at any moment; every
  operation of `winswitch.Session` is an action, also those the daemon does not call.
- **`Switcher`** has the service around it: `summon` and `commit`, on the dispatch
  worker, as the critical sections they are with the window server's calls between;
  the trigger queue and its one-slot `signal`; and the panel's polls. A poll is a
  connection, and `live` the one whose answers the panel takes (its `generation`).
  The panel asks for the windows after each trigger (`ListRows`, `Draw`), and `shown` is
  what it drew. Nothing creates the panel yet; the model has the
  protocol the two sides were written to.

- **`Conflicts`** extends `Dispatch` with what core.conflicts answers in each of its
  states: the handler only reads, so it has operators and no action. `Firing` is the
  page's own list of rules, `Group` a chord's, `Row` what is served of it; the order of
  the user's rules is a map's and therefore any.
- **`FileCatalog`** has the file-type list, the menu table and path arithmetic as
  operators. Names and paths are sequences of segments, some of them empty.
- **`Finder`** has the requests of the Explorer page and of the right-click menu, each
  call into the settings store or the file system a step, among a user who makes and
  deletes files. A file is an identity that survives its rename, so "whose copy is this"
  can be asked, and `data` has the files' contents in the order they were made, the
  deleted ones too; a name and its staging name are two places. `racedNames` and
  `racedRows` record which names and rows two requests were at together.
- **`PluginHost`** has one child and the goroutines that use it: the mutex that `Call`
  holds, the two pipes, the scanner's buffer, and the three steps of the reaper. A line
  is the id of the request it answers, or one nobody asked for; `Long`, which no
  request has as its id, is one that does not fit the buffer.
- **`PackRules`** and **`Lifecycle`** have the transition table and what moves through
  it: the daemon with its events, and the packs of a registry over a clock. What a
  manifest must be and which of its actions a menu offers are operators of `PackRules`.
- **`DaemonServe`** has whole processes that start over one socket path: settings are
  read, the lock file is taken, the pid written, the old socket probed and removed, the
  new one bound; then the accept loop, a goroutine per connection, the signal, `Close`
  and its wait. A crash at any step, and a lock file taken away, are actions.
- **`FocusWatch`**, **`ContextCache`**, **`Recorder`** and **`WindowSnap`** (over the
  geometry of **`WindowLayout`**) are small concurrent parts that share nothing:
  the watcher's queries and its two-second give-up; the context engine's lock, where a
  waiting writer keeps readers out; traces, modes and the bus with its drainers; the
  worker's window actions on the frame last seen, and the Executor that remembers
  frames. **`SlowPath`** composes them. Each behaviour moves one of them, named by
  `part`: they have no variable and no lock in common, so an interleaving of two
  shows nothing more of either, and the composed state space is the sum of theirs, not
  the product. Of the Recorder's and WindowSnap's operations the daemon does not call
  `SetMode`, `Publish`, `Drain`, `Reproduce` and the Executor's at this commit, and its
  `dispatch` routes `window.move` and not close, minimize or maximize (`SetWindowAction`);
  they are modelled as the library offers them.
- **`TapLoopProofs`**, **`EnablementProofs`**, **`DispatchProofs`**, **`FinderProofs`**,
  **`PluginHostProofs`** and **`SwitcherProofs`** hold the theorems about the module each is
  named for, `DispatchProofs` also that about `Conflicts`, `SwitcherProofs` those about
  `SwitchSession`, and **`DaemonProofs`** those about `Lifecycle`, `DaemonServe` and the
  parts of `SlowPath`. The specifications of `Lifecycle`, `SlowPath` and `SwitchSession` are
  called `LifecycleSpec`, `SlowSpec` and `SessionSpec`, and their variables differ from
  those of the other modules, so that one module may extend two.

The `MC` modules give the constants values. An operator whose comment starts with
"Mutant" is not part of a specification: it is a plausible bug in the definition it
precedes, and the property PROJECT.json names for it fails once the bug is put in.

## Runs

| Run | Question | Bounds, and why they are enough |
|---|---|---|
| `KillSwitchSeq` | With one request at a time after start-up, do latch, status, audit and tap agree, whatever fails and wherever the process dies? | one request in flight, five `startTap`s in a process life allow start, panic, resume, panic, resume, reset; a respawn starts the count again |
| `KillSwitchConc` | What still holds when two requests overlap and installs outlast their timeout? Does every stop end? | two requests and main are three goroutines on one slot; two drivers are the old tap, perhaps still pending, and the new one; drivers are taken in one order |
| `TapLoop` | Does the adapter keep its contract, and does a stop always return? | two callers (a stop racing a start), two loops (the old and the new), two re-enables, one re-enable per window, so that both the re-enable and the give-up happen; any timer may fire, any `CFRunLoopStop` may be lost |
| `Enablement` | Is what runs what is stored? Is the undo point exact? Does a rolled-back trial stay off? | two requests of any kind at a time, one plugin, one rule, all three plans over them; one trial per process life, any number of lives |
| `Dispatch` | Is a decision that of one moment? Is every swallowed key acted on or counted, in order? | three keys on a queue of two: before the worker takes the first, the third is dropped; one edit at any point of a decision; two builtin rules that rank apart on one key, two user rules that outrank or lose to them |
| `SwitchSession` | Does the highlight stay on its window whatever the windows do? | three windows, minimized or not, are the fewest with a newcomer in front of the window before the current one; symmetry over them |
| `Switcher` | Is every trigger read or pushed out, in order? Does a summon pay for one focus? | three jobs on a queue of two, so that the first trigger is pushed out; two connections, the panel shown again once; two windows, and one change of them at any point, a third arriving among these |
| `Finder` | Can two verbs, two edits, a user and a crash lose a file, a copy or a row? | three requests on two connections are two duplicates of one file and an edit, or three edits; two presets; five names, because each request, the user and the original may take one; one user action and one crash at any step; the connections are symmetric |
| `PluginHost` | Does every caller get its own answer? Does Stop return? | two goroutines and four uses: a call that waits, a stop or health check beside it, and a use of what they left; one line nobody asked for |
| `Lifecycle` | Is the history whole? Is anything used that was not tried? | one pack with two refs (packs do not interact), a trial that lapses after one tick of two, four events |
| `DaemonServe` | Does one daemon, that can be reached, serve? Does a shutdown end? | two processes, any number of lives each; two clients, so that one may be idle while the other calls; two edits |
| `SlowPath` | Does the cache go back? Do reads end? Do outcomes keep their order? Does a restore undo? | three queries: two that were given up and one that lands; two readers and two writers with one update; a bus of two and four outcomes, so that one is dropped under two drains; three windows and a history of two, so that one is evicted |

Bounds in guards: `MaxReenables` is the code's constant, cut to 1; `disables`
saturates one above it. Drivers, loops, re-enable goroutines and trials are used
once each in a process's life (drivers and trials again after a restart), so the
sets bound the number of starts, not the number of steps. `HistoryCap` (128 in the
code), `MaxPackPaths` (100), `TraceRowLimit` (200) and the queues' sizes are the code's
constants made small, so that they are reached. Deadlock
checking is off where a bound leaves a model with nothing to do: `TapLoop` with both
loops used and nobody calling, `Dispatch`, `Switcher`, `Finder`, `PluginHost`,
`Lifecycle` and `SlowPath` when their bounded requests, jobs or events have run out.
The others are checked for deadlock, and none of them stops.

What the properties say, beyond the type invariants:

- `LatchedMeansStopped`, `StatusTruth`: in a quiet daemon the latch and `core.status`
  agree with the tap.
- `TapHasFreshContext`: a tap reads a cache that somebody refreshes. `KillSwitchArmed`:
  the stop function a panic would pick up has not been spent, and the tap it takes down
  is the one there. Both until a stop came while an install was pending (`abandoned`):
  that stop spends its `sync.Once` and ends its watcher, and the tap comes up after it
  (`KillSwitchAlwaysArmed`, see below). `BootLatchHolds`: a
  respawn under a latch attaches nothing. `StopCompletes`: a stop ends, also when two
  requests go through the same `sync.Once`.
- `TapDecides`, `LiveIsTruthInTime`: the tap that takes keys decides with its own
  driver, and is the one TapLive speaks of. `LiveIsTruthInTime` is conditional: on no
  install having outlasted `installTimeout` (`late`) and no run loop `stopTimeout`
  (`overdue`). Without the conditions it fails, see below. `KeepsContract`: what the
  daemon sees is a behaviour of `TapContract`, with no condition. `StopReturns`: TapStop returns even when
  the run loop never does.
- `SurvivesRestart`: a plugin nobody is moving runs exactly if it is stored, and
  if it would after a restart. `RestartIsInvisible`: a file on disk is the running
  settings. `UndoIsExact`: whatever came between, the undo point takes the ids of the
  last applied plan to what that plan found. `RolledBackStaysOff`: a trial that was
  rolled back or ran out is not enabled by a later confirm.
- `DecisionIsAMoment`: a decision that one write overlapped is what the tables said at
  some moment of it, unless that write took a user rule away (without the exception
  it fails, see below). `ClaimsAccounted`, `EveryClaimIsTried`: a swallowed key is
  queued, running, done or counted as failed, and never two of these; each is tried or
  counted in the end, unless a call without a timeout hangs (`Blocked`; without the
  exception it fails, see below). `RowNamesThePick`: where the conflicts page's one answer is about
  an application, the rule it names as the winner is the one the keyboard picks there,
  with every switch, plugin, user rule and grant, and every order of the user table.
- `CommitmentFollowed`, `ArrivalsMoveNothing`: a picked window is followed while some
  window may be picked; an untouched default names the window it first named, whatever
  arrives.
- `TriggersAccounted`, `TriggersAreRead`: a trigger is waiting, read or pushed out, never
  two of these, and not waiting for ever. `OneFocusPerSummon`: a commit that ends well
  closes what one summon opened. `FocusIsDrawnIfStill`: the window focused
  is the one drawn, if no window moved in between (otherwise not, see below).
- `StagingIsPrivate`: a staging name belongs to one duplicate, also after a killed run
  left a file there; two that chose one name share it, which is recorded in `racedNames`.
  `OnlyTheWindowReplaces`: the one way a file of the folder is replaced is the window
  between the second probe and the rename. `CatalogKeepsItsRows`: overlapping edits
  and reorders undo each other but never lose, double or mint a row.
  `RestartChangesNoRow`: a menu row is as it would be after a restart.
- `AnswerIsMine`: `Call` matches no ids, and while the child prints nothing unasked each
  caller still gets its own answer. `ReportsAreTrue`: who is told of the child's end finds
  it dead and the plugin disabled. PluginHost's `StopReturns`: a stop returns and
  its child's end is recorded, unless a live child is silent for ever under a `Call`.
- `HistoryIsWhole`: the daemon's events are one path from where it began to where it is.
  `TriedBeforeUse`: no ref is enabled or paused that was not on trial in that pack first.
- `NoDeafDaemon`: a serving daemon is the one the path leads to, through every crash and
  restart of others. `SingleWriter`: all calls in progress are of one process. Both
  while nobody removes the lock file by hand: with a new file a second daemon gets a
  lock too. `ShutdownEnds`: a signalled daemon ends unless a client holds its
  connection for ever.
- `CacheNeverGoesBack`: an answer that was given up does not land over a newer one.
  `CallsEnd`: no reader and no writer of the context cache waits for ever.
  `OrderedIfOneDrains`: what is not dropped is delivered in the order published, as long as drains do
  not overlap. `RestoreUndoes`: a restore gives the frame from before the first snap,
  unless the history's cap of later windows pushed it out.

Some properties are stated in the modules and in no listed run; they hold when added by
hand to the configuration named. `TypeOK` of each module that has one, with its run's;
`SilenceIsExplained` and `AuditNamesTap` with `KillSwitchSeq.cfg`; `IInv` with
`KillSwitchConc.cfg`; `DisabledIsHandled`, `NoOrphanInTime` and `SlotHasLoopInTime` with
`TapLoop.cfg`; `ActionsInOrder` with `Dispatch.cfg`; `HighlightIsDrawn` with
`SwitchSession.cfg`; `PanelInOrder`, `PanelIsTold` and `NoSleepOverTriggers` with
`Switcher.cfg`; `RelativeResolves` with `Finder.cfg`; `HealthFollows` and `OfferFits` with
`Lifecycle.cfg`; `BusAccounts` with `SlowPath.cfg`.

### Fairness

`KillSwitchConc` and `TapLoop` assume weak fairness of each goroutine's steps
once it has begun (the Go scheduler runs what can run, a lock that is free is
got, a timer fires). Nothing is assumed of clients (no request need arrive), of the
system (no process need die, no tap need be disabled), or of a run loop that was
not told to stop. A resume's install is the only step the kill-switch properties
wait for that could block, and TapStart bounds it by `installTimeout`. `Dispatch`
assumes it of the worker: it takes the next job, and a call that has a bound returns.
It assumes nothing of the calls without one (`Unbounded`). Only the focused window is read
from a cache; `window.move` then asks the frontmost application to move its window, and
copying a path or opening an application runs a command, on the worker and with no
timeout. `Switcher`
assumes it of the worker and of some poll: a handler runs, its timer fires (`waitBudget`
bounds it), and a panel that is up asks again. Nothing is assumed of an earlier
panel's poll, of keys or of windows. `PluginHost` assumes it of the goroutines and of
the end of a killed process, not of the child's answers; `DaemonServe` of the server's
goroutines and of a shutdown once begun (the end of the last
connection releases Close's wait though another may come, hence strong fairness of
`Exit`), not of clients, signals or
launchd; `SlowPath` of the context cache's readers and writers, whose critical sections
are a few assignments. Go's RWMutex lets a waiting writer go before later readers, which is
part of the model and not of its fairness. `KillSwitchSeq`, `Enablement`,
`SwitchSession`, `Finder` and `Lifecycle` check safety only and assume none.

## Proofs

`KillSwitchProofs` proves, for every set of requests and drivers:

- `TypeCorrect`: `Spec => []TypeOK`;
- `InvariantHolds`: `Spec => []IInv`;
- `FreshContext`, `AlwaysArmed`, `LatchSurvivesRespawn`: `TapHasFreshContext`,
  `KillSwitchArmed` and `BootLatchHolds` are invariants.

The assumptions are `KillSwitchAssumption` and `DriverAssumption` (main is not a
request, the null driver is not a driver, the kinds are the three there are). None of the three
properties is inductive. `KillSwitchArmed` speaks of quiet states only, so the
invariant says of every state who can still empty the slot: the published stop
function, one about to be published, or one on its way (`SlotIsReachable`). That
a stop published by one goroutine is not another's needs each start's driver to
be its own until then (`OwnDriver`, `UnusedIsFree`); that nothing of an earlier
process is left needs `DownIsGone`; `BootLatchHolds` needs that nobody is past the
latch check while the latch stands (`LatchIsObeyed`), and `TapHasFreshContext` the
same of the slot before the tap is up (`SlotIsFresh`). That what is up or pending is
what the slot and the handle name (`StoppableInTime`) holds until a stop finds an install
pending. The proof takes one step per
action and, in it, one per conjunct the action can disturb; TLC checks `IInv` as an
invariant of `KillSwitchConc`.

`LatchStops` and `StatusIsTrue` prove `LatchedMeansStopped` and `StatusTruth`, which
overlapping requests break (see the findings), under the hypothesis `OneClient`, which is
what `KillSwitchSeq` runs: one request at a time, none before main's start of the tap is over, and
installs that beat their timer. With any number of drivers, restarts and crashes, `LatchKills`
says that whoever latches has killed first and whoever revives has unlatched first, and
`TapIsAccounted` that a serving process has reported the tap it has and holds the stop
for it, wherever the request under way stands.

Of `Lifecycle`, `DaemonProofs` proves `TypeCorrect`, `HistoryWhole`, `HealthFollowsState` and
`TrialComesFirst`: `LifecycleTypeOK`, `HistoryIsWhole`, `HealthFollows` and `TriedBeforeUse` are
invariants for every set of packs, refs, manifests and contexts and every value of the
bounds on time and events, from `LifecycleAssumption` and `CapAssumption`. Each is inductive with the type of the pack it speaks of;
`PutKeeps` says it once for everything a pack operation may put, and each operation only
shows that what it puts is `Sound`. `AppendKeeps` is the same for events: appending a move
that starts where the daemon is keeps the path whole, and `Resume` appends two.

Of `DaemonServe`, `DaemonProofs` proves `NoDaemonIsDeaf` and `OneProcessWrites`: `NoDeafDaemon` and
`SingleWriter`, for any number of processes, clients and edits, from `ServeAssumption`.
Neither is inductive. The invariant says that from the lock on a process holds it
(`OneHolder`), that a process which listens is where the path leads (`PathHeld`; the
probe, the removal and the bind lie between lock and listening), and that a connection's
process is one that was bound (`ConnsLive`, `TakenHere`); all under `~wiped`, for a lock file that was removed
gives two holders. That a call runs in a bound process, a bound process holds the
lock and one process holds it is then `SingleWriter`.

Of `SlowPath`, `DaemonProofs` proves `TheCacheIsNewer`, `OneDrainKeepsOrder` and
`RestoreFindsTheFirst`: `CacheNeverGoesBack`, `OrderedIfOneDrains` and `RestoreUndoes`, for any
changes, drainers, capacities, windows and frames, from `SnapAssumption`. Each part
has an invariant of its own. `CacheLine`: the query that is awaited began after whatever the
cache holds was seen, so only a newer answer can land. `BusLine`: until two drains
overlap, what is delivered, then the one batch in hand, then what is pending are one
rising line. `FrameLine` says of each snapped window that the windows behind it in the
history are among those counted since its snap; a window that is pushed out has as
many of them as the history holds, because the places of the history map one to one
into them (`AgedOut`).

`TapLoopProofs` proves the adapter's five invariants (`TapsDecide`, `NoTapIsOrphaned`,
`SlotsHaveLoops`, `DisabledTapsAreHandled`, `LiveIsTrue`) and `ContractKept`, the refinement
of `TapContract`, late answers and all, for any callers, loops and re-enables, from `TapLoopAssumption`. The
invariant has three layers. `CallsExclude` and `LoopsInOrder` hold whatever is late:
`tapStopOnce` lets one caller in, whose call is about one loop, and a loop's step tells which
of its channels are closed and whether its record is there. While no install has been
given up, `InTime` adds that whoever waits for an install gets its answer, that the one
tap there is belongs to the slot or to the stop under way, that a taken slot has a loop,
and that a disabled tap has its recovery. While no stop has been given up either,
`LiveFollowsRun` adds that the loop that runs is that one. The refinement needs
the first layer alone: the abstract slot is the adapter's, or that of the stop under way.

`EnablementProofs` proves `SurvivesRestart`, `RestartIsInvisible`, `UndoIsExact` and
`RolledBackStaysOff`, for any plugins, rules, plans, requests and trials, from
`EnablementAssumption`. `SurvivesRestart` speaks of plugins nobody is moving; the invariant says
(`Agreement`, `InStep`), of each place in a handler, which of the running map, the
document and the file have moved already, and `MoversKnown` that two requests about one
plugin excuse it. `UndoHolds` carries the undo point across every mutation of the
document, and `TrialsApart` and `AdvanceChecked` tie a confirm to the state it read.

`PluginHostProofs` proves `AnswerIsMine` and `ReportsAreTrue`, for any goroutines and calls,
from `HostAssumption`. `MutexHeld` says the mutex is held from the lock to the answer.
`OneUnderWay` is the argument for a protocol that compares no ids: while the child prints
nothing unasked and its scanner is whole, at most one line is under way, in one of
the two pipes or the buffer, and it is the number of the `Call` that holds the mutex.
`ReaperKnows` says what each step of the reaper has done.

`FinderProofs` proves `StagingIsPrivate`, `CatalogKeepsItsRows`, `RestartChangesNoRow` and
`OnlyTheWindowReplaces`, for any requests, names, presets and edits, and any number of
crashes, from `FinderAssumption`. `OneLink` says a file has one name, `Copies` that a
duplicate's file is what it has written so far, `Races` that two requests at one name are
recorded as such. That edits keep the rows (`Lists`) needs that both operators of
`FileCatalog` keep the number of times each id occurs (`EditKeepsIDs`, `OrderKeepsIDs`), from
whichever list they read.

`DispatchProofs` proves `ClaimsAccounted`, `ActionsInOrder` and `DecisionIsAMoment`, for any
rule tables, keys, applications, queue and edits, from `DispatchAssumption`: rules have
numbers for ranks, ids are distinct, a pick's id is that of its chord and scope. The order
of rules is strict and total on such a table (`RankIsAnOrder`), so a finite set of candidates
has a winner and `Resolve` finds it (`ResolveFinds`), in whatever order the table comes.
`Line` and `Newest` order the keys that were swallowed. `DecisionIsAMoment` needs `Traced`:
as long as nothing was edited, the present configuration explains all that was read;
after one edit, the configuration before it does, or the one after it. Which one depends
on whether the edited switch was read already (`SwitchUnread`, `OverrideUnread`), a plugin
toggle being always before and a PANIC STOP after; a user rule created between the table
and the grants only adds grants, which changes no answer (`MoreGrantsAreTheSame`).
`RowsNameThePick` proves `RowNamesThePick` of `Conflicts`, with `ConflictsAssumption`: a stored
list holds no blank application, a rule acts on presses, releases or flags only, and 0
is nobody's id. The group's rules are among those in force, its probe matches in the row's first
context what the key matches in the application, and a rule that outranks all those in
force outranks the group's.

`SwitcherProofs` proves the six safety invariants of `Switcher`: `TriggersAccounted`,
`PanelInOrder`, `NoSleepOverTriggers`, `OneFocusPerSummon`, `PanelIsTold` and
`FocusIsDrawnIfStill`, for any windows, connections and changes and a queue of any size, from
`SwitcherAssumption`, which says that the first list has one row of each window.
`TriggerLine` says that what was pushed out, what was read and what waits split the
triggers fired, each older than what waits. `PanelLine` carries the order across the poll that has a
trigger in hand: it is newer than all the panel has seen, and is discarded if a new panel
came up since. `Paid` says where the worker stands with a summon not yet fired (it has
opened the session already) and with a commit (it has closed it already), which is why one summon
pays for one focus; `Told` is the same for what the panel was told last. `Highlight`
says that in a session nobody cycled the default is a function of the rows alone
(`Wanted`): neither the count of candidates the summon took nor the target of an earlier refresh matters,
for no row of the service is marked late (`DefaultIs`, `DecideIs`). So the commit, which decides
again in a session the panel's refreshes have changed, picks the window that was drawn
wherever the rows are the same.

It also proves `ArrivalsMoveNothing` and `CommitmentFollowed` of `SwitchSession`, for any
windows, from `WindowAssumption`. `SessionLine` remembers that the summon counted the
candidates it saw and picked the first or the second of them, and that no operation
but a summon changes the count. If the candidates that are not newcomers are those of
the press, the list gained exactly as many as there are newcomers (`OnlyTheOld`): none of
these has that many before it, so each is stepped over, and none of the others is.

Every inductive invariant here was checked by TLC on a small instance before it was proved.

Only model-checked: the liveness properties (`StopCompletes`, `StopReturns`,
`EveryClaimIsTried`, `TriggersAreRead`, `ShutdownEnds`, `CallsEnd`), which are out of the
prover's reach, as is what the recursive definitions of paths and orders compute.

## Where the code and its comments part

PROJECT.json lists each under "findings", with the line that says otherwise and the
configuration that shows it: with the property named as its only INVARIANT or PROPERTY,
TLC answers with a counterexample. The properties are at the end of their modules.

| Configuration | Property | The code |
|---|---|---|
| `KillSwitchConc` | `LatchedMeansStopped` | panic, overlapped by resume, leaves a latched document and a live tap |
| | `ShutdownRemovesTap` | after panic and resume, shutdown leaves the tap attached |
| | `KillSwitchAlwaysArmed` | a stop during a pending install is spent on nothing, and the tap comes up for good |
| `KillSwitchSeq` | `ResetKeepsLatch` | reset latches, and then clears, the kill switch |
| `KillSwitchEarly` | `StatusTruth`, `AuditNamesTap` | requests served before main has started the tap make status and audit lie |
| `KillSwitchLateStatus` | `StatusTruth` | a tap that comes up after `installTimeout` is reported off |
| `TapLoop` | `NoUseAfterFree` | the re-enable goroutine drops `tapMu` before it uses the handle |
| | `NoOrphanTap`, `SlotHasLoop` | a late install is orphaned, or blocks the slot |
| | `LiveIsTruth`, `UnhealthyIsNow` | live flag and given-up flag outlive their tap |
| `Enablement` | `ResetIsFreshInstall` | Reset Everything leaves an empty shortcut table, not the seeds |
| | `RunningIsStored` | a failed toggle ends at the opposite of its request |
| | `OneConfirm`, `RollbackIsFinal` | `Trial.Confirm` runs without a lock |
| | `TrialEntryIsTrial` | a spent trial answers `beginTrial` as if it were in flight |
| `DispatchOdd` | `NeverClaimedInVain` | Alt+F4, Win+Up and Win+Down are swallowed for capabilities `dispatch` does not route |
| | `InjectedNeverMatched` | the chord an action posts is matched like a keystroke |
| `Dispatch` | `TerminalKeepsItsKeys` | every application is cached as native, terminals too |
| | `DecisionIsOneMoment` | table and grants are two reads; a rule deleted between them eats the key |
| | `StoppedMeansNothingRuns` | queued actions run after a PANIC STOP |
| | `NoActionWedges` | a `window.move` waits for the frontmost application with no timeout, and every later key with it |
| | `LosersLose`, `SettledIsNoRow` | a conflict's winner is that of its first context, and every contested chord has a row |
| `SwitchSession` | `CommitmentAlwaysFollowed` | a picked tile loses its highlight when every window is minimized |
| | `CycleStartsAtFirst` | a step back without a highlight does not land on the first tile |
| `Switcher` | `FocusIsDrawn` | a commit decides again, and may focus another tile than the one drawn |
| | `SomebodyDrains` | an earlier panel's poll takes the hint, and a trigger waits for a timeout |
| | `PanelIsAlwaysTold` | a commit that focuses nothing closes the switcher and tells nobody |
| `Finder` | `NothingIsOverwritten` | a file made between the last probe and the rename is replaced |
| | `CopiesAreWhole` | two duplicates share a staging name, and one shows the other's unfinished copy |
| | `EditsStand`, `TogglesAgree` | overlapping edits undo each other; overlapping toggles part map and document |
| | `MenuFollowsSwitch` | a row switched off on the page stays in the menu |
| `FinderOdd` | `OfferedIsAccepted` | of two types with one extension, an offered one may be refused |
| | `RelativeResolves` | empty and `..` segments are counted as steps |
| `PluginHost` | `DisabledMeansDown` | a line over the buffer disables a plugin whose process goes on |
| | `AnswersMatch` | one unasked line shifts every later answer |
| `Lifecycle` | `StopNeverFails` | a paused daemon cannot be stopped |
| | `LapsedStaysOut` | a trial that ran out can be enabled |
| | `ToggleReturns` | a disabled pack cannot be enabled again |
| | `OfferIsDispatchable` | an action is offered for one path more than the cap |
| `DaemonServe` | `CallsAreWaited` | a connection accepted and not yet counted is not waited for |
| | `RefusalIsTrue`, `HolderIsNamed` | a refused daemon calls a serving one a leftover, or names a wrong pid |
| | `EditsStay` | the document is read before the lock is taken, and an older one written back |
| `SlowPath` | `OneInFlight` | a query given up goes on beside the next |
| | `FullIsOneMoment` | the lazy part is looked up for the application of a later moment |
| | `OrderedAlways` | two drains deliver out of order |
| | `DryRunIsDry` | a trace marked as not executed was executed |
| | `DisplayIsClean` (`MaxToggles = 2`) | what full-trace kept is shown raw in another mode |
| | `ReproduceAttachesOwn` | a decision recorded in between is attached to the fixture |
| | `ZonesAreOfTheScreen` | a zone halves the window where it is, not the screen |
| | `TopIsTheTop`, `MaximizeFills` | y is measured from the foot in one place and from the top in another |

## Left out, and next

`KillSwitch` leaves out what a key does, and `Dispatch` the stop's other steps: they
share `killed` and the tap's being up. `Dispatch` has one callback at a time, so a
resume waits for the old tap's last one; keycodes and flags are names, modifiers
sets; `core.keyEvent`, which decides a key and does nothing with it, the recorder's
traces, `keyboard.State`, which the daemon never makes, and parameter schemas are
left out, as are the filesystem, terminal and launcher capabilities. `Rules` ranks
by numbers what the code ranks by the string order of ids. `Enablement` leaves out the
kill switch that a reset also latches: `KillSwitch` has that half of the same handler.
A reset's stop of the tap, its settings and its file are thus in two modules, with
the same four steps in the same order. Zones, overrides, file types and menu items
are whole-document writes in `Enablement`. Logging, replies and page layout are
nowhere. `Switcher` has no connection that breaks: a panel whose poll fails stops asking
until it is shown again. `core.switcherFocus` is `Raise`, a change of the windows like any
other, and the list comes in the order `winswitch.Sort` gives it.

`Finder` has one folder and one base name: verbs in different folders do not meet.
Opening a terminal, moving into a folder, the clipboard and the paths' encoding are left out; a
directory is copied like a file. `PluginHost` has one child; `FetchRules` is a `Call`.
`Lifecycle` has no files: a pack's archive, signature and directory are left out, and so is the
registry's list. `DaemonServe` leaves out framing, the size limit of a line and the
dispatch of methods, whose effects are the other modules'. `Recorder` counts outcomes and does not
look into them. `WindowLayout` leaves out moving to another display, for the model's
screen is one, and rounding, for its frames are whole points.
`Conflicts` leaves out how a chord is written.

Not modelled: the config manager, of which the daemon uses only the schema check
(`BadFile` in `Settings`); the updater, a sequence without retained state; app
routing, a lookup; the Windows adapter, which no start reaches on macOS; the other page
projections and the Swift views, which keep nothing of their own. The validation of
edited zones and the vocabulary of user rules are input checks without state.

Planned, in this order:

1. User rules through their file.
2. An abstract switcher (a summon opens, a commit closes and focuses once) that
   `Switcher` implements.
