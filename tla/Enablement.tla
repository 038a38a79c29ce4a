----------------------------- MODULE Enablement -----------------------------
(***************************************************************************)
(* The plugins that run against the plugins the user left on               *)
(* (core/cmd/crossos/main.go and pagedata.go over core/pkg/settings).      *)
(*                                                                         *)
(* decideLocked compiles its router from Core.plugins, the settings store  *)
(* remembers its own set, and config.json a third: every handler below     *)
(* moves two or three of them, each under its own lock, on the goroutine   *)
(* of its request.  A store write holds the store's lock from the copy to  *)
(* the rename, and so is one step; it may fail, and the process may die    *)
(* between any two steps.                                                  *)
(***************************************************************************)
EXTENDS Settings

CONSTANTS
  Requests,  \* the IPC requests that may be in flight at once
  Plans,     \* what planForProfile makes of the capability switches
  Trials,    \* the safety.Trial objects a process makes
  NoTrial    \* no entry in Core.trials

ASSUME EnablementAssumption ==
  /\ Plans \subseteq [rules : SUBSET Rules, plugins : SUBSET Plugins]
  /\ NoTrial \notin Trials
  /\ NoSnapshot \notin Snapshots
  /\ NoFile \notin Documents
  /\ BadFile \notin Documents

VARIABLES
  running,   \* Core.plugins: the plugins that are on
  mem,       \* the settings store
  file,      \* config.json
  trialOf,   \* Core.trials
  state,     \* the State of each Trial object
  expired,   \* the Trials past TRIALTimeout
  pc,        \* the next step of each request
  about,     \* the plugins its request moves
  local,     \* the verdict it carries: the plugins to be on afterwards
  trial,     \* the Trial object it looked up
  excused,   \* history: plugins moved by overlapping requests, or whose
             \* failed request was answered with an error
  found      \* history: what the last landed apply found

storeVars == <<mem, file>>
trialVars == <<trialOf, state, expired>>
reqVars == <<pc, about, local, trial>>
vars == <<running, storeVars, trialVars, reqVars, excused, found>>

Steps == {"idle", "togglePersist", "toggleBack", "applyRun", "revertRun",
          "confirm", "advance", "confirmPersist", "confirmRun", "rollback",
          "rollbackPersist", "rollbackRun", "resetDisable", "resetClear",
          "resetDelete"}

\* What a document says of the ids a plan names.
Verdict(doc, plan) ==
  [profile |-> doc.profile, rulesOff |-> doc.rulesOff \cap plan.rules,
   plugins |-> doc.plugins \cap plan.plugins]

NothingFound == [profile |-> NoProfile, rulesOff |-> {}, plugins |-> {}]

TypeOK ==
  /\ running \subseteq Plugins
  /\ mem \in Documents
  /\ file \in Documents \cup {NoFile, BadFile}
  /\ trialOf \in [Plugins -> Trials \cup {NoTrial}]
  /\ state \in [Trials -> {"unused", "trial", "enabled", "disabled"}]
  /\ expired \subseteq Trials
  /\ pc \in [Requests -> Steps]
  /\ about \in [Requests -> SUBSET Plugins]
  /\ local \in [Requests -> SUBSET Plugins]
  /\ trial \in [Requests -> Trials \cup {NoTrial}]
  /\ excused \subseteq Plugins
  /\ found \in [profile : {NoProfile, Profile}, rulesOff : SUBSET Rules,
               plugins : SUBSET Plugins]

\* The process starts: running state from the file, nothing in flight.
Boot(f) ==
  /\ file' = f
  /\ mem' = Load(f)
  /\ running' = Load(f).plugins
  /\ trialOf' = [p \in Plugins |-> NoTrial]
  /\ state' = [t \in Trials |-> "unused"]
  /\ expired' = {}
  /\ pc' = [r \in Requests |-> "idle"]
  /\ about' = [r \in Requests |-> {}]
  /\ local' = [r \in Requests |-> {}]
  /\ trial' = [r \in Requests |-> NoTrial]
  /\ excused' = {}

Init ==
  /\ file \in {NoFile, BadFile}
  /\ mem = Load(file)
  /\ running = Load(file).plugins
  /\ trialOf = [p \in Plugins |-> NoTrial]
  /\ state = [t \in Trials |-> "unused"]
  /\ expired = {}
  /\ pc = [r \in Requests |-> "idle"]
  /\ about = [r \in Requests |-> {}]
  /\ local = [r \in Requests |-> {}]
  /\ trial = [r \in Requests |-> NoTrial]
  /\ excused = {}
  /\ found = NothingFound

-------------------------------------------------------------------------------
(* Steps of a request.  Take, Step and Done keep its program counter and the *)
(* history of who overlapped whom.                                           *)

\* The plugins other requests are moving.
Busy(r) == UNION {about[q] : q \in {q \in Requests \ {r} : pc[q] # "idle"}}

\* r's first step: it goes on to `step`, moving the plugins ps.
Take(r, step, ps, verdict) ==
  /\ pc[r] = "idle"
  /\ pc' = [pc EXCEPT ![r] = step]
  /\ about' = [about EXCEPT ![r] = ps]
  /\ local' = [local EXCEPT ![r] = verdict]
  /\ excused' = excused \cup (ps \cap Busy(r))

Goto(r, step) ==
  /\ pc' = [pc EXCEPT ![r] = step]
  /\ UNCHANGED <<about, local, trial, excused>>

\* r answers; blame is what its error reply owns up to.
Reply(r, blame) ==
  /\ pc' = [pc EXCEPT ![r] = "idle"]
  /\ about' = [about EXCEPT ![r] = {}]
  /\ local' = [local EXCEPT ![r] = {}]
  /\ trial' = [trial EXCEPT ![r] = NoTrial]
  /\ excused' = excused \cup blame

\* Mutant: the document is adopted whether it landed or not.
LandOrNot(doc) == file' \in {file, doc} /\ mem' = doc

\* The one write path: only a document that lands is adopted.
Land(doc) == file' = doc /\ mem' = doc

\* The verdicts of ps put into the set `on`.
Put(on, ps, verdict) == (on \ ps) \cup (ps \cap verdict)

-------------------------------------------------------------------------------
(* plugin.setEnabled: the running map first, then the document, and back     *)
(* again when the document cannot be written.                                *)

ToggleRun(r, p, enabled) ==
  LET verdict == IF enabled THEN {p} ELSE {} IN
  /\ Take(r, "togglePersist", {p}, verdict)
  /\ running' = Put(running, {p}, verdict)
  /\ UNCHANGED <<storeVars, trialVars, trial, found>>

TogglePersist(r) ==
  /\ pc[r] = "togglePersist"
  /\ \/ /\ \E p \in about[r] : Land(SetPlugin(mem, p, p \in local[r]))
        /\ Reply(r, {})
     \/ Goto(r, "toggleBack") /\ UNCHANGED storeVars
  /\ UNCHANGED <<running, trialVars, found>>

\* Mutant: a failed write leaves the running map where the toggle put it.
ToggleStays(r) ==
  /\ pc[r] = "toggleBack"
  /\ Reply(r, {p \in about[r] : p \in local[r] <=> p \in mem.plugins})
  /\ UNCHANGED <<running, storeVars, trialVars, found>>

\* The opposite of the verdict asked for, whatever the plugin's was before.
ToggleBack(r) ==
  /\ pc[r] = "toggleBack"
  /\ running' = Put(running, about[r], about[r] \ local[r])
  /\ Reply(r, {p \in about[r] : p \in local[r] <=> p \in mem.plugins})
  /\ UNCHANGED <<storeVars, trialVars, found>>

-------------------------------------------------------------------------------
(* core.profileApply and core.profileDeactivate: the document first, then    *)
(* the running map.                                                          *)

ApplyPersist(r, plan) ==
  /\ Take(r, "applyRun", plan.plugins, plan.plugins)
  /\ Land(ApplyPlan(mem, plan))
  /\ found' = Verdict(mem, plan)
  /\ UNCHANGED <<running, trialVars, trial>>

ApplyRun(r) ==
  /\ pc[r] = "applyRun"
  /\ running' = Put(running, about[r], local[r])
  /\ Reply(r, {})
  /\ UNCHANGED <<storeVars, trialVars, found>>

\* Mutant: the reverted verdicts do not reach the running map.
RevertNotRun(r) ==
  /\ pc[r] = "revertRun"
  /\ Reply(r, {})
  /\ UNCHANGED <<running, storeVars, trialVars, found>>

RevertRun(r) ==
  /\ pc[r] = "revertRun"
  /\ running' = Put(running, about[r], local[r])
  /\ Reply(r, {})
  /\ UNCHANGED <<storeVars, trialVars, found>>

RevertPersist(r) ==
  /\ mem.snapshot # NoSnapshot
  /\ Take(r, "revertRun", mem.snapshot.plugins.named, mem.snapshot.plugins.on)
  /\ Land(Revert(mem))
  /\ found' = NothingFound
  /\ UNCHANGED <<running, trialVars, trial>>

-------------------------------------------------------------------------------
(* safety.beginTrial, confirmTrial and rollbackTrial.                        *)

\* A second begin of a plugin whose entry is still there answers "trial" and
\* changes nothing.
BeginTrial(p, t) ==
  /\ trialOf[p] = NoTrial
  /\ state[t] = "unused"
  /\ trialOf' = [trialOf EXCEPT ![p] = t]
  /\ state' = [state EXCEPT ![t] = "trial"]
  /\ UNCHANGED <<running, storeVars, expired, reqVars, excused, found>>

\* TRIALTimeout elapses.
Expire(t) ==
  /\ \E p \in Plugins : trialOf[p] = t
  /\ t \notin expired
  /\ expired' = expired \cup {t}
  /\ UNCHANGED <<running, storeVars, trialOf, state, reqVars, excused,
                 found>>

\* The entry is looked up under mu, which is released.
Lookup(r, p, step, verdict) ==
  /\ trialOf[p] # NoTrial
  /\ Take(r, step, {p}, verdict)
  /\ trial' = [trial EXCEPT ![r] = trialOf[p]]
  /\ UNCHANGED <<running, storeVars, trialVars, found>>

ConfirmLookup(r, p) == Lookup(r, p, "confirm", {p})
RollbackLookup(r, p) == Lookup(r, p, "rollback", {})

\* Mutant: the state of the trial is not looked at.
ConfirmAgain(r) ==
  /\ pc[r] = "confirm"
  /\ trial[r] \notin expired
  /\ Goto(r, "advance")
  /\ UNCHANGED <<running, storeVars, trialVars, found>>

\* Trial.Confirm, which no lock protects: a confirmed and healthy trial that
\* is in TRIAL and in time may advance, a late one is aborted; every other
\* confirm is refused.
Confirm(r) ==
  /\ pc[r] = "confirm"
  /\ \/ /\ trial[r] \notin expired
        /\ state[trial[r]] = "trial"
        /\ Goto(r, "advance")
        /\ UNCHANGED state
     \/ /\ trial[r] \in expired
        /\ state' = [state EXCEPT ![trial[r]] = "disabled"]
        /\ Reply(r, {})
     \/ UNCHANGED state /\ Reply(r, {})
  /\ UNCHANGED <<running, storeVars, trialOf, expired, found>>

\* Trial.advance writes the state it has checked against the old one.
Advance(r) ==
  /\ pc[r] = "advance"
  /\ state' = [state EXCEPT ![trial[r]] = "enabled"]
  /\ Goto(r, "confirmPersist")
  /\ UNCHANGED <<running, storeVars, trialOf, expired, found>>

\* The document before the running map; a failed write leaves the trial
\* enabled and its entry in place.
ConfirmPersist(r) ==
  /\ pc[r] = "confirmPersist"
  /\ \/ /\ \E p \in about[r] : Land(SetPlugin(mem, p, TRUE))
        /\ Goto(r, "confirmRun")
     \/ Reply(r, {}) /\ UNCHANGED storeVars
  /\ UNCHANGED <<running, trialVars, found>>

\* Trial.Abort: DISABLED from any state.
Rollback(r) ==
  /\ pc[r] = "rollback"
  /\ state' = [state EXCEPT ![trial[r]] = "disabled"]
  /\ Goto(r, "rollbackPersist")
  /\ UNCHANGED <<running, storeVars, trialOf, expired, found>>

RollbackPersist(r) ==
  /\ pc[r] = "rollbackPersist"
  /\ \/ /\ \E p \in about[r] : Land(SetPlugin(mem, p, FALSE))
        /\ Goto(r, "rollbackRun")
     \/ Reply(r, {}) /\ UNCHANGED storeVars
  /\ UNCHANGED <<running, trialVars, found>>

\* The plugin's entry is deleted, whichever trial it holds by now.
VerdictRun(r) ==
  /\ pc[r] \in {"confirmRun", "rollbackRun"}
  /\ trialOf' = [p \in Plugins |-> IF p \in about[r] THEN NoTrial
                                                    ELSE trialOf[p]]
  /\ running' = Put(running, about[r], local[r])
  /\ Reply(r, {})
  /\ UNCHANGED <<storeVars, state, expired, found>>

-------------------------------------------------------------------------------
(* safety.reset, once the tap is stopped and latched (KillSwitch).           *)

\* enabledPlugins: the set of plugins to stop is read under mu ...
ResetRead(r) ==
  /\ Take(r, "resetDisable", Plugins, Plugins \ running)
  /\ UNCHANGED <<running, storeVars, trialVars, trial, found>>

\* ... and stopped under a second one.
ResetDisable(r) ==
  /\ pc[r] = "resetDisable"
  /\ running' = running \cap local[r]
  /\ Goto(r, "resetClear")
  /\ UNCHANGED <<storeVars, trialVars, found>>

\* A step that fails is reported, and the next ones are taken all the same.
\* The latch reset has just written makes Clear find something, unless that
\* write failed.
ResetClear(r) ==
  /\ pc[r] = "resetClear"
  /\ pc' = [pc EXCEPT ![r] = "resetDelete"]
  /\ \/ Land(Cleared(mem)) /\ UNCHANGED excused
     \/ ~HasSettings(mem) /\ UNCHANGED <<storeVars, excused>>
     \/ excused' = Plugins /\ UNCHANGED storeVars
  /\ UNCHANGED <<running, trialVars, about, local, trial, found>>

ResetDelete(r) ==
  /\ pc[r] = "resetDelete"
  /\ file' \in {NoFile, file}
  /\ Reply(r, {})
  /\ UNCHANGED <<running, mem, trialVars, found>>
-------------------------------------------------------------------------------
(* The handlers that move the document alone.                                *)

EditDocument ==
  /\ \/ \E k \in Rules, enabled \in BOOLEAN : Land(SetRule(mem, k, enabled))
     \/ \E list \in ShortcutLists : Land(SetShortcuts(mem, list))
     \/ Land(mem)    \* a field that is not modelled, or an empty revert
  /\ UNCHANGED <<running, trialVars, reqVars, excused, found>>

-------------------------------------------------------------------------------
\* The process dies and launchd starts it again.
Crash ==
  /\ Boot(file)
  /\ found' = IF Load(file).snapshot = NoSnapshot THEN NothingFound ELSE found

RequestStep(r) ==
  \/ \E p \in Plugins, enabled \in BOOLEAN : ToggleRun(r, p, enabled)
  \/ TogglePersist(r) \/ ToggleBack(r)
  \/ \E plan \in Plans : ApplyPersist(r, plan)
  \/ ApplyRun(r) \/ RevertPersist(r) \/ RevertRun(r)
  \/ \E p \in Plugins : ConfirmLookup(r, p) \/ RollbackLookup(r, p)
  \/ Confirm(r) \/ Advance(r) \/ ConfirmPersist(r)
  \/ Rollback(r) \/ RollbackPersist(r) \/ VerdictRun(r)
  \/ ResetRead(r) \/ ResetDisable(r) \/ ResetClear(r) \/ ResetDelete(r)

Next ==
  \/ \E r \in Requests : RequestStep(r)
  \/ \E p \in Plugins, t \in Trials : BeginTrial(p, t)
  \/ \E t \in Trials : Expire(t)
  \/ EditDocument
  \/ Crash

Spec == Init /\ [][Next]_vars

-------------------------------------------------------------------------------
\* The plugins some request is moving.
Moving == UNION {about[r] : r \in Requests}

\* What runs is what the store says and what a restart would bring back, for
\* every plugin no request is moving: they part only when two requests that
\* moved the same plugin overlapped, or an error was reported.
SurvivesRestart ==
  \A p \in Plugins \ (Moving \cup excused) :
    /\ p \in running <=> p \in mem.plugins
    /\ p \in running <=> p \in Load(file).plugins

\* The same without the excuses, and so of the code's promise that a failed
\* toggle puts the running map back and that every verdict reaches both.
RunningIsStored ==
  \A p \in Plugins \ Moving : p \in running <=> p \in mem.plugins

\* A document on disk is the running settings, after failed writes, resets
\* and crashes: a restart in the middle of anything changes no setting.
RestartIsInvisible == file # NoFile => mem = Load(file)

\* The undo point, wherever it has been since, takes the ids of the last
\* applied plan back to what that plan found.
UndoIsExact ==
  mem.snapshot # NoSnapshot =>
    LET undo == mem.snapshot
        back == Revert(mem)
    IN /\ back.profile = found.profile
       /\ back.plugins \cap undo.plugins.named = found.plugins
       /\ back.rulesOff \cap undo.rules.named = found.rulesOff

\* A step that enables a trial which was rolled back, or given up as late.
Revives(t) == state[t] = "disabled" /\ state'[t] = "enabled"

\* A trial that was rolled back or ran out stays disabled, also when the
\* rollback could not be written and its entry is still there to confirm,
\* unless the rollback overlapped the confirm ...
RolledBackStaysOff ==
  [][\A t \in Trials : Revives(t) =>
       \E r \in Requests : trial[r] = t /\ about[r] \cap excused # {}]_vars

\* ... which the lock pagedata.go says they share would rule out.
RollbackIsFinal == [][\A t \in Trials : ~Revives(t)]_vars

\* Of the confirms that race for a trial, one gets as far as the document.
OneConfirm ==
  \A r, q \in Requests :
    /\ pc[r] \in {"confirmPersist", "confirmRun"}
    /\ pc[q] \in {"confirmPersist", "confirmRun"}
    /\ trial[r] = trial[q]
    => r = q

\* A Reset Everything nothing disturbed leaves the process with the settings
\* a fresh install loads.
ResetIsFreshInstall ==
  [][\A r \in Requests : ResetDelete(r) /\ excused = {} => mem' = Fresh]_vars

\* An entry of Core.trials nobody is working on is a trial in flight.
TrialEntryIsTrial ==
  \A p \in Plugins \ Moving :
    trialOf[p] # NoTrial => state[trialOf[p]] = "trial"
=============================================================================
