--------------------------- MODULE EnablementProofs ---------------------------
(***************************************************************************)
(* Proofs about Enablement for any plugins, rules, plans, requests and     *)
(* trials.                                                                 *)
(***************************************************************************)
EXTENDS Enablement, TLAPS

ConfirmSteps == {"confirm", "advance", "confirmPersist", "confirmRun"}
RollbackSteps == {"rollback", "rollbackPersist", "rollbackRun"}
TrialSteps == ConfirmSteps \cup RollbackSteps
ToggleSteps == {"togglePersist", "toggleBack"}
ResetSteps == {"resetDisable", "resetClear", "resetDelete"}

\* Which plugins a request moves, and who else may.
MoversKnown ==
  /\ \A r \in Requests :
       /\ pc[r] = "idle" => about[r] = {}
       /\ pc[r] \in ToggleSteps \cup TrialSteps => \E p \in Plugins : about[r] = {p}
       /\ pc[r] \in ResetSteps => about[r] = Plugins
       /\ pc[r] \in ConfirmSteps => local[r] = about[r]
       /\ pc[r] \in RollbackSteps => local[r] = {}
  /\ \A r, q \in Requests : r # q => about[r] \cap about[q] \subseteq excused

\* How far a request has come with a plugin that is its own.
InStep(r, p) ==
  /\ pc[r] \in ToggleSteps => (p \in running <=> p \in local[r])
  /\ pc[r] \in {"applyRun", "revertRun", "confirmRun", "rollbackRun"} =>
       (p \in mem.plugins <=> p \in local[r])
  /\ pc[r] \in {"confirm", "advance", "confirmPersist", "rollback", "rollbackPersist",
                "resetDisable"} =>
       (p \in running <=> p \in mem.plugins)
  /\ pc[r] = "resetDisable" => (p \in running <=> p \notin local[r])
  /\ pc[r] \in {"resetClear", "resetDelete"} => p \notin running
  /\ pc[r] = "resetDelete" => p \notin mem.plugins

\* A plugin whose requests were not overlapped runs iff the document says so, and a
\* request under way finds it as its own steps left it.
Agreement ==
  \A p \in Plugins \ excused :
    /\ p \notin Moving => (p \in running <=> p \in mem.plugins)
    /\ \A r \in Requests : p \in about[r] => InStep(r, p)
    /\ file = NoFile => p \notin mem.plugins

\* The undo point holds what the last apply found, whatever happened since.
UndoHolds ==
  mem.snapshot # NoSnapshot =>
    /\ mem.snapshot.profile = found.profile
    /\ mem.snapshot.plugins.on = found.plugins
    /\ mem.snapshot.rules.named \ mem.snapshot.rules.on = found.rulesOff

\* A trial object serves one plugin, and a request that holds it moves that one.
TrialsApart ==
  /\ \A r \in Requests : trial[r] # NoTrial <=> pc[r] \in TrialSteps
  /\ \A t \in Trials :
       /\ state[t] = "unused" =>
            /\ \A p \in Plugins : trialOf[p] # t
            /\ \A r \in Requests : trial[r] # t
       /\ \A p, q \in Plugins : trialOf[p] = t /\ trialOf[q] = t => p = q
       /\ \A r \in Requests, p \in Plugins : trial[r] = t /\ trialOf[p] = t => about[r] = {p}
       /\ \A r, q \in Requests : trial[r] = t /\ trial[q] = t => about[r] = about[q]

\* Between the check and the write of a confirm nobody else has moved the trial,
\* unless he overlapped it.
AdvanceChecked ==
  \A r \in Requests : pc[r] = "advance" =>
    state[trial[r]] = "trial" \/ about[r] \cap excused # {}

\* The inductive invariant: the agreement of document and runtime, and why trials keep it.
IInv ==
  /\ TypeOK /\ RestartIsInvisible /\ UndoHolds
  /\ MoversKnown /\ Agreement
  /\ TrialsApart /\ AdvanceChecked

-------------------------------------------------------------------------------
(* The document. *)

\* A plan's verdicts: the ids it names, and which of them it puts on.
LEMMA VerdictIs ==
  ASSUME NEW Ids
  PROVE  /\ \A v \in Verdicts(Ids) : v.named \subseteq Ids /\ v.on \subseteq v.named
         /\ \A N \in SUBSET Ids : \A S \in SUBSET N :
              [named |-> N, on |-> S] \in Verdicts(Ids)
BY DEF Verdicts

\* Every mutation of a document makes a document.
LEMMA DocumentsClosed ==
  ASSUME NEW doc \in Documents
  PROVE  /\ Fresh \in Documents
         /\ \A p \in Plugins : \A S : SetPlugin(doc, p, p \in S) \in Documents
         /\ \A p \in Plugins : /\ SetPlugin(doc, p, TRUE) \in Documents
                              /\ SetPlugin(doc, p, FALSE) \in Documents
         /\ \A k \in Rules, on \in BOOLEAN : SetRule(doc, k, on) \in Documents
         /\ \A list \in ShortcutLists : SetShortcuts(doc, list) \in Documents
         /\ \A plan \in Plans : ApplyPlan(doc, plan) \in Documents
         /\ doc.snapshot # NoSnapshot => Revert(doc) \in Documents
         /\ Cleared(doc) \in Documents
<1>1. Fresh \in Documents
  BY DEF Fresh, Documents, ShortcutLists
<1>2. ASSUME NEW p \in Plugins
      PROVE  /\ \A S : SetPlugin(doc, p, p \in S) \in Documents
             /\ SetPlugin(doc, p, TRUE) \in Documents
             /\ SetPlugin(doc, p, FALSE) \in Documents
  BY <1>2 DEF SetPlugin, Documents
<1>3. ASSUME NEW k \in Rules, NEW on \in BOOLEAN
      PROVE  SetRule(doc, k, on) \in Documents
  BY <1>3 DEF SetRule, Documents
<1>4. \A list \in ShortcutLists : SetShortcuts(doc, list) \in Documents
  BY DEF SetShortcuts, Documents
<1>5. ASSUME NEW plan \in Plans
      PROVE  ApplyPlan(doc, plan) \in Documents
  <2>1. plan.rules \subseteq Rules /\ plan.plugins \subseteq Plugins
    BY EnablementAssumption
  <2>2. /\ [named |-> plan.rules, on |-> plan.rules \ doc.rulesOff] \in Verdicts(Rules)
        /\ [named |-> plan.plugins, on |-> plan.plugins \cap doc.plugins] \in Verdicts(Plugins)
    BY <2>1, VerdictIs
  <2>3. SnapshotTouched(doc, plan) \in Snapshots
    BY <2>2 DEF SnapshotTouched, Snapshots, Documents
  <2> QED BY <2>1, <2>3 DEF ApplyPlan, Documents
<1>6. ASSUME doc.snapshot # NoSnapshot
      PROVE  Revert(doc) \in Documents
  <2>1. /\ doc.snapshot.profile \in {NoProfile, Profile}
        /\ doc.snapshot.rules \in Verdicts(Rules)
        /\ doc.snapshot.plugins \in Verdicts(Plugins)
    BY <1>6 DEF Documents, Snapshots
  <2>2. /\ doc.snapshot.rules.named \subseteq Rules
        /\ doc.snapshot.plugins.on \subseteq Plugins
    BY <2>1, VerdictIs
  <2> QED BY <2>1, <2>2 DEF Revert, Documents
<1>7. Cleared(doc) \in Documents
  BY DEF Cleared, Documents, ShortcutLists
<1> QED BY <1>1, <1>2, <1>3, <1>4, <1>5, <1>6, <1>7

\* What the mutations do to the plugins, and which keep the undo point.
LEMMA PluginSet ==
  ASSUME NEW doc \in Documents, NEW p
  PROVE  /\ SetPlugin(doc, p, TRUE).plugins = doc.plugins \cup {p}
         /\ SetPlugin(doc, p, TRUE).snapshot = doc.snapshot
         /\ SetPlugin(doc, p, FALSE).plugins = doc.plugins \ {p}
         /\ SetPlugin(doc, p, FALSE).snapshot = doc.snapshot
BY DEF SetPlugin, Documents

\* What a single toggle makes of the set of plugins that are on.
LEMMA PluginSetTo ==
  ASSUME NEW doc \in Documents, NEW p, NEW S
  PROVE  /\ SetPlugin(doc, p, p \in S).plugins = (doc.plugins \ {p}) \cup ({p} \cap S)
         /\ SetPlugin(doc, p, p \in S).snapshot = doc.snapshot
BY DEF SetPlugin, Documents

\* What each mutation of the document makes of the plugins it has on.
LEMMA DocumentPlugins ==
  ASSUME NEW doc \in Documents
  PROVE  /\ \A k \in Rules, on \in BOOLEAN :
              /\ SetRule(doc, k, on).plugins = doc.plugins
              /\ SetRule(doc, k, on).snapshot = doc.snapshot
         /\ \A list \in ShortcutLists :
              /\ SetShortcuts(doc, list).plugins = doc.plugins
              /\ SetShortcuts(doc, list).snapshot = doc.snapshot
         /\ \A plan \in Plans :
              /\ ApplyPlan(doc, plan).plugins = doc.plugins \cup plan.plugins
              /\ ApplyPlan(doc, plan).snapshot = SnapshotTouched(doc, plan)
         /\ Revert(doc).plugins =
              (doc.plugins \ doc.snapshot.plugins.named) \cup doc.snapshot.plugins.on
         /\ Revert(doc).snapshot = NoSnapshot
         /\ Cleared(doc).plugins = {}
         /\ Cleared(doc).snapshot = doc.snapshot
<1> USE DEF Documents
<1>1. \A k \in Rules, on \in BOOLEAN :
        /\ SetRule(doc, k, on).plugins = doc.plugins
        /\ SetRule(doc, k, on).snapshot = doc.snapshot
  BY DEF SetRule
<1>2. \A list \in ShortcutLists :
        /\ SetShortcuts(doc, list).plugins = doc.plugins
        /\ SetShortcuts(doc, list).snapshot = doc.snapshot
  BY DEF SetShortcuts
<1>3. \A plan \in Plans :
        /\ ApplyPlan(doc, plan).plugins = doc.plugins \cup plan.plugins
        /\ ApplyPlan(doc, plan).snapshot = SnapshotTouched(doc, plan)
  BY DEF ApplyPlan
<1>4. /\ Revert(doc).plugins =
           (doc.plugins \ doc.snapshot.plugins.named) \cup doc.snapshot.plugins.on
      /\ Revert(doc).snapshot = NoSnapshot
  BY DEF Revert
<1>5. Cleared(doc).plugins = {} /\ Cleared(doc).snapshot = doc.snapshot
  BY DEF Cleared
<1> QED BY <1>1, <1>2, <1>3, <1>4, <1>5

\* A document that was stored is loaded as it is.
LEMMA LoadIs ==
  /\ \A doc \in Documents : Load(doc) = doc
  /\ Load(NoFile) = Fresh /\ Load(BadFile) = Fresh
BY EnablementAssumption DEF Load

\* Every step keeps the types.
LEMMA TypeKeeps ==
  ASSUME TypeOK, [Next]_vars
  PROVE  TypeOK'
<1> USE EnablementAssumption DEF TypeOK, Steps, storeVars, trialVars, reqVars
<1>a. /\ Fresh \in Documents /\ mem.plugins \subseteq Plugins
      /\ \A p \in Plugins : \A S : SetPlugin(mem, p, p \in S) \in Documents
      /\ \A p \in Plugins : /\ SetPlugin(mem, p, TRUE) \in Documents
                           /\ SetPlugin(mem, p, FALSE) \in Documents
      /\ \A k \in Rules, on \in BOOLEAN : SetRule(mem, k, on) \in Documents
      /\ \A list \in ShortcutLists : SetShortcuts(mem, list) \in Documents
      /\ \A plan \in Plans : ApplyPlan(mem, plan) \in Documents
      /\ mem.snapshot # NoSnapshot => Revert(mem) \in Documents
      /\ Cleared(mem) \in Documents
  BY DocumentsClosed DEF Documents
<1> USE <1>a
<1>1. CASE \E r \in Requests, p \in Plugins, enabled \in BOOLEAN : ToggleRun(r, p, enabled)
  BY <1>1 DEF ToggleRun, Take, Put
<1>2. CASE \E r \in Requests : TogglePersist(r)
  BY <1>2 DEF TogglePersist, Land, Reply, Goto
<1>3. CASE \E r \in Requests : ToggleBack(r)
  BY <1>3 DEF ToggleBack, Put, Reply
<1>4. CASE \E r \in Requests, plan \in Plans : ApplyPersist(r, plan)
  <2>1. \A plan \in Plans : Verdict(mem, plan) \in
          [profile : {NoProfile, Profile}, rulesOff : SUBSET Rules, plugins : SUBSET Plugins]
    BY DEF Verdict, Documents
  <2> QED BY <1>4, <2>1 DEF ApplyPersist, Take, Land
<1>5. CASE \E r \in Requests : ApplyRun(r)
  BY <1>5 DEF ApplyRun, Put, Reply
<1>6. CASE \E r \in Requests : RevertPersist(r)
  <2>1. mem.snapshot # NoSnapshot =>
          mem.snapshot.plugins.named \subseteq Plugins /\ mem.snapshot.plugins.on \subseteq Plugins
    BY VerdictIs DEF Documents, Snapshots
  <2> QED BY <1>6, <2>1 DEF RevertPersist, Take, Land, NothingFound
<1>7. CASE \E r \in Requests : RevertRun(r)
  BY <1>7 DEF RevertRun, Put, Reply
<1>8. CASE \E r \in Requests, p \in Plugins : ConfirmLookup(r, p)
  BY <1>8 DEF ConfirmLookup, Lookup, Take
<1>9. CASE \E r \in Requests, p \in Plugins : RollbackLookup(r, p)
  BY <1>9 DEF RollbackLookup, Lookup, Take
<1>10. CASE \E r \in Requests : Confirm(r)
  BY <1>10 DEF Confirm, Goto, Reply
<1>11. CASE \E r \in Requests : Advance(r)
  <2>1. state' \in [Trials -> {"unused", "trial", "enabled", "disabled"}]
    BY <1>11 DEF Advance
  <2> QED BY <1>11, <2>1 DEF Advance, Goto
<1>12. CASE \E r \in Requests : ConfirmPersist(r)
  <2> PICK r \in Requests : ConfirmPersist(r)
    BY <1>12
  <2>2. CASE UNCHANGED storeVars
    BY <2>2 DEF ConfirmPersist, Goto, Reply
  <2>3. CASE \E p \in about[r] : Land(SetPlugin(mem, p, TRUE))
    <3> PICK p \in about[r] : Land(SetPlugin(mem, p, TRUE))
      BY <2>3
    <3>1. SetPlugin(mem, p, TRUE) \in Documents
      BY <1>a
    <3> QED BY <3>1 DEF ConfirmPersist, Goto, Reply, Land
  <2> QED BY <2>2, <2>3 DEF ConfirmPersist
<1>13. CASE \E r \in Requests : Rollback(r)
  BY <1>13, ZenonT(30) DEF Rollback, Goto
<1>14. CASE \E r \in Requests : RollbackPersist(r)
  <2> PICK r \in Requests : RollbackPersist(r)
    BY <1>14
  <2>2. CASE UNCHANGED storeVars
    BY <2>2 DEF RollbackPersist, Goto, Reply
  <2>3. CASE \E p \in about[r] : Land(SetPlugin(mem, p, FALSE))
    <3> PICK p \in about[r] : Land(SetPlugin(mem, p, FALSE))
      BY <2>3
    <3>1. SetPlugin(mem, p, FALSE) \in Documents
      BY <1>a
    <3> QED BY <3>1 DEF RollbackPersist, Goto, Reply, Land
  <2> QED BY <2>2, <2>3 DEF RollbackPersist
<1>15. CASE \E r \in Requests : VerdictRun(r)
  BY <1>15 DEF VerdictRun, Put, Reply
<1>16. CASE \E r \in Requests : ResetRead(r)
  BY <1>16 DEF ResetRead, Take
<1>17. CASE \E r \in Requests : ResetDisable(r)
  BY <1>17 DEF ResetDisable, Goto
<1>18. CASE \E r \in Requests : ResetClear(r)
  BY <1>18 DEF ResetClear, Land
<1>19. CASE \E r \in Requests : ResetDelete(r)
  BY <1>19 DEF ResetDelete, Reply
<1>20. CASE \E p \in Plugins, t \in Trials : BeginTrial(p, t)
  BY <1>20 DEF BeginTrial
<1>21. CASE \E t \in Trials : Expire(t)
  BY <1>21 DEF Expire
<1>22. CASE EditDocument
  BY <1>22 DEF EditDocument, Land
<1>23. CASE Crash
  <2>1. mem' \in Documents /\ running' \subseteq Plugins
    BY <1>23, LoadIs DEF Crash, Boot, Documents
  <2>2. found' \in [profile : {NoProfile, Profile}, rulesOff : SUBSET Rules,
                  plugins : SUBSET Plugins]
    BY <1>23 DEF Crash, NothingFound
  <2> QED BY <1>23, <2>1, <2>2 DEF Crash, Boot
<1>24. CASE UNCHANGED vars
  BY <1>24 DEF vars
<1> QED
  BY <1>1, <1>2, <1>3, <1>4, <1>5, <1>6, <1>7, <1>8, <1>9, <1>10, <1>11, <1>12,
     <1>13, <1>14, <1>15, <1>16, <1>17, <1>18, <1>19, <1>20, <1>21, <1>22, <1>23,
     <1>24
  DEF Next, RequestStep

\* The file is the store's document, and the undo point what was found.
LEMMA DocumentKeeps ==
  ASSUME TypeOK, TypeOK', RestartIsInvisible, UndoHolds, [Next]_vars
  PROVE  RestartIsInvisible' /\ UndoHolds'
<1> USE DEF TypeOK, RestartIsInvisible, UndoHolds, storeVars, trialVars, reqVars
<1>a. \A doc \in Documents : Load(doc) = doc
  BY LoadIs
<1>b. /\ \A k \in Rules, on \in BOOLEAN : SetRule(mem, k, on).snapshot = mem.snapshot
      /\ \A list \in ShortcutLists : SetShortcuts(mem, list).snapshot = mem.snapshot
      /\ \A plan \in Plans : ApplyPlan(mem, plan).snapshot = SnapshotTouched(mem, plan)
      /\ Revert(mem).snapshot = NoSnapshot
      /\ Cleared(mem).snapshot = mem.snapshot
  BY DocumentPlugins
<1> USE <1>a, <1>b
<1>1. CASE \E r \in Requests, p \in Plugins, enabled \in BOOLEAN : ToggleRun(r, p, enabled)
  BY <1>1 DEF ToggleRun, Take, Put
<1>2. CASE \E r \in Requests : TogglePersist(r)
  <2> PICK r \in Requests : TogglePersist(r)
    BY <1>2
  <2>2. CASE UNCHANGED storeVars
    BY <2>2 DEF TogglePersist, Goto, Reply
  <2>3. CASE \E p \in about[r] : Land(SetPlugin(mem, p, p \in local[r]))
    <3> PICK p \in about[r] : Land(SetPlugin(mem, p, p \in local[r]))
      BY <2>3
    <3>1. SetPlugin(mem, p, p \in local[r]).snapshot = mem.snapshot
      BY PluginSetTo
    <3> QED BY <3>1 DEF TogglePersist, Goto, Reply, Land
  <2> QED BY <2>2, <2>3 DEF TogglePersist
<1>3. CASE \E r \in Requests : ToggleBack(r)
  BY <1>3 DEF ToggleBack, Put, Reply
<1>4. CASE \E r \in Requests, plan \in Plans : ApplyPersist(r, plan)
  <2> PICK r \in Requests, plan \in Plans : ApplyPersist(r, plan)
    BY <1>4
  <2>1. /\ mem'.snapshot = SnapshotTouched(mem, plan)
        /\ found' = Verdict(mem, plan)
        /\ file' = mem'
    BY DEF ApplyPersist, Land
  <2>2. UndoHolds'
    BY <2>1 DEF SnapshotTouched, Verdict
  <2> QED BY <2>1, <2>2
<1>5. CASE \E r \in Requests : ApplyRun(r)
  BY <1>5 DEF ApplyRun, Put, Reply
<1>6. CASE \E r \in Requests : RevertPersist(r)
  BY <1>6 DEF RevertPersist, Take, Land
<1>7. CASE \E r \in Requests : RevertRun(r)
  BY <1>7 DEF RevertRun, Put, Reply
<1>8. CASE \E r \in Requests, p \in Plugins : ConfirmLookup(r, p)
  BY <1>8 DEF ConfirmLookup, Lookup, Take
<1>9. CASE \E r \in Requests, p \in Plugins : RollbackLookup(r, p)
  BY <1>9 DEF RollbackLookup, Lookup, Take
<1>10. CASE \E r \in Requests : Confirm(r)
  BY <1>10 DEF Confirm, Goto, Reply
<1>11. CASE \E r \in Requests : Advance(r)
  BY <1>11 DEF Advance, Goto
<1>12. CASE \E r \in Requests : ConfirmPersist(r)
  <2> PICK r \in Requests : ConfirmPersist(r)
    BY <1>12
  <2>2. CASE UNCHANGED storeVars
    BY <2>2 DEF ConfirmPersist, Goto, Reply
  <2>3. CASE \E p \in about[r] : Land(SetPlugin(mem, p, TRUE))
    <3> PICK p \in about[r] : Land(SetPlugin(mem, p, TRUE))
      BY <2>3
    <3>1. SetPlugin(mem, p, TRUE).snapshot = mem.snapshot
      BY PluginSet
    <3> QED BY <3>1 DEF ConfirmPersist, Goto, Reply, Land
  <2> QED BY <2>2, <2>3 DEF ConfirmPersist
<1>13. CASE \E r \in Requests : Rollback(r)
  BY <1>13 DEF Rollback, Goto
<1>14. CASE \E r \in Requests : RollbackPersist(r)
  <2> PICK r \in Requests : RollbackPersist(r)
    BY <1>14
  <2>2. CASE UNCHANGED storeVars
    BY <2>2 DEF RollbackPersist, Goto, Reply
  <2>3. CASE \E p \in about[r] : Land(SetPlugin(mem, p, FALSE))
    <3> PICK p \in about[r] : Land(SetPlugin(mem, p, FALSE))
      BY <2>3
    <3>1. SetPlugin(mem, p, FALSE).snapshot = mem.snapshot
      BY PluginSet
    <3> QED BY <3>1 DEF RollbackPersist, Goto, Reply, Land
  <2> QED BY <2>2, <2>3 DEF RollbackPersist
<1>15. CASE \E r \in Requests : VerdictRun(r)
  BY <1>15 DEF VerdictRun, Put, Reply
<1>16. CASE \E r \in Requests : ResetRead(r)
  BY <1>16 DEF ResetRead, Take
<1>17. CASE \E r \in Requests : ResetDisable(r)
  BY <1>17 DEF ResetDisable, Goto
<1>18. CASE \E r \in Requests : ResetClear(r)
  BY <1>18 DEF ResetClear, Land
<1>19. CASE \E r \in Requests : ResetDelete(r)
  BY <1>19 DEF ResetDelete, Reply
<1>20. CASE \E p \in Plugins, t \in Trials : BeginTrial(p, t)
  BY <1>20 DEF BeginTrial
<1>21. CASE \E t \in Trials : Expire(t)
  BY <1>21 DEF Expire
<1>22. CASE EditDocument
  BY <1>22 DEF EditDocument, Land
<1>23. CASE Crash
  <2>1. file' = file /\ mem' = Load(file)
    BY <1>23 DEF Crash, Boot
  <2>2. RestartIsInvisible'
    BY <2>1
  <2>3. Fresh.snapshot = NoSnapshot
    BY DEF Fresh
  <2>4. CASE Load(file).snapshot = NoSnapshot
    BY <2>1, <2>4
  <2>5. CASE Load(file).snapshot # NoSnapshot
    <3>1. file # NoFile
      BY <2>3, <2>5, LoadIs
    <3>2. mem' = mem /\ found' = found
      BY <1>23, <2>1, <2>5, <3>1 DEF Crash
    <3> QED BY <2>2, <3>2
  <2> QED BY <2>4, <2>5, <2>2
<1>24. CASE UNCHANGED vars
  BY <1>24 DEF vars
<1> QED
  BY <1>1, <1>2, <1>3, <1>4, <1>5, <1>6, <1>7, <1>8, <1>9, <1>10, <1>11, <1>12,
     <1>13, <1>14, <1>15, <1>16, <1>17, <1>18, <1>19, <1>20, <1>21, <1>22, <1>23,
     <1>24
  DEF Next, RequestStep

\* Requests that move the same plugin are known to, and each knows its plugins.
LEMMA MoversKeep ==
  ASSUME TypeOK, TypeOK', MoversKnown, [Next]_vars
  PROVE  MoversKnown'
<1> USE DEF TypeOK, MoversKnown, Steps, ToggleSteps, TrialSteps, ConfirmSteps, RollbackSteps,
  ResetSteps, storeVars, trialVars, reqVars
<1>a. \A r \in Requests : \A p \in Plugins :
        p \in Busy(r) <=> \E q \in Requests : q # r /\ pc[q] # "idle" /\ p \in about[q]
  BY DEF Busy
<1> USE <1>a
<1>1. CASE \E r \in Requests, p \in Plugins, enabled \in BOOLEAN : ToggleRun(r, p, enabled)
  BY <1>1 DEF ToggleRun, Take, Put
<1>2. CASE \E r \in Requests : TogglePersist(r)
  BY <1>2, SMTT(30) DEF TogglePersist, Land, Reply, Goto
<1>3. CASE \E r \in Requests : ToggleBack(r)
  BY <1>3 DEF ToggleBack, Put, Reply
<1>4. CASE \E r \in Requests, plan \in Plans : ApplyPersist(r, plan)
  BY <1>4 DEF ApplyPersist, Take, Land
<1>5. CASE \E r \in Requests : ApplyRun(r)
  BY <1>5 DEF ApplyRun, Put, Reply
<1>6. CASE \E r \in Requests : RevertPersist(r)
  BY <1>6 DEF RevertPersist, Take, Land
<1>7. CASE \E r \in Requests : RevertRun(r)
  BY <1>7 DEF RevertRun, Put, Reply
<1>8. CASE \E r \in Requests, p \in Plugins : ConfirmLookup(r, p)
  BY <1>8 DEF ConfirmLookup, Lookup, Take
<1>9. CASE \E r \in Requests, p \in Plugins : RollbackLookup(r, p)
  BY <1>9 DEF RollbackLookup, Lookup, Take
<1>10. CASE \E r \in Requests : Confirm(r)
  BY <1>10 DEF Confirm, Goto, Reply
<1>11. CASE \E r \in Requests : Advance(r)
  BY <1>11 DEF Advance, Goto
<1>12. CASE \E r \in Requests : ConfirmPersist(r)
  <2> PICK r \in Requests : ConfirmPersist(r)
    BY <1>12
  <2>1. \/ Goto(r, "confirmRun") \/ Reply(r, {})
    BY DEF ConfirmPersist
  <2> QED BY <2>1 DEF ConfirmPersist, Goto, Reply
<1>13. CASE \E r \in Requests : Rollback(r)
  BY <1>13 DEF Rollback, Goto
<1>14. CASE \E r \in Requests : RollbackPersist(r)
  <2> PICK r \in Requests : RollbackPersist(r)
    BY <1>14
  <2>1. CASE Goto(r, "rollbackRun")
    BY <2>1 DEF RollbackPersist, Goto
  <2>2. CASE Reply(r, {})
    BY <2>2 DEF RollbackPersist, Reply
  <2> QED BY <2>1, <2>2 DEF RollbackPersist
<1>15. CASE \E r \in Requests : VerdictRun(r)
  BY <1>15 DEF VerdictRun, Put, Reply
<1>16. CASE \E r \in Requests : ResetRead(r)
  BY <1>16 DEF ResetRead, Take
<1>17. CASE \E r \in Requests : ResetDisable(r)
  BY <1>17 DEF ResetDisable, Goto
<1>18. CASE \E r \in Requests : ResetClear(r)
  BY <1>18 DEF ResetClear, Land
<1>19. CASE \E r \in Requests : ResetDelete(r)
  BY <1>19 DEF ResetDelete, Reply
<1>20. CASE \E p \in Plugins, t \in Trials : BeginTrial(p, t)
  BY <1>20 DEF BeginTrial
<1>21. CASE \E t \in Trials : Expire(t)
  BY <1>21 DEF Expire
<1>22. CASE EditDocument
  BY <1>22 DEF EditDocument, Land
<1>23. CASE Crash
  BY <1>23 DEF Crash, Boot
<1>24. CASE UNCHANGED vars
  BY <1>24 DEF vars
<1> QED
  BY <1>1, <1>2, <1>3, <1>4, <1>5, <1>6, <1>7, <1>8, <1>9, <1>10, <1>11, <1>12,
     <1>13, <1>14, <1>15, <1>16, <1>17, <1>18, <1>19, <1>20, <1>21, <1>22, <1>23,
     <1>24
  DEF Next, RequestStep

\* Where the control of a request goes, and that no other's does.
OthersStay(r) ==
  \A q \in Requests \ {r} :
    pc'[q] = pc[q] /\ about'[q] = about[q] /\ local'[q] = local[q]

\* The plugins r moves are nobody else's, so a step of r has only to leave those
\* as far as r has come, and the others as they were.
StepOf(r) ==
  /\ OthersStay(r) /\ excused \subseteq excused'
  /\ \A p \in Plugins : p \notin about[r] /\ p \notin about'[r] =>
       /\ p \in running' <=> p \in running
       /\ p \in mem'.plugins <=> p \in mem.plugins
  /\ \A p \in Plugins : p \notin excused' /\ p \in about'[r] => InStep(r, p)'
  /\ \A p \in Plugins : p \notin excused' /\ p \in about[r] /\ p \notin about'[r] =>
       (p \in running' <=> p \in mem'.plugins)
  /\ file' = NoFile =>
       \/ file = NoFile /\ mem' = mem
       \/ \A p \in Plugins : p \notin excused' => p \notin mem'.plugins

\* A step of one handler that leaves the other plugins as they are keeps the
\* agreement of what runs with what is stored.
LEMMA OneActor ==
  ASSUME TypeOK, TypeOK', MoversKnown, MoversKnown', Agreement,
         NEW r \in Requests, StepOf(r)
  PROVE  Agreement'
<1> SUFFICES ASSUME NEW p \in Plugins, p \notin excused'
             PROVE  /\ p \notin Moving' => (p \in running' <=> p \in mem'.plugins)
                    /\ \A q \in Requests : p \in about'[q] => InStep(q, p)'
                    /\ file' = NoFile => p \notin mem'.plugins
  BY DEF Agreement
<1>1. /\ p \notin excused
      /\ p \in Moving <=> \E q \in Requests : p \in about[q]
      /\ p \in Moving' <=> \E q \in Requests : p \in about'[q]
  BY DEF StepOf, Moving
<1>2. /\ p \notin Moving => (p \in running <=> p \in mem.plugins)
      /\ \A q \in Requests : p \in about[q] => InStep(q, p)
      /\ file = NoFile => p \notin mem.plugins
  BY <1>1 DEF Agreement
<1>3. \A q \in Requests \ {r} :
        pc'[q] = pc[q] /\ about'[q] = about[q] /\ local'[q] = local[q]
  BY DEF StepOf, OthersStay
<1>4. file' = NoFile => p \notin mem'.plugins
  BY <1>2 DEF StepOf
<1>5. CASE p \in about[r] \/ p \in about'[r]
  <2>1. \A q \in Requests \ {r} : p \notin about'[q]
    BY <1>1, <1>3, <1>5 DEF MoversKnown
  <2>2. p \in about'[r] => InStep(r, p)'
    BY DEF StepOf
  <2>3. p \notin Moving' => (p \in running' <=> p \in mem'.plugins)
    BY <1>1, <1>5 DEF StepOf
  <2> QED BY <1>4, <2>1, <2>2, <2>3
<1>6. CASE p \notin about[r] /\ p \notin about'[r]
  <2>1. (p \in running' <=> p \in running) /\ (p \in mem'.plugins <=> p \in mem.plugins)
    BY <1>6 DEF StepOf
  <2>2. p \notin Moving' => (p \in running' <=> p \in mem'.plugins)
    BY <1>1, <1>2, <1>3, <1>6, <2>1
  <2>3. ASSUME NEW q \in Requests, p \in about'[q]
        PROVE  InStep(q, p)'
    <3>1. q # r /\ InStep(q, p)
      BY <1>2, <1>3, <1>6, <2>3
    <3> QED BY <1>3, <2>1, <3>1 DEF InStep
  <2> QED BY <1>4, <2>2, <2>3
<1> QED BY <1>5, <1>6

\* Where a request is after its step.
LEMMA GoesTo ==
  ASSUME TypeOK, NEW r \in Requests, NEW step, Goto(r, step)
  PROVE  /\ OthersStay(r) /\ excused' = excused
         /\ pc'[r] = step /\ about'[r] = about[r] /\ local'[r] = local[r]
BY DEF TypeOK, Goto, OthersStay

\* A reply ends the request, and what it is to blame for is excused.
LEMMA Replies ==
  ASSUME TypeOK, NEW r \in Requests, NEW blame, Reply(r, blame)
  PROVE  /\ OthersStay(r) /\ excused' = excused \cup blame
         /\ pc'[r] = "idle" /\ about'[r] = {} /\ local'[r] = {}
BY DEF TypeOK, Reply, OthersStay

\* A request that starts finds its plugins in agreement, unless it overlaps another.
LEMMA TakeFinds ==
  ASSUME TypeOK, MoversKnown, Agreement, NEW r \in Requests,
         NEW step, NEW ps \in SUBSET Plugins, NEW verdict, Take(r, step, ps, verdict)
  PROVE  /\ OthersStay(r) /\ excused \subseteq excused'
         /\ pc[r] = "idle" /\ about[r] = {}
         /\ pc'[r] = step /\ about'[r] = ps /\ local'[r] = verdict
         /\ \A p \in Plugins : p \notin excused' /\ p \in ps =>
              (p \in running <=> p \in mem.plugins)
<1>1. about[r] = {}
  BY DEF Take, MoversKnown
<1>2. ASSUME NEW p \in ps, p \notin excused'
      PROVE  p \in running <=> p \in mem.plugins
  <2>1. p \notin excused /\ p \notin Busy(r)
    BY <1>2 DEF Take
  <2>2. \A q \in Requests : p \notin about[q]
    BY <1>1, <2>1 DEF Busy, MoversKnown
  <2> QED BY <2>1, <2>2 DEF Agreement, Moving
<1>3. /\ OthersStay(r) /\ excused \subseteq excused'
      /\ pc[r] = "idle"
      /\ pc'[r] = step /\ about'[r] = ps /\ local'[r] = verdict
  BY DEF TypeOK, Take, OthersStay
<1> QED BY <1>1, <1>2, <1>3

\* Every step keeps the agreement.
LEMMA AgreementKeeps ==
  ASSUME TypeOK, TypeOK', MoversKnown, MoversKnown', Agreement, [Next]_vars
  PROVE  Agreement'
<1> USE DEF storeVars, trialVars, reqVars
<1>a. /\ \A k \in Rules, on \in BOOLEAN : SetRule(mem, k, on).plugins = mem.plugins
      /\ \A list \in ShortcutLists : SetShortcuts(mem, list).plugins = mem.plugins
      /\ \A plan \in Plans : ApplyPlan(mem, plan).plugins = mem.plugins \cup plan.plugins
      /\ Revert(mem).plugins =
           (mem.plugins \ mem.snapshot.plugins.named) \cup mem.snapshot.plugins.on
      /\ Cleared(mem).plugins = {}
  BY DocumentPlugins DEF TypeOK
<1>b. /\ \A d \in Documents : d # NoFile
      /\ \A p \in Plugins, r \in Requests : p \in about[r] /\ p \notin excused => InStep(r, p)
  BY EnablementAssumption DEF Agreement
<1>1. CASE \E r \in Requests, p \in Plugins, enabled \in BOOLEAN : ToggleRun(r, p, enabled)
  <2> PICK r \in Requests, p \in Plugins, enabled \in BOOLEAN : ToggleRun(r, p, enabled)
    BY <1>1
  <2>0. PICK on : on = (IF enabled THEN {p} ELSE {})
    OBVIOUS
  <2>1. Take(r, "togglePersist", {p}, on)
    BY <2>0 DEF ToggleRun
  <2>2. {p} \in SUBSET Plugins
    OBVIOUS
  <2>3. /\ OthersStay(r) /\ excused \subseteq excused'
        /\ about[r] = {}
        /\ pc'[r] = "togglePersist" /\ about'[r] = {p}
        /\ local'[r] = on
        /\ \A x \in Plugins : x \notin excused' /\ x \in {p} =>
             (x \in running <=> x \in mem.plugins)
    BY <2>1, <2>2, TakeFinds, ZenonT(30)
  <2>4. running' = Put(running, {p}, on) /\ UNCHANGED storeVars
    BY <1>a, <2>0 DEF ToggleRun, Land
  <2>5. mem' \in Documents /\ mem' # NoFile
    BY <1>b DEF TypeOK
  <2>6. StepOf(r)
    BY <2>2, <2>3, <2>4, <2>5 DEF StepOf, OthersStay, InStep, ToggleSteps, Put
  <2> QED BY <2>6, OneActor
<1>2. CASE \E r \in Requests : TogglePersist(r)
  <2> PICK r \in Requests : TogglePersist(r)
    BY <1>2
  <2> SUFFICES StepOf(r)
    BY OneActor
  <2>1. PICK p \in Plugins : about[r] = {p}
    BY
    DEF TogglePersist, MoversKnown, ToggleSteps, TrialSteps, ConfirmSteps,
        RollbackSteps
  <2>2. SetPlugin(mem, p, p \in local[r]).plugins = (mem.plugins \ {p}) \cup ({p} \cap local[r])
    BY PluginSetTo DEF TypeOK, SetPlugin, Documents
  <2>3. CASE Land(SetPlugin(mem, p, p \in local[r])) /\ Reply(r, {})
    <3>1. /\ OthersStay(r) /\ excused' = excused
          /\ pc'[r] = "idle" /\ about'[r] = {} /\ local'[r] = {}
      BY <2>3, Replies
    <3>2. /\ UNCHANGED running
          /\ mem'.plugins = (mem.plugins \ {p}) \cup ({p} \cap local[r]) /\ file' = mem'
          /\ pc[r] = "togglePersist"
      BY <2>1, <2>2, <2>3
      DEF TogglePersist, Land, MoversKnown, ConfirmSteps, RollbackSteps
    <3>3. mem' # NoFile
      BY <1>b DEF TypeOK
    <3>4. InStep(r, p) \/ p \in excused
      BY <1>b, <2>1
    <3>5. OthersStay(r) /\ excused \subseteq excused'
      BY <2>1, <3>1, <3>2, <3>3, <3>4
    <3>6. \A x \in Plugins : x \notin about[r] /\ x \notin about'[r] =>
           /\ x \in running' <=> x \in running
           /\ x \in mem'.plugins <=> x \in mem.plugins
      BY <2>1, <3>1, <3>2, <3>3, <3>4 DEF Put
    <3>7. \A x \in Plugins : x \notin excused' /\ x \in about'[r] => InStep(r, x)'
      BY <2>1, <3>1, <3>2, <3>3, <3>4 DEF InStep, ToggleSteps, Put
    <3>8. \A x \in Plugins : x \notin excused' /\ x \in about[r] /\ x \notin about'[r] =>
           (x \in running' <=> x \in mem'.plugins)
      BY <2>1, <3>1, <3>2, <3>3, <3>4 DEF InStep, ToggleSteps, Put
    <3>9. file' = NoFile =>
           \/ file = NoFile /\ mem' = mem
           \/ \A x \in Plugins : x \notin excused' => x \notin mem'.plugins
      BY <2>1, <3>1, <3>2, <3>3, <3>4
    <3> QED BY <3>5, <3>6, <3>7, <3>8, <3>9 DEF StepOf
  <2>4. CASE Goto(r, "toggleBack") /\ UNCHANGED storeVars
    <3>1. /\ OthersStay(r) /\ excused' = excused
          /\ pc'[r] = "toggleBack" /\ about'[r] = about[r] /\ local'[r] = local[r]
      BY <2>4, GoesTo
    <3>2. UNCHANGED running /\ UNCHANGED storeVars /\ pc[r] = "togglePersist"
      BY <2>4 DEF TogglePersist
    <3>4. InStep(r, p) \/ p \in excused
      BY <1>b, <2>1
    <3>5. OthersStay(r) /\ excused \subseteq excused'
      BY <2>1, <3>1, <3>2, <3>4
    <3>6. \A x \in Plugins : x \notin about[r] /\ x \notin about'[r] =>
           /\ x \in running' <=> x \in running
           /\ x \in mem'.plugins <=> x \in mem.plugins
      BY <2>1, <3>1, <3>2, <3>4 DEF Put
    <3>7. \A x \in Plugins : x \notin excused' /\ x \in about'[r] => InStep(r, x)'
      BY <2>1, <3>1, <3>2, <3>4 DEF InStep, ToggleSteps, Put
    <3>8. \A x \in Plugins : x \notin excused' /\ x \in about[r] /\ x \notin about'[r] =>
           (x \in running' <=> x \in mem'.plugins)
      BY <2>1, <3>1, <3>2, <3>4 DEF InStep, ToggleSteps, Put
    <3>9. file' = NoFile =>
           \/ file = NoFile /\ mem' = mem
           \/ \A x \in Plugins : x \notin excused' => x \notin mem'.plugins
      BY <2>1, <3>1, <3>2, <3>4
    <3> QED BY <3>5, <3>6, <3>7, <3>8, <3>9 DEF StepOf
  <2>5. CASE (\E q \in about[r] : Land(SetPlugin(mem, q, q \in local[r]))) /\ Reply(r, {})
    <3> PICK q \in about[r] : Land(SetPlugin(mem, q, q \in local[r]))
      BY <2>5
    <3>1. q = p
      BY <2>1
    <3> QED BY <2>3, <2>5, <3>1
  <2> QED BY <2>4, <2>5 DEF TogglePersist
<1>3. CASE \E r \in Requests : ToggleBack(r)
  <2> PICK r \in Requests : ToggleBack(r)
    BY <1>3
  <2>1. StepOf(r)
    BY <1>a, <1>b
    DEF TypeOK, MoversKnown, ToggleSteps, TrialSteps, ConfirmSteps, RollbackSteps,
       ResetSteps, StepOf, OthersStay, InStep, ToggleBack, Put, Reply
  <2> QED BY <2>1, OneActor
<1>4. CASE \E r \in Requests, plan \in Plans : ApplyPersist(r, plan)
  <2> PICK r \in Requests, plan \in Plans : ApplyPersist(r, plan)
    BY <1>4
  <2>p. PICK ps \in SUBSET Plugins : ps = plan.plugins
    BY EnablementAssumption
  <2>1. Take(r, "applyRun", ps, ps)
    BY <2>p DEF ApplyPersist
  <2>2. /\ OthersStay(r) /\ excused \subseteq excused'
        /\ about[r] = {}
        /\ pc'[r] = "applyRun" /\ about'[r] = ps /\ local'[r] = ps
    <3>1. ps \in SUBSET Plugins
      BY <2>p
    <3> QED BY <2>1, <3>1, TakeFinds
  <2>3. UNCHANGED running /\ mem'.plugins = mem.plugins \cup ps /\ file' = mem'
    BY <2>p, <1>a DEF ApplyPersist, Land
  <2>4. mem' # NoFile
    BY <1>b DEF TypeOK
  <2>5. StepOf(r)
    <3>1. OthersStay(r) /\ excused \subseteq excused'
      BY <2>2, <2>3, <2>4
    <3>2. \A x \in Plugins : x \notin about[r] /\ x \notin about'[r] =>
           /\ x \in running' <=> x \in running
           /\ x \in mem'.plugins <=> x \in mem.plugins
      BY <2>2, <2>3, <2>4 DEF Put
    <3>3. \A x \in Plugins : x \notin excused' /\ x \in about'[r] => InStep(r, x)'
      BY <2>2, <2>3, <2>4 DEF InStep, ToggleSteps, Put
    <3>4. \A x \in Plugins : x \notin excused' /\ x \in about[r] /\ x \notin about'[r] =>
           (x \in running' <=> x \in mem'.plugins)
      BY <2>2, <2>3, <2>4 DEF InStep, ToggleSteps, Put
    <3>5. file' = NoFile =>
           \/ file = NoFile /\ mem' = mem
           \/ \A x \in Plugins : x \notin excused' => x \notin mem'.plugins
      BY <2>2, <2>3, <2>4
    <3> QED BY <3>1, <3>2, <3>3, <3>4, <3>5 DEF StepOf
  <2> QED BY <2>5, OneActor
<1>5. CASE \E r \in Requests : ApplyRun(r)
  <2> PICK r \in Requests : ApplyRun(r)
    BY <1>5
  <2>1. StepOf(r)
    BY <1>a, <1>b
    DEF TypeOK, MoversKnown, ToggleSteps, TrialSteps, ConfirmSteps, RollbackSteps,
       ResetSteps, StepOf, OthersStay, InStep, ApplyRun, Put, Reply
  <2> QED BY <2>1, OneActor
<1>6. CASE \E r \in Requests : RevertPersist(r)
  <2> PICK r \in Requests : RevertPersist(r)
    BY <1>6
  <2>v. mem.snapshot.plugins \in Verdicts(Plugins)
    BY DEF RevertPersist, TypeOK, Documents, Snapshots
  <2>w. /\ mem.snapshot.plugins.named \subseteq Plugins
        /\ mem.snapshot.plugins.on \subseteq mem.snapshot.plugins.named
    BY <2>v, VerdictIs
  <2>p. PICK named \in SUBSET Plugins, on \in SUBSET Plugins :
          named = mem.snapshot.plugins.named /\ on = mem.snapshot.plugins.on
    BY <2>w
  <2>1. Take(r, "revertRun", named, on)
    BY <2>p DEF RevertPersist
  <2>2. /\ OthersStay(r) /\ excused \subseteq excused'
        /\ about[r] = {}
        /\ pc'[r] = "revertRun" /\ about'[r] = named /\ local'[r] = on
    <3>1. named \in SUBSET Plugins
      BY <2>p
    <3> QED BY <2>1, <3>1, TakeFinds
  <2>3. on \subseteq named
    BY <2>p, <2>w
  <2>4. UNCHANGED running /\ mem'.plugins = (mem.plugins \ named) \cup on /\ file' = mem'
    BY <2>p, <1>a DEF RevertPersist, Land
  <2>5. mem' # NoFile
    BY <1>b DEF TypeOK
  <2>6. StepOf(r)
    <3>1. OthersStay(r) /\ excused \subseteq excused'
      BY <2>2, <2>3, <2>4, <2>5
    <3>2. \A x \in Plugins : x \notin about[r] /\ x \notin about'[r] =>
           /\ x \in running' <=> x \in running
           /\ x \in mem'.plugins <=> x \in mem.plugins
      BY <2>2, <2>3, <2>4, <2>5 DEF Put
    <3>3. \A x \in Plugins : x \notin excused' /\ x \in about'[r] => InStep(r, x)'
      BY <2>2, <2>3, <2>4, <2>5 DEF InStep, ToggleSteps, Put
    <3>4. \A x \in Plugins : x \notin excused' /\ x \in about[r] /\ x \notin about'[r] =>
           (x \in running' <=> x \in mem'.plugins)
      BY <2>2, <2>3, <2>4, <2>5 DEF InStep, ToggleSteps, Put
    <3>5. file' = NoFile =>
           \/ file = NoFile /\ mem' = mem
           \/ \A x \in Plugins : x \notin excused' => x \notin mem'.plugins
      BY <2>2, <2>3, <2>4, <2>5
    <3> QED BY <3>1, <3>2, <3>3, <3>4, <3>5 DEF StepOf
  <2> QED BY <2>6, OneActor
<1>7. CASE \E r \in Requests : RevertRun(r)
  <2> PICK r \in Requests : RevertRun(r)
    BY <1>7
  <2>1. StepOf(r)
    BY <1>a, <1>b
    DEF TypeOK, MoversKnown, ToggleSteps, TrialSteps, ConfirmSteps, RollbackSteps,
       ResetSteps, StepOf, OthersStay, InStep, RevertRun, Put, Reply
  <2> QED BY <2>1, OneActor
<1>8. CASE \E r \in Requests, p \in Plugins : ConfirmLookup(r, p)
  <2> PICK r \in Requests, p \in Plugins : ConfirmLookup(r, p)
    BY <1>8
  <2>1. Take(r, "confirm", {p}, {p})
    BY DEF ConfirmLookup, Lookup
  <2>2. {p} \in SUBSET Plugins
    OBVIOUS
  <2>3. /\ OthersStay(r) /\ excused \subseteq excused'
        /\ about[r] = {}
        /\ pc'[r] = "confirm" /\ about'[r] = {p}
        /\ local'[r] = {p}
        /\ \A x \in Plugins : x \notin excused' /\ x \in {p} =>
             (x \in running <=> x \in mem.plugins)
    BY <2>1, <2>2, TakeFinds
  <2>4. UNCHANGED running /\ UNCHANGED storeVars
    BY <1>a DEF ConfirmLookup, Lookup, Land
  <2>5. mem' \in Documents /\ mem' # NoFile
    BY <1>b DEF TypeOK
  <2>6. StepOf(r)
    BY <2>2, <2>3, <2>4, <2>5 DEF StepOf, OthersStay, InStep, ToggleSteps, Put
  <2> QED BY <2>6, OneActor
<1>9. CASE \E r \in Requests, p \in Plugins : RollbackLookup(r, p)
  <2> PICK r \in Requests, p \in Plugins : RollbackLookup(r, p)
    BY <1>9
  <2>1. Take(r, "rollback", {p}, {})
    BY DEF RollbackLookup, Lookup
  <2>2. {p} \in SUBSET Plugins
    OBVIOUS
  <2>3. /\ OthersStay(r) /\ excused \subseteq excused'
        /\ about[r] = {}
        /\ pc'[r] = "rollback" /\ about'[r] = {p}
        /\ local'[r] = {}
        /\ \A x \in Plugins : x \notin excused' /\ x \in {p} =>
             (x \in running <=> x \in mem.plugins)
    BY <2>1, <2>2, TakeFinds
  <2>4. UNCHANGED running /\ UNCHANGED storeVars
    BY <1>a DEF RollbackLookup, Lookup, Land
  <2>5. mem' \in Documents /\ mem' # NoFile
    BY <1>b DEF TypeOK
  <2>6. StepOf(r)
    BY <2>2, <2>3, <2>4, <2>5 DEF StepOf, OthersStay, InStep, ToggleSteps, Put
  <2> QED BY <2>6, OneActor
<1>10. CASE \E r \in Requests : Confirm(r)
  <2> PICK r \in Requests : Confirm(r)
    BY <1>10
  <2>1. StepOf(r)
    BY <1>a, <1>b
    DEF TypeOK, MoversKnown, ToggleSteps, TrialSteps, ConfirmSteps, RollbackSteps,
       ResetSteps, StepOf, OthersStay, InStep, Confirm, Goto, Reply
  <2> QED BY <2>1, OneActor
<1>11. CASE \E r \in Requests : Advance(r)
  <2> PICK r \in Requests : Advance(r)
    BY <1>11
  <2>1. StepOf(r)
    BY <1>a, <1>b
    DEF TypeOK, MoversKnown, ToggleSteps, TrialSteps, ConfirmSteps, RollbackSteps,
       ResetSteps, StepOf, OthersStay, InStep, Advance, Goto
  <2> QED BY <2>1, OneActor
<1>12. CASE \E r \in Requests : ConfirmPersist(r)
  <2> PICK r \in Requests : ConfirmPersist(r)
    BY <1>12
  <2> SUFFICES StepOf(r)
    BY OneActor
  <2>1. PICK p \in Plugins : about[r] = {p}
    BY
    DEF ConfirmPersist, MoversKnown, ToggleSteps, TrialSteps, ConfirmSteps,
        RollbackSteps
  <2>2. SetPlugin(mem, p, TRUE).plugins = mem.plugins \cup {p}
    BY PluginSet DEF TypeOK
  <2>3. CASE Land(SetPlugin(mem, p, TRUE)) /\ Goto(r, "confirmRun")
    <3>1. /\ OthersStay(r) /\ excused' = excused
          /\ pc'[r] = "confirmRun" /\ about'[r] = about[r] /\ local'[r] = local[r]
      BY <2>3, GoesTo
    <3>2. /\ UNCHANGED running
          /\ mem'.plugins = mem.plugins \cup {p} /\ file' = mem'
          /\ pc[r] = "confirmPersist" /\ local[r] = about[r]
      BY <2>1, <2>2, <2>3
      DEF ConfirmPersist, Land, MoversKnown, ConfirmSteps, RollbackSteps
    <3>3. mem' # NoFile
      BY <1>b DEF TypeOK
    <3>4. InStep(r, p) \/ p \in excused
      BY <1>b, <2>1
    <3>5. OthersStay(r) /\ excused \subseteq excused'
      BY <2>1, <3>1, <3>2, <3>3, <3>4
    <3>6. \A x \in Plugins : x \notin about[r] /\ x \notin about'[r] =>
           /\ x \in running' <=> x \in running
           /\ x \in mem'.plugins <=> x \in mem.plugins
      BY <2>1, <3>1, <3>2, <3>3, <3>4 DEF Put
    <3>7. \A x \in Plugins : x \notin excused' /\ x \in about'[r] => InStep(r, x)'
      BY <2>1, <3>1, <3>2, <3>3, <3>4 DEF InStep, ToggleSteps, Put
    <3>8. \A x \in Plugins : x \notin excused' /\ x \in about[r] /\ x \notin about'[r] =>
           (x \in running' <=> x \in mem'.plugins)
      BY <2>1, <3>1, <3>2, <3>3, <3>4 DEF InStep, ToggleSteps, Put
    <3>9. file' = NoFile =>
           \/ file = NoFile /\ mem' = mem
           \/ \A x \in Plugins : x \notin excused' => x \notin mem'.plugins
      BY <2>1, <3>1, <3>2, <3>3, <3>4
    <3> QED BY <3>5, <3>6, <3>7, <3>8, <3>9 DEF StepOf
  <2>4. CASE Reply(r, {}) /\ UNCHANGED storeVars
    <3>1. /\ OthersStay(r) /\ excused' = excused
          /\ pc'[r] = "idle" /\ about'[r] = {} /\ local'[r] = {}
      BY <2>4, Replies
    <3>2. UNCHANGED running /\ UNCHANGED storeVars /\ pc[r] = "confirmPersist"
      BY <2>4 DEF ConfirmPersist
    <3>4. InStep(r, p) \/ p \in excused
      BY <1>b, <2>1
    <3>5. OthersStay(r) /\ excused \subseteq excused'
      BY <2>1, <3>1, <3>2, <3>4
    <3>6. \A x \in Plugins : x \notin about[r] /\ x \notin about'[r] =>
           /\ x \in running' <=> x \in running
           /\ x \in mem'.plugins <=> x \in mem.plugins
      BY <2>1, <3>1, <3>2, <3>4 DEF Put
    <3>7. \A x \in Plugins : x \notin excused' /\ x \in about'[r] => InStep(r, x)'
      BY <2>1, <3>1, <3>2, <3>4 DEF InStep, ToggleSteps, Put
    <3>8. \A x \in Plugins : x \notin excused' /\ x \in about[r] /\ x \notin about'[r] =>
           (x \in running' <=> x \in mem'.plugins)
      BY <2>1, <3>1, <3>2, <3>4 DEF InStep, ToggleSteps, Put
    <3>9. file' = NoFile =>
           \/ file = NoFile /\ mem' = mem
           \/ \A x \in Plugins : x \notin excused' => x \notin mem'.plugins
      BY <2>1, <3>1, <3>2, <3>4
    <3> QED BY <3>5, <3>6, <3>7, <3>8, <3>9 DEF StepOf
  <2>5. CASE (\E q \in about[r] : Land(SetPlugin(mem, q, TRUE))) /\ Goto(r, "confirmRun")
    <3> PICK q \in about[r] : Land(SetPlugin(mem, q, TRUE))
      BY <2>5
    <3>1. q = p
      BY <2>1
    <3> QED BY <2>3, <2>5, <3>1
  <2> QED BY <2>4, <2>5 DEF ConfirmPersist
<1>13. CASE \E r \in Requests : Rollback(r)
  <2> PICK r \in Requests : Rollback(r)
    BY <1>13
  <2>1. StepOf(r)
    BY <1>a, <1>b
    DEF TypeOK, MoversKnown, ToggleSteps, TrialSteps, ConfirmSteps, RollbackSteps,
       ResetSteps, StepOf, OthersStay, InStep, Rollback, Goto
  <2> QED BY <2>1, OneActor
<1>14. CASE \E r \in Requests : RollbackPersist(r)
  <2> PICK r \in Requests : RollbackPersist(r)
    BY <1>14
  <2> SUFFICES StepOf(r)
    BY OneActor
  <2>1. PICK p \in Plugins : about[r] = {p}
    BY
    DEF RollbackPersist, MoversKnown, ToggleSteps, TrialSteps, ConfirmSteps,
        RollbackSteps
  <2>2. SetPlugin(mem, p, FALSE).plugins = mem.plugins \ {p}
    BY PluginSet DEF TypeOK
  <2>3. CASE Land(SetPlugin(mem, p, FALSE)) /\ Goto(r, "rollbackRun")
    <3>1. /\ OthersStay(r) /\ excused' = excused
          /\ pc'[r] = "rollbackRun" /\ about'[r] = about[r] /\ local'[r] = local[r]
      BY <2>3, GoesTo
    <3>2. /\ UNCHANGED running
          /\ mem'.plugins = mem.plugins \ {p} /\ file' = mem'
          /\ pc[r] = "rollbackPersist" /\ local[r] = {}
      BY <2>1, <2>2, <2>3
      DEF RollbackPersist, Land, MoversKnown, ConfirmSteps, RollbackSteps
    <3>3. mem' # NoFile
      BY <1>b DEF TypeOK
    <3>4. InStep(r, p) \/ p \in excused
      BY <1>b, <2>1
    <3>5. OthersStay(r) /\ excused \subseteq excused'
      BY <2>1, <3>1, <3>2, <3>3, <3>4
    <3>6. \A x \in Plugins : x \notin about[r] /\ x \notin about'[r] =>
           /\ x \in running' <=> x \in running
           /\ x \in mem'.plugins <=> x \in mem.plugins
      BY <2>1, <3>1, <3>2, <3>3, <3>4 DEF Put
    <3>7. \A x \in Plugins : x \notin excused' /\ x \in about'[r] => InStep(r, x)'
      BY <2>1, <3>1, <3>2, <3>3, <3>4 DEF InStep, ToggleSteps, Put
    <3>8. \A x \in Plugins : x \notin excused' /\ x \in about[r] /\ x \notin about'[r] =>
           (x \in running' <=> x \in mem'.plugins)
      BY <2>1, <3>1, <3>2, <3>3, <3>4 DEF InStep, ToggleSteps, Put
    <3>9. file' = NoFile =>
           \/ file = NoFile /\ mem' = mem
           \/ \A x \in Plugins : x \notin excused' => x \notin mem'.plugins
      BY <2>1, <3>1, <3>2, <3>3, <3>4
    <3> QED BY <3>5, <3>6, <3>7, <3>8, <3>9 DEF StepOf
  <2>4. CASE Reply(r, {}) /\ UNCHANGED storeVars
    <3>1. /\ OthersStay(r) /\ excused' = excused
          /\ pc'[r] = "idle" /\ about'[r] = {} /\ local'[r] = {}
      BY <2>4, Replies
    <3>2. UNCHANGED running /\ UNCHANGED storeVars /\ pc[r] = "rollbackPersist"
      BY <2>4 DEF RollbackPersist
    <3>4. InStep(r, p) \/ p \in excused
      BY <1>b, <2>1
    <3>5. OthersStay(r) /\ excused \subseteq excused'
      BY <2>1, <3>1, <3>2, <3>4
    <3>6. \A x \in Plugins : x \notin about[r] /\ x \notin about'[r] =>
           /\ x \in running' <=> x \in running
           /\ x \in mem'.plugins <=> x \in mem.plugins
      BY <2>1, <3>1, <3>2, <3>4 DEF Put
    <3>7. \A x \in Plugins : x \notin excused' /\ x \in about'[r] => InStep(r, x)'
      BY <2>1, <3>1, <3>2, <3>4 DEF InStep, ToggleSteps, Put
    <3>8. \A x \in Plugins : x \notin excused' /\ x \in about[r] /\ x \notin about'[r] =>
           (x \in running' <=> x \in mem'.plugins)
      BY <2>1, <3>1, <3>2, <3>4 DEF InStep, ToggleSteps, Put
    <3>9. file' = NoFile =>
           \/ file = NoFile /\ mem' = mem
           \/ \A x \in Plugins : x \notin excused' => x \notin mem'.plugins
      BY <2>1, <3>1, <3>2, <3>4
    <3> QED BY <3>5, <3>6, <3>7, <3>8, <3>9 DEF StepOf
  <2>5. CASE (\E q \in about[r] : Land(SetPlugin(mem, q, FALSE))) /\ Goto(r, "rollbackRun")
    <3> PICK q \in about[r] : Land(SetPlugin(mem, q, FALSE))
      BY <2>5
    <3>1. q = p
      BY <2>1
    <3> QED BY <2>3, <2>5, <3>1
  <2> QED BY <2>4, <2>5 DEF RollbackPersist
<1>15. CASE \E r \in Requests : VerdictRun(r)
  <2> PICK r \in Requests : VerdictRun(r)
    BY <1>15
  <2>1. StepOf(r)
    BY <1>a, <1>b
    DEF TypeOK, MoversKnown, ToggleSteps, TrialSteps, ConfirmSteps, RollbackSteps,
       ResetSteps, StepOf, OthersStay, InStep, VerdictRun, Put, Reply
  <2> QED BY <2>1, OneActor
<1>16. CASE \E r \in Requests : ResetRead(r)
  <2> PICK r \in Requests : ResetRead(r)
    BY <1>16
  <2>1. Take(r, "resetDisable", Plugins, Plugins \ running)
    BY DEF ResetRead
  <2>2. Plugins \in SUBSET Plugins
    OBVIOUS
  <2>3. /\ OthersStay(r) /\ excused \subseteq excused'
        /\ about[r] = {}
        /\ pc'[r] = "resetDisable" /\ about'[r] = Plugins
        /\ local'[r] = Plugins \ running
        /\ \A x \in Plugins : x \notin excused' /\ x \in Plugins =>
             (x \in running <=> x \in mem.plugins)
    BY <2>1, <2>2, TakeFinds, ZenonT(30)
  <2>4. UNCHANGED running /\ UNCHANGED storeVars
    BY <1>a DEF ResetRead, Land
  <2>5. mem' \in Documents /\ mem' # NoFile
    BY <1>b DEF TypeOK
  <2>6. StepOf(r)
    BY <2>2, <2>3, <2>4, <2>5 DEF StepOf, OthersStay, InStep, ToggleSteps, Put
  <2> QED BY <2>6, OneActor
<1>17. CASE \E r \in Requests : ResetDisable(r)
  <2> PICK r \in Requests : ResetDisable(r)
    BY <1>17
  <2>1. StepOf(r)
    BY <1>a, <1>b
    DEF TypeOK, MoversKnown, ToggleSteps, TrialSteps, ConfirmSteps, RollbackSteps,
       ResetSteps, StepOf, OthersStay, InStep, ResetDisable, Goto
  <2> QED BY <2>1, OneActor
<1>18. CASE \E r \in Requests : ResetClear(r)
  <2> PICK r \in Requests : ResetClear(r)
    BY <1>18
  <2>1. /\ OthersStay(r) /\ excused \subseteq excused'
        /\ pc[r] = "resetClear" /\ pc'[r] = "resetDelete"
        /\ about'[r] = about[r] /\ about[r] = Plugins
        /\ running' = running
    BY DEF ResetClear, TypeOK, OthersStay, MoversKnown, ResetSteps
  <2>2. \/ mem'.plugins = {}
        \/ mem' = mem /\ mem.plugins = {}
        \/ excused' = Plugins
    BY <1>a DEF ResetClear, Land, HasSettings
  <2>3. \A x \in Plugins : x \notin excused' => InStep(r, x)
    BY <1>b, <2>1
  <2>4. StepOf(r)
    <3>1. OthersStay(r) /\ excused \subseteq excused'
      BY <2>1, <2>2, <2>3
    <3>2. \A x \in Plugins : x \notin about[r] /\ x \notin about'[r] =>
           /\ x \in running' <=> x \in running
           /\ x \in mem'.plugins <=> x \in mem.plugins
      BY <2>1, <2>2, <2>3 DEF Put
    <3>3. \A x \in Plugins : x \notin excused' /\ x \in about'[r] => InStep(r, x)'
      BY <2>1, <2>2, <2>3 DEF InStep, ToggleSteps, Put
    <3>4. \A x \in Plugins : x \notin excused' /\ x \in about[r] /\ x \notin about'[r] =>
           (x \in running' <=> x \in mem'.plugins)
      BY <2>1, <2>2, <2>3 DEF InStep, ToggleSteps, Put
    <3>5. file' = NoFile =>
           \/ file = NoFile /\ mem' = mem
           \/ \A x \in Plugins : x \notin excused' => x \notin mem'.plugins
      BY <2>1, <2>2, <2>3
    <3> QED BY <3>1, <3>2, <3>3, <3>4, <3>5 DEF StepOf
  <2> QED BY <2>4, OneActor
<1>19. CASE \E r \in Requests : ResetDelete(r)
  <2> PICK r \in Requests : ResetDelete(r)
    BY <1>19
  <2>1. StepOf(r)
    BY <1>a, <1>b
    DEF TypeOK, MoversKnown, ToggleSteps, TrialSteps, ConfirmSteps, RollbackSteps,
       ResetSteps, StepOf, OthersStay, InStep, ResetDelete, Reply
  <2> QED BY <2>1, OneActor
<1>20. CASE \E p \in Plugins, t \in Trials : BeginTrial(p, t)
  <2> SUFFICES ASSUME NEW p \in Plugins, p \notin excused'
               PROVE  /\ p \notin Moving' => (p \in running' <=> p \in mem'.plugins)
                      /\ \A q \in Requests : p \in about'[q] => InStep(q, p)'
                      /\ file' = NoFile => p \notin mem'.plugins
    BY DEF Agreement
  <2>1. /\ running' = running /\ excused' = excused /\ UNCHANGED reqVars
        /\ mem'.plugins = mem.plugins
        /\ file' = NoFile => file = NoFile
    BY <1>20, <1>a, <1>b DEF BeginTrial
  <2> QED BY <2>1 DEF Agreement, Moving, InStep
<1>21. CASE \E t \in Trials : Expire(t)
  <2> SUFFICES ASSUME NEW p \in Plugins, p \notin excused'
               PROVE  /\ p \notin Moving' => (p \in running' <=> p \in mem'.plugins)
                      /\ \A q \in Requests : p \in about'[q] => InStep(q, p)'
                      /\ file' = NoFile => p \notin mem'.plugins
    BY DEF Agreement
  <2>1. /\ running' = running /\ excused' = excused /\ UNCHANGED reqVars
        /\ mem'.plugins = mem.plugins
        /\ file' = NoFile => file = NoFile
    BY <1>21, <1>a, <1>b DEF Expire
  <2> QED BY <2>1 DEF Agreement, Moving, InStep
<1>22. CASE EditDocument
  <2> SUFFICES ASSUME NEW p \in Plugins, p \notin excused'
               PROVE  /\ p \notin Moving' => (p \in running' <=> p \in mem'.plugins)
                      /\ \A q \in Requests : p \in about'[q] => InStep(q, p)'
                      /\ file' = NoFile => p \notin mem'.plugins
    BY DEF Agreement
  <2>1. /\ running' = running /\ excused' = excused /\ UNCHANGED reqVars
        /\ mem'.plugins = mem.plugins
        /\ file' = NoFile => file = NoFile
    BY <1>22, <1>a, <1>b DEF EditDocument, Land, TypeOK
  <2> QED BY <2>1 DEF Agreement, Moving, InStep
<1>23. CASE Crash
  <2> SUFFICES ASSUME NEW p \in Plugins, p \notin excused'
               PROVE  /\ p \notin Moving' => (p \in running' <=> p \in mem'.plugins)
                      /\ \A q \in Requests : p \in about'[q] => InStep(q, p)'
                      /\ file' = NoFile => p \notin mem'.plugins
    BY DEF Agreement
  <2>1. Fresh.plugins = {}
    BY DEF Fresh
  <2>2. /\ \A q \in Requests : about'[q] = {}
        /\ running' = mem'.plugins
        /\ file' = NoFile => mem' = Fresh
    BY <1>23, LoadIs DEF Crash, Boot
  <2> QED BY <2>1, <2>2
<1>24. CASE UNCHANGED vars
  <2> SUFFICES ASSUME NEW p \in Plugins, p \notin excused'
               PROVE  /\ p \notin Moving' => (p \in running' <=> p \in mem'.plugins)
                      /\ \A q \in Requests : p \in about'[q] => InStep(q, p)'
                      /\ file' = NoFile => p \notin mem'.plugins
    BY DEF Agreement
  <2>1. /\ running' = running /\ excused' = excused /\ UNCHANGED reqVars
        /\ mem'.plugins = mem.plugins
        /\ file' = NoFile => file = NoFile
    BY <1>24, <1>a, <1>b DEF vars
  <2> QED BY <2>1 DEF Agreement, Moving, InStep
<1> QED
  BY <1>1, <1>2, <1>3, <1>4, <1>5, <1>6, <1>7, <1>8, <1>9, <1>10, <1>11, <1>12,
     <1>13, <1>14, <1>15, <1>16, <1>17, <1>18, <1>19, <1>20, <1>21, <1>22, <1>23,
     <1>24
  DEF Next, RequestStep
\* Every step keeps the trials apart, and what a confirm has checked true until
\* it writes, unless a rollback overlaps it.
LEMMA TrialsKeep ==
  ASSUME TypeOK, TypeOK', MoversKnown, MoversKnown', TrialsApart, AdvanceChecked, [Next]_vars
  PROVE  TrialsApart' /\ AdvanceChecked'
<1> USE EnablementAssumption
    DEF TypeOK, MoversKnown, TrialsApart, AdvanceChecked, Steps, ToggleSteps, TrialSteps,
        ConfirmSteps, RollbackSteps, ResetSteps, storeVars, trialVars, reqVars
<1>1. CASE \E r \in Requests, p \in Plugins, enabled \in BOOLEAN : ToggleRun(r, p, enabled)
  BY <1>1 DEF ToggleRun, Take, Put
<1>2. CASE \E r \in Requests : TogglePersist(r)
  <2> PICK r \in Requests : TogglePersist(r)
    BY <1>2
  <2>1. CASE Reply(r, {})
    BY <2>1 DEF TogglePersist, Goto, Reply
  <2>2. CASE Goto(r, "toggleBack") /\ UNCHANGED storeVars
    BY <2>2 DEF TogglePersist, Goto, Reply
  <2> QED BY <2>1, <2>2, Zenon DEF TogglePersist
<1>3. CASE \E r \in Requests : ToggleBack(r)
  BY <1>3 DEF ToggleBack, Put, Reply
<1>4. CASE \E r \in Requests, plan \in Plans : ApplyPersist(r, plan)
  BY <1>4 DEF ApplyPersist, Take, Land
<1>5. CASE \E r \in Requests : ApplyRun(r)
  BY <1>5 DEF ApplyRun, Put, Reply
<1>6. CASE \E r \in Requests : RevertPersist(r)
  BY <1>6 DEF RevertPersist, Take, Land
<1>7. CASE \E r \in Requests : RevertRun(r)
  BY <1>7 DEF RevertRun, Put, Reply
<1>8. CASE \E r \in Requests, p \in Plugins : ConfirmLookup(r, p)
  <2> PICK r \in Requests, p \in Plugins : ConfirmLookup(r, p)
    BY <1>8
  <2>1. /\ p \in Plugins /\ trialOf[p] \in Trials
        /\ pc[r] = "idle" /\ trial[r] = NoTrial
        /\ pc' = [pc EXCEPT ![r] = "confirm"]
        /\ about' = [about EXCEPT ![r] = {p}]
        /\ trial' = [trial EXCEPT ![r] = trialOf[p]]
        /\ excused \subseteq excused'
        /\ UNCHANGED trialVars
    BY DEF ConfirmLookup, Lookup, Take
  <2>2. /\ \A q \in Requests \ {r} : pc'[q] = pc[q] /\ about'[q] = about[q] /\ trial'[q] = trial[q]
        /\ pc'[r] = "confirm" /\ about'[r] = {p} /\ trial'[r] = trialOf[p]
    BY <2>1
  <2>3. AdvanceChecked'
    BY <2>1, <2>2
  <2>4. \A q \in Requests : trial'[q] # NoTrial <=> pc'[q] \in TrialSteps
    BY <2>1, <2>2
  <2>5. ASSUME NEW t \in Trials
        PROVE  /\ state'[t] = "unused" =>
                    /\ \A x \in Plugins : trialOf'[x] # t
                    /\ \A q \in Requests : trial'[q] # t
               /\ \A x, y \in Plugins : trialOf'[x] = t /\ trialOf'[y] = t => x = y
               /\ \A q \in Requests, x \in Plugins :
                    trial'[q] = t /\ trialOf'[x] = t => about'[q] = {x}
    BY <2>1, <2>2
  <2>6. ASSUME NEW t \in Trials, NEW q \in Requests, NEW s \in Requests,
               trial'[q] = t, trial'[s] = t
        PROVE  about'[q] = about'[s]
    <3>1. \A x \in Requests : x # r /\ trial[x] = trialOf[p] => about[x] = {p}
      BY <2>1
    <3>2. CASE q # r /\ s # r
      BY <2>1, <2>2, <2>6, <3>2
    <3>3. ASSUME NEW x \in Requests, x # r, trial'[x] = trialOf[p]
          PROVE  about'[x] = {p}
      BY <2>2, <3>1, <3>3
    <3>4. CASE q = r /\ s # r
      <4>1. t = trialOf[p] /\ about'[q] = {p}
        BY <2>2, <2>6, <3>4
      <4> QED BY <2>6, <3>3, <3>4, <4>1
    <3>5. CASE q # r /\ s = r
      <4>1. t = trialOf[p] /\ about'[s] = {p}
        BY <2>2, <2>6, <3>5
      <4> QED BY <2>6, <3>3, <3>5, <4>1
    <3> QED BY <3>2, <3>4, <3>5
  <2> QED BY <2>3, <2>4, <2>5, <2>6
<1>9. CASE \E r \in Requests, p \in Plugins : RollbackLookup(r, p)
  <2> PICK r \in Requests, p \in Plugins : RollbackLookup(r, p)
    BY <1>9
  <2>1. /\ p \in Plugins /\ trialOf[p] \in Trials
        /\ pc[r] = "idle" /\ trial[r] = NoTrial
        /\ pc' = [pc EXCEPT ![r] = "rollback"]
        /\ about' = [about EXCEPT ![r] = {p}]
        /\ trial' = [trial EXCEPT ![r] = trialOf[p]]
        /\ excused \subseteq excused'
        /\ UNCHANGED trialVars
    BY DEF RollbackLookup, Lookup, Take
  <2>2. /\ \A q \in Requests \ {r} : pc'[q] = pc[q] /\ about'[q] = about[q] /\ trial'[q] = trial[q]
        /\ pc'[r] = "rollback" /\ about'[r] = {p} /\ trial'[r] = trialOf[p]
    BY <2>1
  <2>3. AdvanceChecked'
    BY <2>1, <2>2
  <2>4. \A q \in Requests : trial'[q] # NoTrial <=> pc'[q] \in TrialSteps
    BY <2>1, <2>2
  <2>5. ASSUME NEW t \in Trials
        PROVE  /\ state'[t] = "unused" =>
                    /\ \A x \in Plugins : trialOf'[x] # t
                    /\ \A q \in Requests : trial'[q] # t
               /\ \A x, y \in Plugins : trialOf'[x] = t /\ trialOf'[y] = t => x = y
               /\ \A q \in Requests, x \in Plugins :
                    trial'[q] = t /\ trialOf'[x] = t => about'[q] = {x}
    BY <2>1, <2>2
  <2>6. ASSUME NEW t \in Trials, NEW q \in Requests, NEW s \in Requests,
               trial'[q] = t, trial'[s] = t
        PROVE  about'[q] = about'[s]
    <3>1. \A x \in Requests : x # r /\ trial[x] = trialOf[p] => about[x] = {p}
      BY <2>1
    <3>2. CASE q # r /\ s # r
      BY <2>1, <2>2, <2>6, <3>2
    <3>3. ASSUME NEW x \in Requests, x # r, trial'[x] = trialOf[p]
          PROVE  about'[x] = {p}
      BY <2>2, <3>1, <3>3
    <3>4. CASE q = r /\ s # r
      <4>1. t = trialOf[p] /\ about'[q] = {p}
        BY <2>2, <2>6, <3>4
      <4> QED BY <2>6, <3>3, <3>4, <4>1
    <3>5. CASE q # r /\ s = r
      <4>1. t = trialOf[p] /\ about'[s] = {p}
        BY <2>2, <2>6, <3>5
      <4> QED BY <2>6, <3>3, <3>5, <4>1
    <3> QED BY <3>2, <3>4, <3>5
  <2> QED BY <2>3, <2>4, <2>5, <2>6
<1>10. CASE \E r \in Requests : Confirm(r)
  <2> PICK r \in Requests : Confirm(r)
    BY <1>10
  <2>1. CASE /\ state[trial[r]] = "trial"
             /\ Goto(r, "advance")
             /\ UNCHANGED state
    BY <2>1 DEF Confirm, Goto
  <2>2. CASE /\ state' = [state EXCEPT ![trial[r]] = "disabled"]
             /\ Reply(r, {})
    <3>1. \A q \in Requests \ {r} : trial[q] = trial[r] =>
            about[q] \cap excused # {}
      BY DEF Confirm
    <3>2. trial[r] \in Trials /\ state[trial[r]] # "unused"
      BY DEF Confirm
    <3>3. /\ \A q \in Requests \ {r} :
               pc'[q] = pc[q] /\ about'[q] = about[q] /\ trial'[q] = trial[q]
          /\ pc'[r] = "idle" /\ about'[r] = {} /\ trial'[r] = NoTrial
          /\ excused' = excused /\ trialOf' = trialOf
          /\ \A t \in Trials : t # trial[r] => state'[t] = state[t]
          /\ state'[trial[r]] = "disabled"
      BY <2>2, <3>2 DEF Confirm, Reply
    <3>4. AdvanceChecked'
      BY <3>1, <3>2, <3>3
    <3>5. TrialsApart'
      BY <3>2, <3>3, SMTT(30)
    <3> QED BY <3>4, <3>5
  <2>3. CASE UNCHANGED state /\ Reply(r, {})
    BY <2>3 DEF Confirm, Reply
  <2> QED BY <2>1, <2>2, <2>3 DEF Confirm
<1>11. CASE \E r \in Requests : Advance(r)
  BY <1>11, SMTT(30) DEF Advance, Goto
<1>12. CASE \E r \in Requests : ConfirmPersist(r)
  <2> PICK r \in Requests : ConfirmPersist(r)
    BY <1>12
  <2>1. CASE Goto(r, "confirmRun")
    BY <2>1 DEF ConfirmPersist, Goto, Reply
  <2>2. CASE Reply(r, {}) /\ UNCHANGED storeVars
    BY <2>2 DEF ConfirmPersist, Goto, Reply
  <2> QED BY <2>1, <2>2, Zenon DEF ConfirmPersist
<1>13. CASE \E r \in Requests : Rollback(r)
  <2> PICK r \in Requests : Rollback(r)
    BY <1>13
  <2>1. trial[r] \in Trials /\ state[trial[r]] # "unused" /\ pc[r] = "rollback"
    BY DEF Rollback
  <2>2. ASSUME NEW q \in Requests, q # r, trial[q] = trial[r]
        PROVE  about[q] \cap excused # {}
    <3>1. PICK p \in Plugins : about[r] = {p}
      BY <2>1
    <3>2. about[q] = about[r]
      BY <2>2, <2>1
    <3> QED BY <2>2, <3>1, <3>2, SMTT(30)
  <2>3. /\ \A q \in Requests \ {r} : pc'[q] = pc[q]
        /\ pc'[r] = "rollbackPersist"
        /\ about' = about /\ trial' = trial
        /\ excused' = excused /\ trialOf' = trialOf
        /\ \A t \in Trials : t # trial[r] => state'[t] = state[t]
        /\ state'[trial[r]] = "disabled"
    BY <2>1 DEF Rollback, Goto
  <2>4. AdvanceChecked'
    BY <2>1, <2>2, <2>3
  <2>5. TrialsApart'
    BY <2>1, <2>3, SMTT(30)
  <2> QED BY <2>4, <2>5
<1>14. CASE \E r \in Requests : RollbackPersist(r)
  <2> PICK r \in Requests : RollbackPersist(r)
    BY <1>14
  <2>1. CASE Goto(r, "rollbackRun")
    BY <2>1 DEF RollbackPersist, Goto, Reply
  <2>2. CASE Reply(r, {}) /\ UNCHANGED storeVars
    BY <2>2 DEF RollbackPersist, Goto, Reply
  <2> QED BY <2>1, <2>2, Zenon DEF RollbackPersist
<1>15. CASE \E r \in Requests : VerdictRun(r)
  BY <1>15 DEF VerdictRun, Put, Reply
<1>16. CASE \E r \in Requests : ResetRead(r)
  BY <1>16 DEF ResetRead, Take
<1>17. CASE \E r \in Requests : ResetDisable(r)
  BY <1>17 DEF ResetDisable, Goto
<1>18. CASE \E r \in Requests : ResetClear(r)
  BY <1>18 DEF ResetClear, Land
<1>19. CASE \E r \in Requests : ResetDelete(r)
  BY <1>19 DEF ResetDelete, Reply
<1>20. CASE \E p \in Plugins, t \in Trials : BeginTrial(p, t)
  BY <1>20 DEF BeginTrial
<1>21. CASE \E t \in Trials : Expire(t)
  BY <1>21 DEF Expire
<1>22. CASE EditDocument
  BY <1>22 DEF EditDocument, Land
<1>23. CASE Crash
  BY <1>23 DEF Crash, Boot
<1>24. CASE UNCHANGED vars
  BY <1>24 DEF vars
<1> QED
  BY <1>1, <1>2, <1>3, <1>4, <1>5, <1>6, <1>7, <1>8, <1>9, <1>10, <1>11, <1>12,
     <1>13, <1>14, <1>15, <1>16, <1>17, <1>18, <1>19, <1>20, <1>21, <1>22, <1>23,
     <1>24
  DEF Next, RequestStep

-------------------------------------------------------------------------------
(* The theorems. *)

\* A first start, with whatever file there is, satisfies the invariant.
LEMMA InitIInv ==
  ASSUME Init
  PROVE  IInv
<1>1. Fresh \in Documents /\ Fresh.plugins = {} /\ Fresh.snapshot = NoSnapshot
  BY DEF Fresh, Documents, ShortcutLists
<1>2. mem = Fresh /\ running = {}
  BY <1>1, LoadIs DEF Init
<1>3. TypeOK
  BY <1>1, <1>2, EnablementAssumption DEF Init, TypeOK, NothingFound, Steps
<1>4. RestartIsInvisible /\ UndoHolds
  BY <1>1, <1>2 DEF Init, RestartIsInvisible, UndoHolds
<1>5. MoversKnown
  BY
  DEF Init, MoversKnown, ToggleSteps, TrialSteps, ConfirmSteps, RollbackSteps,
      ResetSteps
<1>6. Agreement
  BY <1>1, <1>2 DEF Init, Agreement, InStep, ToggleSteps
<1>7. TrialsApart /\ AdvanceChecked
  BY EnablementAssumption
  DEF Init, TrialsApart, AdvanceChecked, TrialSteps, ConfirmSteps,
     RollbackSteps
<1> QED BY <1>3, <1>4, <1>5, <1>6, <1>7 DEF IInv

\* The invariant holds in every state.
THEOREM Invariance == Spec => []IInv
<1>1. Init => IInv
  BY InitIInv
<1>2. IInv /\ [Next]_vars => IInv'
  <2> SUFFICES ASSUME IInv, [Next]_vars
               PROVE  IInv'
    OBVIOUS
  <2>1. TypeOK'
    BY TypeKeeps DEF IInv
  <2>2. RestartIsInvisible' /\ UndoHolds'
    BY <2>1, DocumentKeeps DEF IInv
  <2>3. MoversKnown'
    BY <2>1, MoversKeep DEF IInv
  <2>4. Agreement'
    BY <2>1, <2>3, AgreementKeeps DEF IInv
  <2>5. TrialsApart' /\ AdvanceChecked'
    BY <2>1, <2>3, TrialsKeep DEF IInv
  <2> QED BY <2>1, <2>2, <2>3, <2>4, <2>5 DEF IInv
<1> QED BY <1>1, <1>2, PTL DEF Spec

\* Every variable keeps its type.
THEOREM TypeCorrect == Spec => []TypeOK
<1>1. IInv => TypeOK
  BY DEF IInv
<1> QED BY <1>1, Invariance, PTL

\* What runs is what the store says and what a restart would load (main.go's
\* toggle, profile, trial and reset handlers), for every plugin that no request
\* is moving, none overlapped and no error reply names.
THEOREM EnablementSurvives == Spec => []SurvivesRestart
<1>1. IInv => SurvivesRestart
  <2> SUFFICES ASSUME IInv, NEW p \in Plugins \ (Moving \cup excused)
               PROVE  /\ p \in running <=> p \in mem.plugins
                      /\ p \in running <=> p \in Load(file).plugins
    BY DEF SurvivesRestart
  <2>1. p \in running <=> p \in mem.plugins
    BY DEF IInv, Agreement
  <2>2. CASE file = NoFile
    <3>1. Load(file).plugins = {}
      BY <2>2, LoadIs DEF Fresh
    <3> QED BY <2>1, <2>2, <3>1 DEF IInv, Agreement
  <2>3. CASE file # NoFile
    BY <2>1, <2>3 DEF IInv, RestartIsInvisible
  <2> QED BY <2>2, <2>3
<1> QED BY <1>1, Invariance, PTL

\* A document on disk is the settings the process has (Store.save adopts only
\* what it has written), in the middle of every request.
THEOREM RestartChangesNothing == Spec => []RestartIsInvisible
<1>1. IInv => RestartIsInvisible
  BY DEF IInv
<1> QED BY <1>1, Invariance, PTL

\* RevertProfile takes the rules and plugins of the last plan, and the profile,
\* back to what ApplyBatch found, whatever was saved, lost or restarted between.
THEOREM UndoTakesBack == Spec => []UndoIsExact
<1>1. IInv => UndoIsExact
  <2> SUFFICES ASSUME IInv, mem.snapshot # NoSnapshot
               PROVE  /\ Revert(mem).profile = found.profile
                      /\ Revert(mem).plugins \cap mem.snapshot.plugins.named = found.plugins
                      /\ Revert(mem).rulesOff \cap mem.snapshot.rules.named = found.rulesOff
    BY DEF UndoIsExact
  <2>1. /\ mem \in Documents
        /\ mem.snapshot.plugins \in Verdicts(Plugins)
    BY DEF IInv, TypeOK, Documents, Snapshots
  <2>2. mem.snapshot.plugins.on \subseteq mem.snapshot.plugins.named
    BY <2>1, VerdictIs
  <2>3. /\ mem.snapshot.profile = found.profile
        /\ mem.snapshot.plugins.on = found.plugins
        /\ mem.snapshot.rules.named \ mem.snapshot.rules.on = found.rulesOff
    BY DEF IInv, UndoHolds
  <2> QED BY <2>1, <2>2, <2>3 DEF Revert, Documents
<1> QED BY <1>1, Invariance, PTL

\* Trial.advance moves no trial out of DISABLED unless a rollback of the same
\* plugin came between its check and its write.
THEOREM RollbackHolds == Spec => RolledBackStaysOff
<1>1. IInv /\ IInv' /\ [Next]_vars =>
        [\A t \in Trials : Revives(t) =>
           \E r \in Requests : trial[r] = t /\ about[r] \cap excused # {}]_vars
  <2> SUFFICES ASSUME IInv, IInv', [Next]_vars, NEW t \in Trials, Revives(t)
               PROVE  \E r \in Requests : trial[r] = t /\ about[r] \cap excused # {}
    OBVIOUS
  <2> USE DEF IInv, TypeOK, Revives, storeVars, trialVars, reqVars
  <2>1. CASE \E r \in Requests, p \in Plugins, enabled \in BOOLEAN : ToggleRun(r, p, enabled)
    BY <2>1 DEF ToggleRun, Take, Put
  <2>2. CASE \E r \in Requests : TogglePersist(r)
    BY <2>2 DEF TogglePersist, Land, Reply, Goto
  <2>3. CASE \E r \in Requests : ToggleBack(r)
    BY <2>3 DEF ToggleBack, Put, Reply
  <2>4. CASE \E r \in Requests, plan \in Plans : ApplyPersist(r, plan)
    BY <2>4 DEF ApplyPersist, Take, Land
  <2>5. CASE \E r \in Requests : ApplyRun(r)
    BY <2>5 DEF ApplyRun, Put, Reply
  <2>6. CASE \E r \in Requests : RevertPersist(r)
    BY <2>6 DEF RevertPersist, Take, Land
  <2>7. CASE \E r \in Requests : RevertRun(r)
    BY <2>7 DEF RevertRun, Put, Reply
  <2>8. CASE \E r \in Requests, p \in Plugins : ConfirmLookup(r, p)
    BY <2>8 DEF ConfirmLookup, Lookup, Take
  <2>9. CASE \E r \in Requests, p \in Plugins : RollbackLookup(r, p)
    BY <2>9 DEF RollbackLookup, Lookup, Take
  <2>10. CASE \E r \in Requests : Confirm(r)
    BY <2>10 DEF Confirm, Goto, Reply
  <2>11. CASE \E r \in Requests : Advance(r)
    <3> PICK r \in Requests : Advance(r)
      BY <2>11
    <3>1. trial[r] = t /\ state[trial[r]] = "disabled"
      BY DEF Advance
    <3>2. about[r] \cap excused # {}
      BY <3>1 DEF Advance, AdvanceChecked
    <3> QED BY <3>1, <3>2
  <2>12. CASE \E r \in Requests : ConfirmPersist(r)
    BY <2>12 DEF ConfirmPersist, Land, Goto, Reply
  <2>13. CASE \E r \in Requests : Rollback(r)
    BY <2>13 DEF Rollback, Goto
  <2>14. CASE \E r \in Requests : RollbackPersist(r)
    BY <2>14 DEF RollbackPersist, Land, Goto, Reply
  <2>15. CASE \E r \in Requests : VerdictRun(r)
    BY <2>15 DEF VerdictRun, Put, Reply
  <2>16. CASE \E r \in Requests : ResetRead(r)
    BY <2>16 DEF ResetRead, Take
  <2>17. CASE \E r \in Requests : ResetDisable(r)
    BY <2>17 DEF ResetDisable, Goto
  <2>18. CASE \E r \in Requests : ResetClear(r)
    BY <2>18 DEF ResetClear, Land
  <2>19. CASE \E r \in Requests : ResetDelete(r)
    BY <2>19 DEF ResetDelete, Reply
  <2>20. CASE \E p \in Plugins, u \in Trials : BeginTrial(p, u)
    BY <2>20 DEF BeginTrial
  <2>21. CASE \E u \in Trials : Expire(u)
    BY <2>21 DEF Expire
  <2>22. CASE EditDocument
    BY <2>22 DEF EditDocument, Land
  <2>23. CASE Crash
    BY <2>23 DEF Crash, Boot
  <2>24. CASE UNCHANGED vars
    BY <2>24 DEF vars
  <2> QED
    BY <2>1, <2>2, <2>3, <2>4, <2>5, <2>6, <2>7, <2>8, <2>9, <2>10, <2>11, <2>12,
       <2>13, <2>14, <2>15, <2>16, <2>17, <2>18, <2>19, <2>20, <2>21, <2>22, <2>23,
       <2>24
    DEF Next, RequestStep
<1> QED BY <1>1, Invariance, PTL DEF Spec, RolledBackStaysOff
===============================================================================
