------------------------------ MODULE Settings ------------------------------
(***************************************************************************)
(* The settings document (core/pkg/settings/settings.go): what a fresh     *)
(* store holds, what a file loads to, and what each mutation of update()   *)
(* makes of it.  Of the lists the user edits whole (shortcuts, zones,      *)
(* overrides, file types), one stands for all: shortcuts, the one that is  *)
(* seeded and that Clear empties.  panicStop is KillSwitch's.              *)
(***************************************************************************)
EXTENDS Integers, FiniteSets

CONSTANTS
  Plugins,     \* the plugin ids the daemon registered
  Rules,       \* the rule ids of the behaviour matrix
  NoProfile,   \* ActiveProfile() when none was chosen
  Profile,     \* the builtin profile
  NoSnapshot,  \* no undo point recorded
  NoFile,      \* config.json is absent
  BadFile      \* config.json does not validate

ShortcutLists == {"seeds", "none"}

\* A verdict is the set of ids switched on among the ids a plan named.
Verdicts(Ids) == UNION {[named : {N}, on : SUBSET N] : N \in SUBSET Ids}

Snapshots ==
  [profile : {NoProfile, Profile}, rules : Verdicts(Rules),
   plugins : Verdicts(Plugins)]

Documents ==
  [plugins : SUBSET Plugins, rulesOff : SUBSET Rules,
   shortcuts : ShortcutLists, profile : {NoProfile, Profile}, snapshot : Snapshots \cup {NoSnapshot}]

\* A store made without a document.
Fresh ==
  [plugins |-> {}, rulesOff |-> {}, shortcuts |-> "seeds",
   profile |-> NoProfile, snapshot |-> NoSnapshot]

\* New: a document that does not validate is dropped whole, an absent one is
\* the defaults; every key of a valid one is taken.
Load(file) == IF file \in {NoFile, BadFile} THEN Fresh ELSE file

SetPlugin(doc, p, enabled) ==
  [doc EXCEPT !.plugins = IF enabled THEN @ \cup {p} ELSE @ \ {p}]

SetRule(doc, k, enabled) ==
  [doc EXCEPT !.rulesOff = IF enabled THEN @ \ {k} ELSE @ \cup {k}]

SetShortcuts(doc, list) == [doc EXCEPT !.shortcuts = list]

\* The verdicts the plan is about to overwrite, for the ids it names only.
SnapshotTouched(doc, plan) ==
  [profile |-> doc.profile,
   rules |-> [named |-> plan.rules, on |-> plan.rules \ doc.rulesOff],
   plugins |-> [named |-> plan.plugins, on |-> plan.plugins \cap doc.plugins]]

\* Mutant: the undo point is taken after the plan was written.
ApplyThenSnapshot(doc, plan) ==
  LET applied == [doc EXCEPT !.rulesOff = @ \ plan.rules,
                             !.plugins = @ \cup plan.plugins,
                             !.profile = Profile] IN
  [applied EXCEPT !.snapshot = SnapshotTouched(applied, plan)]

\* ApplyBatch of a profile's plan, which only ever switches on.
ApplyPlan(doc, plan) ==
  [doc EXCEPT !.snapshot = SnapshotTouched(doc, plan),
              !.rulesOff = @ \ plan.rules,
              !.plugins = @ \cup plan.plugins,
              !.profile = Profile]

\* RevertProfile, when there is an undo point; it is spent.
Revert(doc) ==
  LET undo == doc.snapshot IN
  [doc EXCEPT
    !.rulesOff = (@ \ undo.rules.on) \cup (undo.rules.named \ undo.rules.on),
    !.plugins = (@ \ undo.plugins.named) \cup undo.plugins.on,
    !.profile = undo.profile,
    !.snapshot = NoSnapshot]

\* Clear, and whether it finds anything to clear.
Cleared(doc) ==
  [doc EXCEPT !.plugins = {}, !.rulesOff = {}, !.shortcuts = "none",
              !.profile = NoProfile]

HasSettings(doc) ==
  \/ doc.plugins # {} \/ doc.rulesOff # {}
  \/ doc.shortcuts # "none" \/ doc.profile # NoProfile
=============================================================================
