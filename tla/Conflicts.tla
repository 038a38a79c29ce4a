----------------------------- MODULE Conflicts -----------------------------
(***************************************************************************)
(* The conflicts the shortcut pages list (core.conflicts in                *)
(* core/cmd/crossos/pagedata.go), beside the decisions they speak of       *)
(* (module Dispatch).                                                      *)
(*                                                                         *)
(* The handler groups the rules that fire by their chord and asks a router *)
(* compiled from the group alone who wins.  It is a read: it has no action *)
(* here, and its answer is an expression of Dispatch's state.              *)
(***************************************************************************)
EXTENDS Dispatch

NoApp == ""   \* the context of a rule that names no application

\* The rules act on keys that go down, go up or are flags; a stored list holds
\* no blank (normalizeList); and every id is a name, 0 being nobody's.
ASSUME ConflictsAssumption ==
  /\ \A i \in DOMAIN Builtins :
       /\ Builtins[i].phases \subseteq {"down", "up", "flags"}
       /\ NoApp \notin Builtins[i].apps
       /\ Builtins[i].id # 0
  /\ \A p \in Picks : NoApp \notin p.apps /\ p.id # 0

\* A rule for key releases or flag changes shows it in its chord.
Half(rule) ==
  IF rule.phases \cap {"up", "flags"} = {} THEN "down"
  ELSE CHOOSE h \in rule.phases \cap {"up", "flags"} : TRUE

Chord(rule) == [key |-> rule.key, mods |-> rule.mods, half |-> Half(rule)]

\* The orders the user rule table may have.
Lines ==
  {s \in [1..Cardinality(users) -> users] :
     \A i, j \in DOMAIN s : s[i] = s[j] => i = j}

\* The rules the page looks at, builtin ones first.
Listed(line) == Builtins \o [i \in DOMAIN line |-> Compile(line[i])]

\* The positions of those that contest chords: builtin ones whose plugin and own
\* switch are on, whatever an app's verdict says, and the user's.
Firing(line) ==
  {i \in DOMAIN Listed(line) :
     i \in DOMAIN Builtins =>
       Builtins[i].plugin \in plugins /\ Builtins[i].id \notin rulesOff}

\* The rules with one chord, each at its position.
Group(chord, line) ==
  [i \in {j \in Firing(line) : Chord(Listed(line)[j]) = chord} |->
     Listed(line)[i]]

Contested(group) == Cardinality(DOMAIN group) >= 2
First(group) == group[CHOOSE i \in DOMAIN group : \A j \in DOMAIN group : i <= j]
Members(group) == {group[i] : i \in DOMAIN group}
Named(group) == UNION {r.apps : r \in Members(group)}

\* The contexts a group is resolved in, and those that may come first: the
\* first rule's first application.
AppsOf(rule) == IF rule.apps = {} THEN {NoApp} ELSE rule.apps
Contexts(group) == UNION {AppsOf(r) : r \in Members(group)}
FirstContexts(group) == AppsOf(First(group))

\* Mutant: the probe has the key without its modifiers.
BareProbe(group) ==
  [key |-> First(group).key, mods |-> {}, phase |-> "down",
   source |-> "keyboard", posted |-> FALSE]

\* The key event that stands for the chord.
Probe(group) ==
  [key |-> First(group).key, mods |-> First(group).mods, phase |-> "down",
   source |-> "keyboard", posted |-> FALSE]

\* What the page authorises against: the builtin grants and the user rules'.
GrantSet == Grants(users)

\* Who wins the chord in an application; 0 is nobody.
Winner(group, app) ==
  Route(Members(group), GrantSet, FALSE, Probe(group), Context(app)).rule

\* The row of a chord, from the answer in its first context; a chord nobody
\* wins there has none.
Row(group, first) ==
  IF ~Contested(group) \/ Winner(group, first) = 0 THEN [winner |-> 0, losers |-> {}]
  ELSE [winner |-> Winner(group, first),
        losers |-> {r.id : r \in Members(group)} \ {Winner(group, first)}]

----------------------------------------------------------------------------
(* Properties.                                                              *)

KeyChord(ev) == [key |-> ev.key, mods |-> ev.mods, half |-> "down"]

\* What the keyboard makes of a key now, in an application.
Picked(ev, app) ==
  AtOnce(ev, Context(app), plugins, rulesOff, overrides, users, FALSE).rule

\* The application the row's one answer is about.
Asked(group, first, app) ==
  app = first \/ (first = NoApp /\ app \notin Named(group))

\* When the keyboard picks one of a contested chord's rules, in an application
\* the row's answer is about and that has no verdicts of its own, the chord has
\* a row and the row's winner is that rule: although the page resolves the
\* group alone, with its own list of rules, its own grants and no decision's
\* gates.
RowNamesThePick ==
  phase = "idle" =>
    \A line \in Lines, ev \in Keys, app \in Apps :
      LET group == Group(KeyChord(ev), line)
      IN Contested(group) =>
           \A first \in FirstContexts(group) :
             /\ Asked(group, first, app)
             /\ \A id \in Ids : overrides[<<app, id>>] = "none"
             /\ \E r \in Members(group) : r.id = Picked(ev, app)
             => Row(group, first).winner = Picked(ev, app)

----------------------------------------------------------------------------
(* What the repository says and the code does not do.                       *)

\* "so the editor's dialog cannot disagree with the decision path: the rule it
\* offers to keep is the rule that actually loses" (pagedata.go:1297): no loser
\* of a row is what the keyboard picks, in any application.
LosersLose ==
  phase = "idle" =>
    \A line \in Lines, ev \in Keys, app \in Apps :
      LET group == Group(KeyChord(ev), line)
      IN Members(group) # {} =>
           \A first \in FirstContexts(group) :
             Picked(ev, app) \notin Row(group, first).losers

\* "A group whose winner is identical under every context is not a conflict the
\* user has to act on" (pagedata.go:1766), and has no row.
SettledIsNoRow ==
  phase = "idle" =>
    \A line \in Lines, ev \in Keys :
      LET group == Group(KeyChord(ev), line)
      IN Members(group) # {} =>
           \A first \in FirstContexts(group) :
             Row(group, first).winner # 0 =>
               \E c \in Contexts(group) : Winner(group, c) # Winner(group, first)
=============================================================================
