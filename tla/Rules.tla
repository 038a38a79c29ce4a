------------------------------- MODULE Rules -------------------------------
(***************************************************************************)
(* One key event against one rule table: the pure part of the decision     *)
(* path (core/pkg/event/router.go, core/pkg/rule/rule.go,                  *)
(* core/pkg/userrules, core/pkg/intent and decideLocked's last gate).      *)
(*                                                                         *)
(* A rule's id is a number, in the string order of the code's ids, which   *)
(* is all Resolve asks of them.  A rule with no modes, no apps or no       *)
(* device has the empty set there and matches any.                         *)
(***************************************************************************)
EXTENDS Naturals, FiniteSets

(* The capabilities of the registry that act on windows, the clipboard and
   applications, each with the permission it requires. *)
Permission ==
  [c \in {"window.read", "window.move", "window.close", "window.minimize",
          "window.maximize", "window.switcher", "clipboard.read",
          "clipboard.write", "clipboard.copy", "clipboard.copyPath",
          "app.launch", "app.open"} |-> "access.control"]
Capabilities == DOMAIN Permission

\* performableCapability and dispatch: what a key may be claimed for, and what
\* the worker has a case for.  (The filesystem and terminal capabilities, which
\* both lists hold, are left out.)
PerformableCapability ==
  {"window.move", "window.switcher", "window.close", "window.minimize",
   "window.maximize", "clipboard.copy", "clipboard.copyPath", "app.open"}
Routed ==
  {"window.move", "window.switcher", "clipboard.copy", "clipboard.copyPath",
   "app.open"}

Scope == [global |-> 0, app |-> 1, window |-> 2, device |-> 3]

----------------------------------------------------------------------------
(* User rules: the picked dimensions, and the rule they compile to. *)

\* What the rank of a picked rule is made of.
Dimensions(pick) ==
  Cardinality({d \in {"modes", "apps", "device"} : pick[d] # {}})

Derive(pick) ==
  LET scope == IF pick.device # {} THEN Scope.device
               ELSE IF pick.modes \cup pick.apps # {} THEN Scope.app
               ELSE Scope.global
  IN [spec |-> 1 + Dimensions(pick),
      scope |-> scope,
      prio |-> IF pick.modes # {} /\ "native" \notin pick.modes THEN 100
               ELSE IF scope # Scope.global THEN 80 ELSE 10]

Compile(pick) ==
  LET rank == Derive(pick)
  IN [id |-> pick.id, plugin |-> "user", key |-> pick.key, mods |-> pick.mods,
      phases |-> {}, modes |-> pick.modes, apps |-> pick.apps,
      device |-> pick.device, prio |-> rank.prio, spec |-> rank.spec,
      scope |-> rank.scope, cap |-> pick.cap, emit |-> pick.emit]

\* Two picks with one chord and one scope are one rule, whatever they do.
SameIdentity(a, b) ==
  \A d \in {"key", "mods", "modes", "apps", "device"} : a[d] = b[d]

\* validated: the table a create or an update would leave.
Valid(picks) ==
  /\ \A p \in picks : p.cap \in Capabilities
  /\ \A p, q \in picks : SameIdentity(p, q) => p = q

\* The permissions the stored rules' capabilities need, which the pseudo-plugin
\* "user" is granted.
UserGrants(picks) == {Permission[p.cap] : p \in picks}

----------------------------------------------------------------------------
(* The router. *)

Claims(rule, ev) ==
  IF rule.phases = {} THEN ev.phase = "down" ELSE ev.phase \in rule.phases

Matches(rule, ev, ctx) ==
  /\ Claims(rule, ev)
  /\ rule.key = ev.key
  /\ rule.mods \subseteq ev.mods
  /\ rule.modes # {} => ctx.mode \in rule.modes
  /\ rule.apps # {} => ctx.app \in rule.apps
  /\ rule.device = {}   \* no keystroke of the tap names its device

\* rule.Resolve: specificity, then scope, then priority, then the id.
Outranks(a, b) ==
  \/ a.spec > b.spec
  \/ a.spec = b.spec /\ a.scope > b.scope
  \/ a.spec = b.spec /\ a.scope = b.scope /\ a.prio > b.prio
  \/ a.spec = b.spec /\ a.scope = b.scope /\ a.prio = b.prio /\ a.id < b.id

\* What Resolve compares of a rule.
Ranked(rule) == {rule.id, rule.spec, rule.scope, rule.prio} \subseteq Nat

Resolve(cands) == CHOOSE w \in cands : \A c \in cands \ {w} : Outranks(w, c)

Pass == [decision |-> "pass", cap |-> "none", rule |-> 0]
Consume(rule) == [decision |-> "consume", cap |-> "none", rule |-> rule.id]
Replace(rule) == [decision |-> "replace", cap |-> rule.cap, rule |-> rule.id]

\* intent.Authorize: the capability exists and its permission is granted.
Authorized(rule, grants) ==
  /\ rule.cap \in Capabilities
  /\ Permission[rule.cap] \in grants[rule.plugin]

\* Router.Decide over a compiled table.
Route(table, grants, killed, ev, ctx) ==
  LET cands == {r \in table : Matches(r, ev, ctx)}
      win == Resolve(cands)
  IN IF killed \/ ev.source = "synthetic" \/ cands = {} THEN Pass
     ELSE IF win.emit /\ Authorized(win, grants) THEN Replace(win)
     ELSE Consume(win)

\* decideLocked's gate: a claim for a capability nobody performs is dropped.
Gate(verdict) ==
  IF verdict.decision = "replace" /\ verdict.cap \notin PerformableCapability
  THEN [Pass EXCEPT !.rule = verdict.rule] ELSE verdict
=============================================================================
