--------------------------- MODULE DispatchProofs ---------------------------
(***************************************************************************)
(* What module Dispatch keeps, for any rule tables, keys, applications,    *)
(* queue and edits.                                                        *)
(*                                                                         *)
(* The router first: the rules of a table have a strict and total order,   *)
(* so a set of candidates has one winner, and every decision is a verdict. *)
(* Then the line of swallowed keys (QInv): those whose action ran, the one *)
(* that runs and those queued are in the order they were pressed, and the  *)
(* key under decision is newer than all of them.  Last, what a decision    *)
(* has read (Traced): while at most one edit overlaps it, one              *)
(* configuration, from before or from after the edit, explains everything  *)
(* read so far and agrees with everything still to be read.  And the       *)
(* conflicts page: its own router, over one chord's rules, agrees with the *)
(* keyboard's.                                                             *)
(***************************************************************************)
EXTENDS Conflicts, FiniteSetTheorems, WellFoundedInduction, TLAPS

-----------------------------------------------------------------------------
(* The router. *)

\* A set of numbers has a least one.
LEMMA Least ==
  ASSUME NEW S, S \subseteq Nat, S # {}
  PROVE  \E m \in S : \A n \in S : m <= n
<1>1. PICK m \in S : \A n \in S : ~(<<n, m>> \in OpToRel(<, Nat))
  BY NatLessThanWellFounded, WFMin
<1>2. ASSUME NEW n \in S PROVE m <= n
  <2>1. n \in Nat /\ m \in Nat
    OBVIOUS
  <2>2. <<n, m>> \in Nat \X Nat
    BY <2>1
  <2> QED BY <1>1, <2>1, <2>2 DEF OpToRel
<1> QED BY <1>2

\* A table no two of whose rules have one id.
Table(T) ==
  /\ IsFiniteSet(T)
  /\ \A a \in T : Ranked(a)
  /\ \A a, b \in T : a.id = b.id => a = b

\* The order of rules is strict and total on a table.
LEMMA RankIsAnOrder ==
  ASSUME NEW T, Table(T)
  PROVE  /\ \A a \in T : ~Outranks(a, a)
         /\ \A a, b, c \in T : Outranks(a, b) /\ Outranks(b, c) => Outranks(a, c)
         /\ \A a, b \in T : a # b => Outranks(a, b) \/ Outranks(b, a)
<1>1. \A a \in T : a.id \in Nat /\ a.spec \in Nat /\ a.scope \in Nat /\ a.prio \in Nat
  BY DEF Table, Ranked
<1>2. \A a \in T : ~Outranks(a, a)
  BY <1>1 DEF Outranks
<1>3. \A a, b, c \in T : Outranks(a, b) /\ Outranks(b, c) => Outranks(a, c)
  BY <1>1 DEF Outranks
<1>4. \A a, b \in T : a # b => Outranks(a, b) \/ Outranks(b, a)
  BY <1>1 DEF Outranks, Table
<1> QED BY <1>2, <1>3, <1>4

\* So a table that is not empty has one rule above all others, and Resolve
\* finds it.
LEMMA ResolveFinds ==
  ASSUME NEW T, Table(T), T # {}
  PROVE  /\ Resolve(T) \in T
         /\ \A c \in T \ {Resolve(T)} : Outranks(Resolve(T), c)
<1> DEFINE Up(t) == {s \in T : Outranks(s, t)}
           N == {Cardinality(Up(t)) : t \in T}
<1>1. \A t \in T : IsFiniteSet(Up(t)) /\ Cardinality(Up(t)) \in Nat
  BY FS_Subset, FS_CardinalityType DEF Table
<1>2. PICK m \in N : \A n \in N : m <= n
  <2>1. N \subseteq Nat /\ N # {}
    BY <1>1
  <2> HIDE DEF N
  <2> QED BY <2>1, Least
<1>3. PICK w \in T : Cardinality(Up(w)) = m
  OBVIOUS
<1>4. \A t \in T : Cardinality(Up(w)) <= Cardinality(Up(t))
  BY <1>2, <1>3
<1>5. ASSUME NEW s \in Up(w) PROVE FALSE
  <2>1. Up(s) \subseteq Up(w) /\ s \notin Up(s) /\ s \in T
    BY RankIsAnOrder
  <2>2. /\ Cardinality(Up(s)) <= Cardinality(Up(w))
        /\ Cardinality(Up(w)) = Cardinality(Up(s)) => Up(w) = Up(s)
    BY <1>1, <2>1, FS_Subset
  <2>3. Cardinality(Up(w)) <= Cardinality(Up(s))
    BY <1>4, <2>1
  <2>4. Cardinality(Up(w)) = Cardinality(Up(s))
    BY <1>1, <2>1, <2>2, <2>3
  <2> QED BY <2>1, <2>2, <2>4
<1>6. \A c \in T \ {w} : Outranks(w, c)
  BY <1>5, RankIsAnOrder
<1> QED BY <1>6 DEF Resolve

\* The rules that match are a table too.
LEMMA SomeOfATable ==
  ASSUME NEW T, Table(T), NEW S \in SUBSET T
  PROVE  Table(S)
BY FS_Subset DEF Table

\* What the router says is a verdict, and a claim is one for a capability.
LEMMA RouteIs ==
  ASSUME NEW T, Table(T), NEW grants, NEW kill, NEW ev, NEW ctx
  PROVE  /\ Route(T, grants, kill, ev, ctx) \in Verdicts
         /\ Gate(Route(T, grants, kill, ev, ctx)) \in Verdicts
         /\ Gate(Route(T, grants, kill, ev, ctx)).decision = "replace" =>
              Gate(Route(T, grants, kill, ev, ctx)).cap \in Capabilities
<1> DEFINE cands == {r \in T : Matches(r, ev, ctx)}
           win == Resolve(cands)
           v == Route(T, grants, kill, ev, ctx)
<1>1. cands # {} => win \in T
  <2>1. Table(cands)
    BY SomeOfATable
  <2> QED BY <2>1, ResolveFinds
<1>2. cands # {} => win.id \in Nat
  BY <1>1 DEF Table, Ranked
<1> HIDE DEF win
<1>3. v = Pass \/ (cands # {} /\ win.emit /\ Authorized(win, grants) /\ v = Replace(win))
        \/ (cands # {} /\ v = Consume(win))
  BY DEF Route, win
<1> HIDE DEF cands, v
<1>4. /\ v \in Verdicts
      /\ v.decision = "replace" => v.cap \in Capabilities
  BY <1>2, <1>3 DEF Verdicts, Pass, Replace, Consume, Authorized
<1>5. Gate(v) \in Verdicts /\ (Gate(v).decision = "replace" => Gate(v).cap \in Capabilities)
  <2>1. Gate(v) = v \/ Gate(v) = [Pass EXCEPT !.rule = v.rule]
    BY DEF Gate
  <2>2. [Pass EXCEPT !.rule = v.rule] = [decision |-> "pass", cap |-> "none", rule |-> v.rule]
    BY DEF Pass
  <2>3. v.rule \in Nat
    BY <1>4 DEF Verdicts
  <2> QED BY <1>4, <2>1, <2>2, <2>3 DEF Verdicts
<1> QED BY <1>4, <1>5 DEF v

\* The picked dimensions are three at most.
LEMMA RankOfAPick ==
  ASSUME NEW p, p.id \in Nat
  PROVE  Ranked(Compile(p)) /\ Compile(p).id = p.id
<1> DEFINE D == {d \in {"modes", "apps", "device"} : p[d] # {}}
<1>1. IsFiniteSet({"modes", "apps", "device"})
  <2>1. IsFiniteSet({"modes"})
    BY FS_Singleton
  <2>2. IsFiniteSet({"modes"} \cup {"apps"})
    BY <2>1, FS_AddElement
  <2>3. IsFiniteSet(({"modes"} \cup {"apps"}) \cup {"device"})
    BY <2>2, FS_AddElement
  <2>4. {"modes", "apps", "device"} = ({"modes"} \cup {"apps"}) \cup {"device"}
    OBVIOUS
  <2> QED BY <2>3, <2>4
<1>2. D \in SUBSET {"modes", "apps", "device"}
  OBVIOUS
<1>3. Cardinality(D) \in Nat
  BY <1>1, <1>2, FS_Subset, FS_CardinalityType
<1>4. Dimensions(p) \in Nat
  BY <1>3 DEF Dimensions
<1>5. /\ Derive(p).spec = 1 + Dimensions(p)
      /\ Derive(p).scope \in {0, 1, 3} /\ Derive(p).prio \in {10, 80, 100}
  BY DEF Derive, Scope
<1> QED BY <1>4, <1>5 DEF Compile, Ranked

\* Whatever builtin rules fire, with the user's they are a table.
LEMMA TablesAre ==
  ASSUME NEW us \in SUBSET Picks, Valid(us), IsFiniteSet(us),
         NEW F \in SUBSET {Builtins[i] : i \in DOMAIN Builtins}
  PROVE  Table({Compile(p) : p \in us} \cup F)
<1> USE DispatchAssumption
<1> DEFINE C == {Compile(p) : p \in us}
           B == {Builtins[i] : i \in DOMAIN Builtins}
<1>1. \A p \in us : Ranked(Compile(p)) /\ Compile(p).id = p.id /\ p.id \notin Ids
  BY RankOfAPick
<1>2. IsFiniteSet(C)
  <2> DEFINE f == [p \in us |-> Compile(p)]
  <2>1. f \in Surjection(us, C)
    BY DEF Surjection
  <2> QED BY <2>1, FS_Surjection
<1>3. IsFiniteSet(B)
  <2>1. Len(Builtins) \in Nat /\ DOMAIN Builtins = 1 .. Len(Builtins)
    BY DEF DispatchAssumption
  <2>2. IsFiniteSet(DOMAIN Builtins)
    BY <2>1, FS_Interval
  <2>3. Builtins \in Surjection(DOMAIN Builtins, B)
    BY DEF Surjection, DispatchAssumption
  <2> QED BY <2>2, <2>3, FS_Surjection
<1>4. IsFiniteSet(C \cup F)
  <2>1. IsFiniteSet(F)
    BY <1>3, FS_Subset
  <2> QED BY <1>2, <2>1, FS_Union
<1>5. \A a \in C \cup F : Ranked(a)
  BY <1>1 DEF DispatchAssumption
<1>6. \A p, q \in us : p.id = q.id => p = q
  BY DEF DispatchAssumption, Valid
<1>7. ASSUME NEW a \in C \cup F, NEW b \in C \cup F, a.id = b.id PROVE a = b
  <2>1. CASE a \in C /\ b \in C
    BY <2>1, <1>1, <1>6, <1>7
  <2>2. CASE a \in F /\ b \in F
    BY <2>2, <1>7 DEF DispatchAssumption
  <2>3. \A f \in F : f.id \in Ids
    BY DEF Ids
  <2> QED BY <1>1, <1>7, <2>1, <2>2, <2>3
<1> QED BY <1>4, <1>5, <1>7 DEF Table

-----------------------------------------------------------------------------
(* What a decision has read. *)

BuiltinSet == {Builtins[i] : i \in DOMAIN Builtins}

\* The user rules read are those of some moment, the builtin ones that fire are
\* builtin ones, and the position is that of a rule whose plugin was on.
Reading ==
  /\ phase \notin {"idle", "table"} =>
       \E us \in SUBSET Picks :
         Valid(us) /\ IsFiniteSet(us) /\ dec.table = {Compile(p) : p \in us}
  /\ dec.fires \subseteq BuiltinSet
  /\ phase \in {"table", "grants"} => dec.fires = {}
  /\ phase \in {"rule", "override"} =>
       dec.at \in DOMAIN Builtins /\ Builtins[dec.at].plugin \in dec.plugins
  /\ phase = "killed" => dec.at = Len(Builtins) + 1
  /\ phase = "deliver" /\ dec.verdict.decision = "replace" =>
       dec.verdict.cap \in Capabilities

\* The next rule to ask about is the first one left whose plugin was on.
LEMMA NextRuleIs ==
  ASSUME NEW i \in 1 .. Len(Builtins) + 1, NEW on
  PROVE  /\ NextRule(i, on) \in i .. Len(Builtins) + 1
         /\ NextRule(i, on) <= Len(Builtins) =>
              /\ NextRule(i, on) \in DOMAIN Builtins
              /\ Builtins[NextRule(i, on)].plugin \in on
         /\ \A k \in DOMAIN Builtins :
              i <= k /\ k < NextRule(i, on) => Builtins[k].plugin \notin on
<1> DEFINE rest == {j \in i..Len(Builtins) : Builtins[j].plugin \in on}
<1>1. Len(Builtins) \in Nat /\ DOMAIN Builtins = 1 .. Len(Builtins)
  BY DispatchAssumption
<1>2. CASE rest = {}
  <2>1. NextRule(i, on) = Len(Builtins) + 1
    BY <1>2 DEF NextRule
  <2> QED BY <1>1, <1>2, <2>1
<1>3. CASE rest # {}
  <2>1. rest \subseteq Nat
    BY <1>1
  <2>2. \E j \in rest : \A k \in rest : j <= k
    <3> HIDE DEF rest
    <3> QED BY <1>3, <2>1, Least
  <2>3. NextRule(i, on) = CHOOSE j \in rest : \A k \in rest : j <= k
    BY <1>3 DEF NextRule
  <2>4. NextRule(i, on) \in rest /\ \A k \in rest : NextRule(i, on) <= k
    BY <2>2, <2>3
  <2> QED BY <1>1, <2>1, <2>4
<1> QED BY <1>2, <1>3

\* The decision of a moment is a verdict.
LEMMA AtOnceIs ==
  ASSUME NEW ev, NEW ctx, NEW on, NEW off, NEW own, NEW us \in SUBSET Picks,
         Valid(us), IsFiniteSet(us), NEW kill
  PROVE  AtOnce(ev, ctx, on, off, own, us, kill) \in Verdicts
<1> DEFINE F == {r \in {Builtins[i] : i \in DOMAIN Builtins} : Fires(r, ctx, on, off, own)}
<1>1. Table({Compile(p) : p \in us} \cup F)
  BY TablesAre
<1> QED BY <1>1, RouteIs DEF AtOnce

\* Those whose action ran, the one that runs and those queued, in that order.
Line ==
  /\ \A i, j \in DOMAIN jobs : i < j => jobs[i].key < jobs[j].key
  /\ \A i \in DOMAIN running, j \in DOMAIN jobs : running[i].key < jobs[j].key
  /\ \A i, j \in DOMAIN performed : i < j => performed[i] < performed[j]
  /\ \A i \in DOMAIN performed, j \in DOMAIN running : performed[i] < running[j].key
  /\ \A i \in DOMAIN performed, j \in DOMAIN jobs : performed[i] < jobs[j].key

\* The key under decision is newer than every swallowed one.
Newest == phase # "idle" => pressed # 0 /\ pressed \notin claimed

\* The inductive invariant of the line.
QInv == TypeOK /\ Reading /\ Line /\ Newest /\ ClaimsAccounted

\* It holds before the first key.
LEMMA QInit == Init => QInv
<1> USE DispatchAssumption
<1> SUFFICES ASSUME Init PROVE QInv
  OBVIOUS
<1>1. TypeOK
  <2>1. Pass \in Verdicts /\ dec.verdict = Pass
    BY DEF Init, Pass, Verdicts, NoDecision
  <2>2. <<>> \in Seq(Jobs) /\ <<>> \in Seq(Nat) /\ <<>> \in Seq({CopyChord}) /\ Len(<<>>) = 0
    OBVIOUS
  <2>3. overrides \in [Apps \X Ids -> {"none", "on", "off"}]
    BY DEF Init
  <2>4. QueueSize \in Nat
    OBVIOUS
  <2>5. /\ killed \in BOOLEAN /\ tapUp \in BOOLEAN /\ pruned \in BOOLEAN
    BY Zenon DEF Init
  <2>6. /\ plugins \subseteq Plugins /\ rulesOff \subseteq Ids
        /\ users \subseteq Picks /\ Valid(users) /\ IsFiniteSet(users)
    BY DEF Init
  <2>7. phase = "idle" /\ DOMAIN dec = DOMAIN NoDecision
    BY DEF Init
  <2>8. /\ jobs = <<>> /\ running = <<>> /\ performed = <<>> /\ injected = <<>>
        /\ failures = {} /\ claimed = {} /\ moments = {}
        /\ pressed = 0 /\ edited = 0 /\ overlap = 0 /\ cached \in Apps
    BY DEF Init
  <2>9. Len(jobs) <= QueueSize /\ Len(running) <= 1
    BY <2>2, <2>4, <2>8
  <2> QED BY <2>1, <2>2, <2>3, <2>5, <2>6, <2>7, <2>8, <2>9 DEF TypeOK
<1>2. Reading
  BY DEF Init, Reading, NoDecision
<1>3. Line /\ Newest
  BY DEF Init, Line, Newest
<1>4. ClaimsAccounted
  BY DEF Init, ClaimsAccounted, Waiting, Done
<1> QED BY <1>1, <1>2, <1>3, <1>4 DEF QInv

\* A new key: its decision starts with what is cached and what is on.
LEMMA DecideKeeps ==
  ASSUME QInv, NEW ev, Decide(ev), injected' \in Seq({CopyChord})
  PROVE  QInv'
<1> USE DispatchAssumption DEF configVars
<1>1. AtOnce(ev, Context(cached), plugins, rulesOff, overrides, users, killed) \in Verdicts
  BY AtOnceIs DEF QInv, TypeOK
<1>2. /\ DOMAIN dec' = DOMAIN NoDecision /\ dec'.key = pressed + 1 /\ dec'.ctx = Context(cached)
      /\ dec'.verdict = Pass /\ dec'.fires = {} /\ phase' = "table" /\ pressed' = pressed + 1
  BY DEF Decide, NoDecision
<1>3. Pass \in Verdicts
  BY DEF Pass, Verdicts
<1>0. /\ phase = "idle"
      /\ UNCHANGED <<plugins, rulesOff, overrides, users, killed, tapUp, cached, jobs,
                     running, failures, performed, claimed, edited>>
      /\ overlap' = 0 /\ pruned' = FALSE
      /\ moments' = {AtOnce(ev, Context(cached), plugins, rulesOff, overrides, users, killed)}
  BY DEF Decide
<1>4. TypeOK'
  <2>1. dec'.ctx.app \in Apps
    BY <1>2 DEF Context, QInv, TypeOK
  <2>2. /\ pressed' \in Nat /\ failures' \subseteq 1 .. pressed' /\ claimed' \subseteq 1 .. pressed'
    BY <1>0, <1>2 DEF QInv, TypeOK
  <2>3. moments' \subseteq Verdicts
    BY <1>0, <1>1
  <2>4. overlap' \in Nat /\ pruned' \in BOOLEAN
    BY <1>0
  <2> QED BY <1>0, <1>2, <1>3, <2>1, <2>2, <2>3, <2>4 DEF QInv, TypeOK
<1>5. Reading'
  BY <1>2 DEF Reading
<1>6. Line' /\ Newest'
  BY <1>0, <1>2 DEF QInv, TypeOK, Line, Newest
<1>7. ClaimsAccounted'
  <2>1. Waiting' = Waiting /\ Done' = Done
    BY <1>0 DEF Waiting, Done
  <2>2. ClaimsAccounted
    BY DEF QInv
  <2> QED BY <1>0, <2>1, <2>2 DEF ClaimsAccounted
<1> QED BY <1>4, <1>5, <1>6, <1>7 DEF QInv

\* A step that only goes on reading leaves the line as it is.
LEMMA ReadKeeps ==
  ASSUME QInv, Read, phase # "idle", phase' # "idle", Reading',
         DOMAIN dec' = DOMAIN NoDecision, dec'.verdict \in Verdicts,
         dec'.key = dec.key, dec'.ctx = dec.ctx,
         phase' \in {"table", "grants", "rule", "override", "killed", "deliver"}
  PROVE  QInv'
<1> USE DEF configVars, workVars, pastVars
<1>1. TypeOK'
  BY DEF QInv, TypeOK, Read
<1>2. (Line /\ Newest)'
  BY DEF QInv, Read, Line, Newest
<1>3. ClaimsAccounted'
  BY DEF QInv, Read, ClaimsAccounted, Waiting, Done
<1> QED BY <1>1, <1>2, <1>3 DEF QInv

\* Nor does a read that goes on to the next rule.
LEMMA SeekKeeps ==
  ASSUME QInv, Read, phase \notin {"idle", "table"},
         NEW d, DOMAIN d = DOMAIN NoDecision, d.verdict \in Verdicts,
         d.key = dec.key, d.ctx = dec.ctx, d.plugins = dec.plugins,
         d.table = dec.table, d.fires \subseteq BuiltinSet,
         NEW i \in 1 .. Len(Builtins) + 1, Seek(d, i)
  PROVE  QInv'
<1> DEFINE at == NextRule(i, d.plugins)
<1>1. Len(Builtins) \in Nat /\ DOMAIN Builtins = 1 .. Len(Builtins)
  BY DispatchAssumption
<1>2. /\ at \in i .. Len(Builtins) + 1
      /\ at <= Len(Builtins) => at \in DOMAIN Builtins /\ Builtins[at].plugin \in d.plugins
  BY NextRuleIs
<1>3. dec' = [d EXCEPT !.at = at] /\ phase' = IF at > Len(Builtins) THEN "killed" ELSE "rule"
  BY DEF Seek
<1> HIDE DEF at
<1>4. /\ DOMAIN dec' = DOMAIN NoDecision /\ dec'.verdict = d.verdict /\ dec'.key = dec.key
      /\ dec'.ctx = dec.ctx /\ dec'.plugins = d.plugins /\ dec'.table = dec.table
      /\ dec'.fires = d.fires /\ dec'.at = at
  BY <1>3 DEF NoDecision
<1>5. Reading'
  BY <1>1, <1>2, <1>3, <1>4 DEF QInv, Reading
<1> QED BY <1>3, <1>4, <1>5, ReadKeeps

\* Every step of the tap's callback keeps it.
LEMMA CallbackKeeps == QInv /\ Callback => QInv'
<1> USE DispatchAssumption
<1> SUFFICES ASSUME QInv, Callback PROVE QInv'
  OBVIOUS
<1>0. /\ DOMAIN dec = DOMAIN NoDecision /\ dec.verdict \in Verdicts
      /\ users \in SUBSET Picks /\ Valid(users) /\ IsFiniteSet(users)
      /\ dec.fires \subseteq BuiltinSet
      /\ Len(Builtins) \in Nat /\ DOMAIN Builtins = 1 .. Len(Builtins)
  BY DEF QInv, TypeOK, Reading
<1>1. ASSUME NEW ev \in Keys, Press(ev) PROVE QInv'
  BY <1>1, DecideKeeps DEF Press, QInv, TypeOK
<1>2. CASE Return
  <2>1. injected' \in Seq({CopyChord})
    BY <1>2 DEF Return, QInv, TypeOK
  <2> QED BY <1>2, <2>1, DecideKeeps DEF Return
<1>3. CASE ReadTable
  <2>1. /\ DOMAIN dec' = DOMAIN NoDecision /\ dec'.verdict = dec.verdict /\ dec'.key = dec.key
        /\ dec'.ctx = dec.ctx /\ dec'.table = {Compile(p) : p \in users}
        /\ dec'.fires = dec.fires
    BY <1>0, <1>3 DEF ReadTable, NoDecision
  <2>2. Reading'
    BY <1>0, <1>3, <2>1 DEF QInv, Reading, ReadTable
  <2> QED BY <1>0, <1>3, <2>1, <2>2, ReadKeeps DEF ReadTable
<1>4. CASE ReadGrants
  <2> DEFINE d == [dec EXCEPT !.grants = Grants(users)]
  <2>1. /\ DOMAIN d = DOMAIN NoDecision /\ d.verdict = dec.verdict /\ d.key = dec.key
        /\ d.ctx = dec.ctx /\ d.table = dec.table /\ d.fires = dec.fires
        /\ d.plugins = dec.plugins
    BY <1>0 DEF NoDecision
  <2>2. Seek(d, 1) /\ 1 \in 1 .. Len(Builtins) + 1 /\ Read /\ phase = "grants"
    BY <1>0, <1>4 DEF ReadGrants
  <2> HIDE DEF d
  <2> QED BY <1>0, <2>1, <2>2, SeekKeeps
<1>5. CASE ReadRule
  <2>1. /\ DOMAIN dec' = DOMAIN NoDecision /\ dec'.verdict = dec.verdict /\ dec'.key = dec.key
        /\ dec'.ctx = dec.ctx /\ dec'.table = dec.table /\ dec'.fires = dec.fires
        /\ dec'.at = dec.at /\ dec'.plugins = dec.plugins
    BY <1>0, <1>5 DEF ReadRule, NoDecision
  <2>2. Reading'
    BY <1>5, <2>1 DEF QInv, Reading, ReadRule
  <2> QED BY <1>0, <1>5, <2>1, <2>2, ReadKeeps DEF ReadRule
<1>6. CASE ReadOverride
  <2> DEFINE rule == Builtins[dec.at]
             fires == Shadow(dec.on, overrides[<<dec.ctx.app, rule.id>>])
             d == [dec EXCEPT !.fires = IF fires THEN @ \cup {rule} ELSE @]
  <2>1. dec.at \in DOMAIN Builtins /\ rule \in BuiltinSet
    BY <1>6 DEF QInv, Reading, ReadOverride, BuiltinSet
  <2>2. /\ DOMAIN d = DOMAIN NoDecision /\ d.verdict = dec.verdict /\ d.key = dec.key
        /\ d.ctx = dec.ctx /\ d.table = dec.table
        /\ d.plugins = dec.plugins
        /\ d.fires = dec.fires \/ d.fires = dec.fires \cup {rule}
    BY <1>0 DEF NoDecision
  <2>3. Seek(d, dec.at + 1) /\ Read /\ phase = "override"
    BY <1>6 DEF ReadOverride
  <2>4. dec.at + 1 \in 1 .. Len(Builtins) + 1
    BY <1>0, <2>1
  <2>5. d.fires \subseteq BuiltinSet
    BY <1>0, <2>1, <2>2
  <2> HIDE DEF d, rule
  <2> QED BY <1>0, <2>2, <2>3, <2>4, <2>5, SeekKeeps
<1>7. CASE ReadKilled
  <2> DEFINE v == Gate(Route(dec.table \cup dec.fires, dec.grants, killed, dec.ev, dec.ctx))
  <2>1. PICK us \in SUBSET Picks :
          Valid(us) /\ IsFiniteSet(us) /\ dec.table = {Compile(p) : p \in us}
    BY <1>7 DEF QInv, Reading, ReadKilled
  <2>2. Table(dec.table \cup dec.fires)
    BY <1>0, <2>1, TablesAre DEF BuiltinSet
  <2>3. v \in Verdicts /\ (v.decision = "replace" => v.cap \in Capabilities)
    BY <2>2, RouteIs
  <2>4. dec' = [dec EXCEPT !.verdict = v] /\ phase' = "deliver" /\ phase = "killed" /\ Read
    BY <1>7 DEF ReadKilled
  <2> HIDE DEF v
  <2>5. /\ DOMAIN dec' = DOMAIN NoDecision /\ dec'.verdict = v /\ dec'.key = dec.key
        /\ dec'.ctx = dec.ctx /\ dec'.table = dec.table /\ dec'.fires = dec.fires
    BY <1>0, <2>4 DEF NoDecision
  <2>6. Reading'
    BY <1>0, <2>1, <2>3, <2>4, <2>5 DEF Reading
  <2> QED BY <2>3, <2>4, <2>5, <2>6, ReadKeeps
<1>8. CASE Deliver
  <2> USE DEF configVars
  <2>0. /\ phase = "deliver" /\ phase' = "idle" /\ dec' = NoDecision /\ dec.key = pressed
        /\ pressed' = pressed /\ pressed \in Nat /\ pressed \notin claimed /\ pressed # 0
        /\ UNCHANGED <<running, performed, injected>>
        /\ jobs \in Seq(Jobs) /\ running \in Seq(Jobs) /\ performed \in Seq(Nat)
        /\ Len(jobs) \in Nat /\ DOMAIN jobs = 1 .. Len(jobs)
        /\ failures \subseteq 1 .. pressed /\ claimed \subseteq 1 .. pressed
    BY <1>8 DEF Deliver, QInv, TypeOK, Newest
  <2>9. /\ pressed \in 1 .. pressed /\ pressed' = pressed
        /\ failures \subseteq 1 .. pressed /\ claimed \subseteq 1 .. pressed
        /\ \A k \in claimed : k < pressed
    <3>1. pressed \in Nat /\ pressed # 0 /\ pressed \notin claimed
      BY <2>0
    <3>2. claimed \subseteq 1 .. pressed
      BY <2>0
    <3> QED BY <2>0, <3>1, <3>2
  <2>1. Pass \in Verdicts /\ NoDecision.verdict = Pass /\ NoDecision.fires = {}
    BY DEF Pass, Verdicts, NoDecision
  <2>2. Reading' /\ Newest'
    BY <2>0, <2>1 DEF Reading, Newest
  <2>3. CASE UNCHANGED <<jobs, failures, claimed>>
    <3>1. TypeOK'
      BY <1>8, <2>0, <2>1, <2>3, ZenonT(30) DEF QInv, TypeOK, Deliver
    <3>2. (Line /\ ClaimsAccounted)'
      BY <2>0, <2>3 DEF QInv, Line, ClaimsAccounted, Waiting, Done
    <3> QED BY <2>2, <3>1, <3>2 DEF QInv
  <2>4. CASE /\ claimed' = claimed \cup {pressed}
             /\ jobs' = jobs /\ failures' = failures \cup {pressed}
    <3>1. TypeOK'
      <4>1. failures' \subseteq 1 .. pressed' /\ claimed' \subseteq 1 .. pressed'
        BY <2>9, <2>4
      <4> QED BY <1>8, <2>0, <2>1, <2>4, <4>1, ZenonT(30) DEF QInv, TypeOK, Deliver
    <3>2. Line'
      BY <2>0, <2>4 DEF QInv, Line
    <3>3. ClaimsAccounted'
      <4>1. Waiting' = Waiting /\ Done' = Done
        BY <2>0, <2>4 DEF Waiting, Done
      <4> QED BY <2>0, <2>4, <4>1 DEF QInv, ClaimsAccounted
    <3> QED BY <2>2, <3>1, <3>2, <3>3 DEF QInv
  <2>5. CASE /\ claimed' = claimed \cup {pressed} /\ Len(jobs) < QueueSize
             /\ failures' = failures
             /\ jobs' = Append(jobs, [key |-> pressed, cap |-> dec.verdict.cap])
             /\ dec.verdict.decision = "replace"
    <3> DEFINE job == [key |-> pressed, cap |-> dec.verdict.cap]
    <3>1. job \in Jobs
      BY <2>0, <2>5 DEF QInv, Reading, Jobs
    <3>2. job.key = pressed /\ jobs' = Append(jobs, job)
      BY <2>5
    <3> HIDE DEF job
    <3>3. /\ jobs' \in Seq(Jobs) /\ Len(jobs') = Len(jobs) + 1 /\ Len(jobs') <= QueueSize
          /\ DOMAIN jobs' = 1 .. Len(jobs) + 1
          /\ \A i \in DOMAIN jobs : jobs'[i] = jobs[i]
          /\ jobs'[Len(jobs) + 1] = job
      BY <2>0, <2>5, <3>1, <3>2
    <3>4. TypeOK'
      <4>1. claimed' \subseteq 1 .. pressed'
        BY <2>9, <2>5
      <4> QED BY <1>8, <2>0, <2>1, <2>5, <3>3, <4>1 DEF QInv, TypeOK, Deliver
    <3>5. /\ \A i \in DOMAIN jobs : jobs[i].key \in claimed
          /\ \A i \in DOMAIN running : running[i].key \in claimed
          /\ \A i \in DOMAIN performed : performed[i] \in claimed
      BY DEF QInv, ClaimsAccounted, Waiting, Done
    <3>6. \A k \in claimed : k < pressed
      BY <2>9
    <3>7. Line'
      <4>1. /\ DOMAIN jobs = 1 .. Len(jobs) /\ Len(jobs) \in Nat /\ Line
            /\ running' = running /\ performed' = performed
        BY <2>0 DEF QInv
      <4>2. \A i \in DOMAIN jobs' : i \in DOMAIN jobs \/ i = Len(jobs) + 1
        BY <4>1, <3>3
      <4>3. \A i \in DOMAIN jobs : i < Len(jobs) + 1 /\ ~(Len(jobs) + 1 < i)
        BY <4>1
      <4> QED BY <4>1, <4>2, <4>3, <3>2, <3>3, <3>5, <3>6 DEF Line
    <3>8. Waiting' = Waiting \cup {pressed} /\ Done' = Done
      <4>1. DOMAIN jobs' = DOMAIN jobs \cup {Len(jobs) + 1}
        BY <2>0, <3>3
      <4>2. running' = running /\ performed' = performed
        BY <2>0
      <4> QED BY <4>1, <4>2, <3>2, <3>3 DEF Waiting, Done
    <3>9. ClaimsAccounted'
      BY <2>0, <2>5, <3>6, <3>8 DEF QInv, ClaimsAccounted
    <3> QED BY <2>2, <3>4, <3>7, <3>9 DEF QInv
  <2> QED BY <1>8, <2>0, <2>3, <2>4, <2>5 DEF Deliver, Enqueue
<1> QED BY <1>1, <1>2, <1>3, <1>4, <1>5, <1>6, <1>7, <1>8 DEF Callback

\* The worker takes the oldest job, and a job it ran or gave up is accounted.
LEMMA WorkerKeeps == QInv /\ Worker => QInv'
<1> SUFFICES ASSUME QInv, Worker PROVE QInv'
  OBVIOUS
<1> USE DEF configVars, tapVars, pastVars
<1>0. /\ jobs \in Seq(Jobs) /\ running \in Seq(Jobs) /\ performed \in Seq(Nat)
      /\ Len(jobs) \in Nat /\ DOMAIN jobs = 1 .. Len(jobs) /\ Len(jobs) <= QueueSize
      /\ Len(running) \in Nat /\ DOMAIN running = 1 .. Len(running) /\ Len(running) <= 1
      /\ Len(performed) \in Nat /\ DOMAIN performed = 1 .. Len(performed)
      /\ QueueSize \in Nat
      /\ Line /\ ClaimsAccounted
  BY DispatchAssumption DEF QInv, TypeOK
<1>1. /\ Work /\ claimed' = claimed
      /\ phase' = phase /\ dec' = dec /\ pressed' = pressed
  BY DEF Worker, Work, TakeJob, Perform, Fail
<1>2. Reading' /\ Newest'
  BY <1>1 DEF QInv, Reading, Newest
<1>3. CASE TakeJob
  <2>1. /\ running = <<>> /\ jobs # <<>> /\ running' = <<Head(jobs)>> /\ jobs' = Tail(jobs)
        /\ failures' = failures /\ performed' = performed /\ injected' = injected
    BY <1>3 DEF TakeJob
  <2>2. /\ 1 \in DOMAIN jobs /\ Head(jobs) = jobs[1] /\ jobs[1] \in Jobs
        /\ jobs' \in Seq(Jobs) /\ Len(jobs') = Len(jobs) - 1
        /\ DOMAIN jobs' = 1 .. Len(jobs) - 1
        /\ \A i \in DOMAIN jobs' : jobs'[i] = jobs[i + 1] /\ i + 1 \in DOMAIN jobs
    BY <1>0, <2>1
  <2>3. /\ running' \in Seq(Jobs) /\ Len(running') = 1 /\ DOMAIN running' = {1}
        /\ running'[1] = jobs[1] /\ DOMAIN running = {}
    BY <2>1, <2>2
  <2>4. TypeOK'
    <3>1. Len(jobs') <= QueueSize /\ Len(running') <= 1
      BY <1>0, <2>2, <2>3
    <3> QED BY <1>1, <2>1, <2>2, <2>3, <3>1 DEF QInv, TypeOK, Work
  <2>5. Line'
    <3>1. \A i \in DOMAIN jobs' : i + 1 > 1 /\ i \in Nat
      BY <1>0, <2>2
    <3>2. \A i, j \in DOMAIN jobs' : i < j => jobs'[i].key < jobs'[j].key
      <4> SUFFICES ASSUME NEW i \in DOMAIN jobs', NEW j \in DOMAIN jobs', i < j
                   PROVE  jobs'[i].key < jobs'[j].key
        OBVIOUS
      <4>1. i + 1 < j + 1
        BY <3>1
      <4> QED BY <1>0, <2>2, <4>1 DEF Line
    <3>3. \A i \in DOMAIN running', j \in DOMAIN jobs' : running'[i].key < jobs'[j].key
      BY <1>0, <2>2, <2>3, <3>1 DEF Line
    <3>4. \A i \in DOMAIN performed, j \in DOMAIN jobs' : performed[i] < jobs'[j].key
      BY <1>0, <2>2 DEF Line
    <3>5. \A i \in DOMAIN performed, j \in DOMAIN running' : performed[i] < running'[j].key
      BY <1>0, <2>2, <2>3 DEF Line
    <3> QED BY <1>0, <2>1, <3>2, <3>3, <3>4, <3>5 DEF Line
  <2>6. Waiting' = Waiting /\ Done' = Done
    <3> DEFINE queued == {jobs[i].key : i \in DOMAIN jobs}
               left == {jobs'[i].key : i \in DOMAIN jobs'}
               runs == {running'[i].key : i \in DOMAIN running'}
    <3>1. left \cup {jobs[1].key} = queued
      <4>1. ASSUME NEW i \in DOMAIN jobs, i # 1
            PROVE  i - 1 \in DOMAIN jobs' /\ jobs'[i - 1] = jobs[i]
        BY <1>0, <2>2, <4>1
      <4> QED BY <2>2, <4>1
    <3>2. runs = {jobs[1].key}
      BY <2>3
    <3>3. {running[i].key : i \in DOMAIN running} = {}
      BY <2>3
    <3>4. Waiting' = left \cup runs /\ Waiting = queued
      BY <3>3 DEF Waiting
    <3>5. Done' = Done
      BY <2>1 DEF Done
    <3> HIDE DEF queued, left, runs
    <3> QED BY <3>1, <3>2, <3>4, <3>5
  <2>7. ClaimsAccounted'
    BY <1>0, <1>1, <2>1, <2>6 DEF ClaimsAccounted
  <2> QED BY <1>2, <2>4, <2>5, <2>7 DEF QInv
<1>4. ASSUME running # <<>>, running' = <<>>, jobs' = jobs
      PROVE  /\ 1 \in DOMAIN running /\ Head(running) = running[1] /\ running[1] \in Jobs
             /\ DOMAIN running = {1} /\ DOMAIN running' = {}
             /\ running' \in Seq(Jobs) /\ Len(running') = 0
             /\ running[1].key \in Nat /\ running[1].key \in claimed
             /\ Waiting = Waiting' \cup {running[1].key} /\ running[1].key \notin Waiting'
  <2>1. /\ 1 \in DOMAIN running /\ Head(running) = running[1] /\ running[1] \in Jobs
        /\ DOMAIN running = {1}
    BY <1>0, <1>4
  <2>2. DOMAIN running' = {} /\ running' \in Seq(Jobs) /\ Len(running') = 0
    BY <1>4
  <2>3. {running'[i].key : i \in DOMAIN running'} = {}
    BY <2>2
  <2>4. {running[i].key : i \in DOMAIN running} = {running[1].key}
    BY <2>1
  <2>5. Waiting = Waiting' \cup {running[1].key}
    BY <1>4, <2>3, <2>4 DEF Waiting
  <2>6. running[1].key \in Nat /\ running[1].key \in claimed
    BY <1>0, <2>1, <2>5 DEF ClaimsAccounted, Jobs
  <2>7. \A j \in DOMAIN jobs : jobs[j].key # running[1].key
    <3> SUFFICES ASSUME NEW j \in DOMAIN jobs PROVE jobs[j].key # running[1].key
      OBVIOUS
    <3>1. running[1].key < jobs[j].key
      BY <1>0, <2>1 DEF Line
    <3> QED BY <2>6, <3>1
  <2>8. running[1].key \notin Waiting'
    BY <1>4, <2>3, <2>7 DEF Waiting
  <2> QED BY <2>1, <2>2, <2>5, <2>6, <2>8
<1>5. CASE Perform
  <2>1. /\ running # <<>> /\ running' = <<>> /\ jobs' = jobs /\ failures' = failures
        /\ performed' = Append(performed, Head(running).key)
        /\ injected' = Append(injected, CopyChord) \/ injected' = injected
    BY <1>5 DEF Perform
  <2>2. /\ running[1].key \in Nat /\ Head(running) = running[1] /\ DOMAIN running = {1}
        /\ Waiting = Waiting' \cup {running[1].key} /\ running[1].key \notin Waiting'
        /\ running' \in Seq(Jobs) /\ Len(running') = 0 /\ DOMAIN running' = {}
    BY <1>4, <2>1
  <2>3. /\ performed' \in Seq(Nat) /\ DOMAIN performed' = DOMAIN performed \cup {Len(performed) + 1}
        /\ \A i \in DOMAIN performed : performed'[i] = performed[i]
        /\ performed'[Len(performed) + 1] = running[1].key
    BY <1>0, <2>1, <2>2
  <2>4. injected' \in Seq({CopyChord})
    <3>1. injected \in Seq({CopyChord}) /\ CopyChord \in {CopyChord}
      BY DEF QInv, TypeOK
    <3>2. Append(injected, CopyChord) \in Seq({CopyChord})
      BY <3>1
    <3> QED BY <2>1, <3>1, <3>2
  <2>5. TypeOK'
    BY <1>1, <2>1, <2>2, <2>3, <2>4 DEF QInv, TypeOK, Work
  <2>6. Line'
    <3>1. \A i \in DOMAIN performed : i < Len(performed) + 1 /\ ~(Len(performed) + 1 < i)
      BY <1>0
    <3>2. \A i \in DOMAIN performed : performed[i] < running[1].key
      BY <1>0, <2>2 DEF Line
    <3>3. \A j \in DOMAIN jobs : running[1].key < jobs[j].key
      BY <1>0, <2>2 DEF Line
    <3> QED BY <1>0, <2>1, <2>2, <2>3, <3>1, <3>2, <3>3, SMTT(30) DEF Line
  <2>7. Done' = Done \cup {running[1].key}
    BY <2>3 DEF Done
  <2>8. ClaimsAccounted'
    BY <1>0, <1>1, <2>1, <2>2, <2>7 DEF ClaimsAccounted
  <2> QED BY <1>2, <2>5, <2>6, <2>8 DEF QInv
<1>6. CASE Fail
  <2>1. /\ running # <<>> /\ running' = <<>> /\ jobs' = jobs /\ performed' = performed
        /\ failures' = failures \cup {Head(running).key} /\ injected' = injected
    BY <1>6 DEF Fail
  <2>2. /\ running[1].key \in claimed /\ Head(running) = running[1]
        /\ Waiting = Waiting' \cup {running[1].key} /\ running[1].key \notin Waiting'
        /\ running' \in Seq(Jobs) /\ Len(running') = 0 /\ DOMAIN running' = {}
    BY <1>4, <2>1
  <2>3. TypeOK'
    <3>1. failures' \subseteq 1 .. pressed'
      BY <1>1, <2>1, <2>2 DEF QInv, TypeOK
    <3>2. running' \in Seq(Jobs) /\ Len(running') <= 1
      BY <2>2
    <3> QED BY <1>1, <2>1, <3>1, <3>2 DEF QInv, TypeOK, Work
  <2>4. Line'
    BY <1>0, <2>1, <2>2 DEF Line
  <2>5. Done' = Done
    BY <2>1 DEF Done
  <2>6. ClaimsAccounted'
    BY <1>0, <1>1, <2>1, <2>2, <2>5 DEF ClaimsAccounted
  <2> QED BY <1>2, <2>3, <2>4, <2>6 DEF QInv
<1> QED BY <1>3, <1>5, <1>6 DEF Worker

\* What no handler touches.
LEMMA QuietKeeps ==
  ASSUME QInv, UNCHANGED <<phase, dec, pressed, workVars>>, TypeOK'
  PROVE  QInv'
<1> USE DEF workVars
<1>1. (Reading /\ Line /\ Newest)'
  BY DEF QInv, Reading, Line, Newest
<1>2. ClaimsAccounted'
  BY DEF QInv, ClaimsAccounted, Waiting, Done
<1> QED BY <1>1, <1>2 DEF QInv

\* An edit of what decisions read disturbs none under way.
LEMMA EditKeeps ==
  ASSUME QInv, NEW uncaps \in BOOLEAN, Edit(uncaps), UNCHANGED tapUp,
         plugins' \subseteq Plugins, rulesOff' \subseteq Ids,
         overrides' \in [Apps \X Ids -> {"none", "on", "off"}],
         users' \subseteq Picks, Valid(users'), IsFiniteSet(users'), killed' \in BOOLEAN
  PROVE  QInv'
<1> DEFINE now == AtOnce(dec.ev, dec.ctx, plugins', rulesOff', overrides', users', killed')
<1>1. now \in Verdicts
  BY AtOnceIs
<1>2. /\ UNCHANGED <<cached, phase, dec, pressed, workVars>> /\ edited' = edited + 1
      /\ \/ /\ overlap' = overlap + 1 /\ pruned' = (pruned \/ uncaps)
            /\ moments' = moments \cup {now}
         \/ UNCHANGED <<moments, overlap, pruned>>
  BY DEF Edit, pastVars
<1> HIDE DEF now
<1>3. moments' \subseteq Verdicts /\ overlap' \in Nat /\ edited' \in Nat
  BY <1>1, <1>2 DEF QInv, TypeOK
<1>4. pruned' \in BOOLEAN
  BY <1>2, Zenon DEF QInv, TypeOK
<1>5. TypeOK'
  BY <1>2, <1>3, <1>4 DEF QInv, TypeOK, workVars
<1> QED BY <1>2, <1>5, QuietKeeps

\* Every handler keeps it, and leaves a user rule table that is valid.
LEMMA HandlersKeep == QInv /\ Handlers => QInv'
<1> SUFFICES ASSUME QInv, Handlers PROVE QInv'
  OBVIOUS
<1>0. /\ plugins \subseteq Plugins /\ rulesOff \subseteq Ids
      /\ overrides \in [Apps \X Ids -> {"none", "on", "off"}]
      /\ users \subseteq Picks /\ Valid(users) /\ IsFiniteSet(users)
      /\ TRUE \in BOOLEAN /\ FALSE \in BOOLEAN
  BY Zenon DEF QInv, TypeOK
<1>9. killed \in BOOLEAN
  BY DEF QInv, TypeOK
<1>1. ASSUME NEW p \in Plugins, SetPlugin(p) PROVE QInv'
  BY <1>0, <1>9, <1>1, EditKeeps DEF SetPlugin
<1>2. ASSUME NEW id \in Ids, SetRule(id) PROVE QInv'
  BY <1>0, <1>9, <1>2, EditKeeps DEF SetRule
<1>3. ASSUME NEW app \in Apps, NEW id \in Ids, NEW own \in {"on", "off"},
             SetOverride(app, id, own)
      PROVE QInv'
  <2>1. overrides' \in [Apps \X Ids -> {"none", "on", "off"}]
    BY <1>0, <1>3 DEF SetOverride
  <2> QED BY <1>0, <1>9, <1>3, <2>1, EditKeeps DEF SetOverride
<1>4. ASSUME NEW pick \in Picks, CreateRule(pick) PROVE QInv'
  <2>1. IsFiniteSet(users')
    BY <1>0, <1>4, FS_AddElement DEF CreateRule
  <2> QED BY <1>0, <1>9, <1>4, <2>1, EditKeeps DEF CreateRule
<1>5. ASSUME NEW pick \in Picks, DeleteRule(pick) PROVE QInv'
  <2>1. IsFiniteSet(users') /\ users' \subseteq Picks
    BY <1>0, <1>5, FS_RemoveElement DEF DeleteRule
  <2>2. Valid(users')
    BY <1>0, <1>5 DEF DeleteRule, Valid
  <2> QED BY <1>0, <1>9, <1>5, <2>1, <2>2, EditKeeps DEF DeleteRule
<1>6. ASSUME NEW old \in Picks, NEW new \in Picks, UpdateRule(old, new) PROVE QInv'
  <2>1. IsFiniteSet(users') /\ users' \subseteq Picks /\ Valid(users')
    <3>1. IsFiniteSet(users \ {old})
      BY <1>0, FS_RemoveElement
    <3> QED BY <1>0, <1>6, <3>1, FS_AddElement DEF UpdateRule
  <2>2. (old # new) \in BOOLEAN
    OBVIOUS
  <2>3. /\ Edit(old # new) /\ UNCHANGED <<plugins, rulesOff, overrides, killed, tapUp>>
    BY <1>6 DEF UpdateRule
  <2> QED BY <1>0, <1>9, <2>1, <2>2, <2>3, EditKeeps
<1>7. CASE Kill
  BY <1>0, <1>7, EditKeeps DEF Kill
<1>8. CASE StopTap \/ Resume \/ \E app \in Apps : Focus(app)
  <2>1. tapUp' \in BOOLEAN /\ killed' \in BOOLEAN
    <3>1. tapUp \in BOOLEAN /\ killed \in BOOLEAN
      BY DEF QInv, TypeOK
    <3> QED BY <1>0, <1>8, <3>1, Zenon DEF StopTap, Resume, Focus, configVars
  <2>2. /\ UNCHANGED <<phase, dec, pressed, workVars, plugins, rulesOff, overrides, users,
                       edited, pastVars>>
        /\ cached' \in Apps
    BY <1>8 DEF StopTap, Resume, Focus, configVars, QInv, TypeOK
  <2>3. TypeOK'
    BY <2>1, <2>2 DEF QInv, TypeOK, workVars, pastVars
  <2> QED BY <2>2, <2>3, QuietKeeps
<1> QED BY <1>1, <1>2, <1>3, <1>4, <1>5, <1>6, <1>7, <1>8 DEF Handlers

\* It is inductive.
LEMMA QNext == QInv /\ [Next]_vars => QInv'
<1> SUFFICES ASSUME QInv, [Next]_vars PROVE QInv'
  OBVIOUS
<1>1. CASE UNCHANGED vars
  <2>1. TypeOK'
    BY <1>1 DEF QInv, TypeOK, vars, configVars, tapVars, workVars, pastVars
  <2> QED BY <1>1, <2>1, QuietKeeps DEF vars, tapVars
<1> QED BY <1>1, CallbackKeeps, WorkerKeeps, HandlersKeep DEF Next

\* What a concatenation holds, and where.
LEMMA Joined ==
  ASSUME NEW S, NEW s \in Seq(S), NEW t \in Seq(S)
  PROVE  /\ s \o t \in Seq(S) /\ Len(s \o t) = Len(s) + Len(t)
         /\ DOMAIN (s \o t) = 1 .. Len(s) + Len(t)
         /\ \A i \in 1 .. Len(s) : (s \o t)[i] = s[i]
         /\ \A i \in Len(s) + 1 .. Len(s) + Len(t) : (s \o t)[i] = t[i - Len(s)]
OBVIOUS

\* The line of those done, running and queued is in the order of their keys.
LEMMA LineIsInOrder == QInv => ActionsInOrder
<1> SUFFICES ASSUME QInv PROVE ActionsInOrder
  OBVIOUS
<1> DEFINE r == [i \in DOMAIN running |-> running[i].key]
           q == [i \in DOMAIN jobs |-> jobs[i].key]
           line == performed \o r \o q
<1>1. /\ jobs \in Seq(Jobs) /\ running \in Seq(Jobs) /\ performed \in Seq(Nat)
      /\ Len(jobs) \in Nat /\ DOMAIN jobs = 1 .. Len(jobs)
      /\ Len(running) \in Nat /\ DOMAIN running = 1 .. Len(running) /\ Len(running) <= 1
      /\ Len(performed) \in Nat /\ DOMAIN performed = 1 .. Len(performed)
      /\ Line
  BY DEF QInv, TypeOK
<1>2. /\ r \in Seq(Nat) /\ Len(r) = Len(running) /\ DOMAIN r = 1 .. Len(running)
      /\ q \in Seq(Nat) /\ Len(q) = Len(jobs) /\ DOMAIN q = 1 .. Len(jobs)
      /\ \A i \in DOMAIN r : r[i] = running[i].key
      /\ \A i \in DOMAIN q : q[i] = jobs[i].key
  <2>0. ASSUME NEW s \in Seq(Jobs) PROVE \A i \in DOMAIN s : s[i].key \in Nat
    <3>1. \A i \in DOMAIN s : s[i] \in Jobs
      OBVIOUS
    <3> QED BY <3>1 DEF Jobs
  <2>1. \A i \in DOMAIN running : running[i].key \in Nat
    BY <1>1, <2>0
  <2>2. \A i \in DOMAIN jobs : jobs[i].key \in Nat
    BY <1>1, <2>0
  <2>3. r \in [1 .. Len(running) -> Nat] /\ q \in [1 .. Len(jobs) -> Nat]
    BY <1>1, <2>1, <2>2
  <2>4. r \in Seq(Nat) /\ q \in Seq(Nat)
    <3>1. ASSUME NEW k \in Nat, NEW f \in [1 .. k -> Nat] PROVE f \in Seq(Nat) /\ Len(f) = k
      BY <3>1
    <3> QED BY <1>1, <2>3, <3>1
  <2>5. Len(r) = Len(running) /\ Len(q) = Len(jobs)
    <3>1. ASSUME NEW k \in Nat, NEW f \in [1 .. k -> Nat] PROVE Len(f) = k
      BY <3>1
    <3> QED BY <1>1, <2>3, <3>1
  <2>6. DOMAIN r = DOMAIN running /\ DOMAIN q = DOMAIN jobs
    OBVIOUS
  <2> QED BY <1>1, <2>4, <2>5, <2>6
<1> HIDE DEF r, q
<1> DEFINE n == Len(performed)
           m == Len(performed) + Len(running)
<1>3. /\ performed \o r \in Seq(Nat) /\ Len(performed \o r) = m
      /\ \A i \in 1 .. n : (performed \o r)[i] = performed[i]
      /\ \A i \in n + 1 .. m : (performed \o r)[i] = r[i - n]
  BY <1>1, <1>2, Joined
<1>4. /\ line \in Seq(Nat) /\ Len(line) = m + Len(jobs) /\ DOMAIN line = 1 .. m + Len(jobs)
      /\ \A i \in 1 .. n : line[i] = performed[i]
      /\ \A i \in n + 1 .. m : line[i] = running[i - n].key /\ i - n \in DOMAIN running
      /\ \A i \in m + 1 .. m + Len(jobs) : line[i] = jobs[i - m].key /\ i - m \in DOMAIN jobs
  <2>1. /\ line \in Seq(Nat) /\ Len(line) = m + Len(jobs) /\ DOMAIN line = 1 .. m + Len(jobs)
        /\ \A i \in 1 .. m : line[i] = (performed \o r)[i]
        /\ \A i \in m + 1 .. m + Len(jobs) : line[i] = q[i - m]
    <3> DEFINE pr == performed \o r
    <3>1. /\ pr \in Seq(Nat) /\ q \in Seq(Nat)
          /\ Len(pr) = m /\ Len(q) = Len(jobs) /\ line = pr \o q
      BY <1>2, <1>3
    <3> HIDE DEF pr, line, m
    <3>2. /\ line \in Seq(Nat) /\ Len(line) = Len(pr) + Len(q)
          /\ DOMAIN line = 1 .. Len(pr) + Len(q)
          /\ \A i \in 1 .. Len(pr) : line[i] = pr[i]
          /\ \A i \in Len(pr) + 1 .. Len(pr) + Len(q) : line[i] = q[i - Len(pr)]
      BY <3>1, Joined, ZenonT(30)
    <3> QED BY <3>1, <3>2 DEF pr
  <2>2. /\ \A i \in n + 1 .. m : i - n \in 1 .. Len(running) /\ i \in 1 .. m
        /\ \A i \in m + 1 .. m + Len(jobs) : i - m \in 1 .. Len(jobs)
        /\ \A i \in 1 .. n : i \in 1 .. m
    BY <1>1
  <2> HIDE DEF line
  <2> QED BY <1>1, <1>2, <1>3, <2>1, <2>2
<1>5. ActionsInOrder <=> \A i, j \in DOMAIN line : i < j => line[i] < line[j]
  BY DEF ActionsInOrder, r, q
<1> HIDE DEF line
<1>6. ASSUME NEW i \in DOMAIN line, NEW j \in DOMAIN line, i < j PROVE line[i] < line[j]
  <2>0. /\ i \in 1 .. n \/ i \in n + 1 .. m \/ i \in m + 1 .. m + Len(jobs)
        /\ j \in 1 .. n \/ j \in n + 1 .. m \/ j \in m + 1 .. m + Len(jobs)
        /\ i \in Nat /\ j \in Nat /\ n \in Nat /\ m \in Nat
    BY <1>1, <1>4, SMTT(30)
  <2>1. CASE i \in 1 .. n /\ j \in 1 .. n
    BY <1>1, <1>4, <1>6, <2>1 DEF Line
  <2>2. CASE i \in 1 .. n /\ j \in n + 1 .. m
    BY <1>1, <1>4, <1>6, <2>2, SMTT(30) DEF Line
  <2>3. CASE i \in 1 .. n /\ j \in m + 1 .. m + Len(jobs)
    <3>1. j - m \in DOMAIN jobs /\ line[j] = jobs[j - m].key
      BY <1>1, <1>4, <2>3
    <3>2. i \in DOMAIN performed /\ line[i] = performed[i]
      BY <1>1, <1>4, <2>3
    <3> QED BY <1>1, <3>1, <3>2 DEF Line
  <2>4. CASE i \in n + 1 .. m /\ j \in n + 1 .. m
    BY <1>1, <1>6, <2>4
  <2>5. CASE i \in n + 1 .. m /\ j \in m + 1 .. m + Len(jobs)
    BY <1>1, <1>4, <1>6, <2>5 DEF Line
  <2>6. CASE i \in m + 1 .. m + Len(jobs) /\ j \in m + 1 .. m + Len(jobs)
    <3>1. i - m < j - m
      BY <1>6, <2>0
    <3> QED BY <1>1, <1>4, <2>6, <3>1 DEF Line
  <2> QED BY <1>1, <1>6, <2>0, <2>1, <2>2, <2>3, <2>4, <2>5, <2>6
<1> QED BY <1>5, <1>6

\* The line is kept in every reachable state.
THEOREM Invariance == Spec => []QInv
<1> QED BY QInit, QNext, PTL DEF Spec

\* Every variable has its type; in particular no state of the user rule table
\* breaks its validity, and no job waits for what is no capability.
THEOREM TypeCorrect == Spec => []TypeOK
<1>1. QInv => TypeOK
  BY DEF QInv
<1> QED BY <1>1, Invariance, PTL

\* No swallowed key is lost, and none is answered twice: dispatchJobs' select
\* with a default, and the worker, account for each of them once.
THEOREM ClaimsAreAccounted == Spec => []ClaimsAccounted
<1>1. QInv => ClaimsAccounted
  BY DEF QInv
<1> QED BY <1>1, Invariance, PTL

\* Actions run, and wait to run, in the order their keys were pressed.
THEOREM ActionsRunInOrder == Spec => []ActionsInOrder
<1> QED BY LineIsInOrder, Invariance, PTL

-----------------------------------------------------------------------------
(* Which moment a decision is the decision of. *)

\* What handlers write and decisions read, at one moment.
Configs ==
  [plugins : SUBSET Plugins, rulesOff : SUBSET Ids,
   overrides : [Apps \X Ids -> {"none", "on", "off"}],
   users : SUBSET Picks, killed : BOOLEAN]

Config ==
  [plugins |-> plugins, rulesOff |-> rulesOff, overrides |-> overrides,
   users |-> users, killed |-> killed]

\* The builtin rules before position n that fire under c.
Fired(n, ctx, c) ==
  {Builtins[j] : j \in {k \in DOMAIN Builtins :
     k < n /\ Fires(Builtins[k], ctx, c.plugins, c.rulesOff, c.overrides)}}

\* The decision under c is one the history holds.
Counted(c) ==
  AtOnce(dec.ev, dec.ctx, c.plugins, c.rulesOff, c.overrides, c.users, c.killed)
    \in moments

\* The plugins and user rules read are those of c, and its permissions cover
\* them.
Tabled(c) ==
  /\ dec.plugins = c.plugins
  /\ phase = "table" => users = c.users
  /\ phase # "table" => dec.table = {Compile(p) : p \in c.users}
  /\ phase = "grants" => c.users \subseteq users
  /\ phase \in {"rule", "override", "killed"} =>
       \E u \in SUBSET Picks : c.users \subseteq u /\ dec.grants = Grants(u)

\* The callback has still to read rule j's own switch, or the app's verdict.
SwitchUnread(j) ==
  \/ phase \in {"table", "grants"}
  \/ phase = "rule" /\ dec.at <= j
  \/ phase = "override" /\ dec.at < j

OverrideUnread(j) ==
  \/ phase \in {"table", "grants"}
  \/ phase \in {"rule", "override"} /\ dec.at <= j

\* The switches read are those of c, and those still to read are still c's.
Switched(c) ==
  /\ phase \in {"rule", "override", "killed"} =>
       dec.fires = Fired(dec.at, dec.ctx, c)
  /\ phase = "override" => dec.on = (Builtins[dec.at].id \notin c.rulesOff)
  /\ \A j \in DOMAIN Builtins :
       /\ SwitchUnread(j) =>
            (Builtins[j].id \in rulesOff <=> Builtins[j].id \in c.rulesOff)
       /\ OverrideUnread(j) =>
            overrides[<<dec.ctx.app, Builtins[j].id>>] =
              c.overrides[<<dec.ctx.app, Builtins[j].id>>]

Explains(c) ==
  /\ Valid(c.users) /\ IsFiniteSet(c.users)
  /\ Counted(c) /\ Tabled(c) /\ Switched(c)
  /\ killed = c.killed

\* Before the first edit the present explains what was read; after one, some
\* moment does, unless the edit took a user rule away.
Traced ==
  /\ Deciding /\ overlap = 0 => \E c \in Configs : c = Config /\ Explains(c)
  /\ Deciding /\ overlap = 1 /\ ~pruned => \E c \in Configs : Explains(c)
  /\ DecisionIsAMoment

\* Going past rules whose plugins were off adds none that fire.
LEMMA FiredSkips ==
  ASSUME NEW c, NEW ctx, NEW n \in Nat, NEW m \in Nat, n <= m,
         \A k \in DOMAIN Builtins : n <= k /\ k < m => Builtins[k].plugin \notin c.plugins
  PROVE  Fired(m, ctx, c) = Fired(n, ctx, c)
<1>1. DOMAIN Builtins \subseteq Nat
  BY DispatchAssumption
<1>2. \A k \in DOMAIN Builtins :
        Fires(Builtins[k], ctx, c.plugins, c.rulesOff, c.overrides) => (k < m <=> k < n)
  BY <1>1 DEF Fires
<1> QED BY <1>2 DEF Fired

\* Going past one rule adds it if it fires.
LEMMA FiredGrows ==
  ASSUME NEW c, NEW ctx, NEW n \in DOMAIN Builtins
  PROVE  Fired(n + 1, ctx, c) =
           IF Fires(Builtins[n], ctx, c.plugins, c.rulesOff, c.overrides)
           THEN Fired(n, ctx, c) \cup {Builtins[n]} ELSE Fired(n, ctx, c)
<1>1. DOMAIN Builtins \subseteq Nat
  BY DispatchAssumption
<1>2. \A k \in DOMAIN Builtins : k < n + 1 <=> k < n \/ k = n
  BY <1>1
<1> QED BY <1>2 DEF Fired

\* Nothing fires before the first rule.
LEMMA FiredStarts ==
  ASSUME NEW c, NEW ctx
  PROVE  Fired(1, ctx, c) = {}
BY DispatchAssumption DEF Fired

\* Past the table, they are all that fire.
LEMMA FiredEnds ==
  ASSUME NEW c, NEW ctx
  PROVE  Fired(Len(Builtins) + 1, ctx, c) =
           {r \in {Builtins[i] : i \in DOMAIN Builtins} :
              Fires(r, ctx, c.plugins, c.rulesOff, c.overrides)}
<1>1. DOMAIN Builtins = 1 .. Len(Builtins) /\ Len(Builtins) \in Nat
  BY DispatchAssumption
<1>2. \A k \in DOMAIN Builtins : k < Len(Builtins) + 1
  BY <1>1
<1> QED BY <1>2 DEF Fired

\* Permissions granted for more user rules than the table holds change nothing:
\* a user rule's own permission is among them, and builtin plugins have theirs.
LEMMA MoreGrantsAreTheSame ==
  ASSUME NEW us \in SUBSET Picks, Valid(us), IsFiniteSet(us),
         NEW u \in SUBSET Picks, us \subseteq u,
         NEW F \in SUBSET {Builtins[i] : i \in DOMAIN Builtins},
         NEW kill, NEW ev, NEW ctx
  PROVE  LET T == {Compile(p) : p \in us} \cup F
         IN Route(T, Grants(u), kill, ev, ctx) = Route(T, Grants(us), kill, ev, ctx)
<1> DEFINE T == {Compile(p) : p \in us} \cup F
           cands == {r \in T : Matches(r, ev, ctx)}
           win == Resolve(cands)
<1>1. cands # {} => win \in T
  <2>1. Table(T)
    BY TablesAre
  <2>2. Table(cands)
    BY <2>1, SomeOfATable
  <2> QED BY <2>2, ResolveFinds
<1>2. ASSUME NEW r \in T PROVE Authorized(r, Grants(u)) <=> Authorized(r, Grants(us))
  <2>1. CASE r \in F
    <3>1. r.plugin \in Plugins /\ r.plugin # "user"
      BY <2>1, DispatchAssumption
    <3>2. Grants(u)[r.plugin] = Grants(us)[r.plugin]
      BY <3>1 DEF Grants
    <3> QED BY <3>2 DEF Authorized
  <2>2. CASE \E p \in us : r = Compile(p)
    <3>1. PICK p \in us : r = Compile(p)
      BY <2>2
    <3>2. r.plugin = "user" /\ r.cap = p.cap
      BY <3>1 DEF Compile
    <3>3. /\ Permission[p.cap] \in UserGrants(us)
          /\ Permission[p.cap] \in UserGrants(u)
      BY DEF UserGrants
    <3>4. Grants(u)["user"] = UserGrants(u) /\ Grants(us)["user"] = UserGrants(us)
      BY DEF Grants
    <3> QED BY <3>2, <3>3, <3>4 DEF Authorized
  <2> QED BY <2>1, <2>2
<1>3. cands # {} => (Authorized(win, Grants(u)) <=> Authorized(win, Grants(us)))
  BY <1>1, <1>2
<1> HIDE DEF T
<1>4. Route(T, Grants(u), kill, ev, ctx) = Route(T, Grants(us), kill, ev, ctx)
  BY <1>3 DEF Route
<1> QED BY <1>4 DEF T

\* A read keeps what explains the reading: it reads what c holds.
LEMMA ReadTraces ==
  ASSUME QInv, NEW c \in Configs, Explains(c),
         ReadTable \/ ReadGrants \/ ReadRule \/ ReadOverride
  PROVE  Explains(c)'
<1> USE DEF configVars, pastVars
<1>0. /\ DOMAIN dec = DOMAIN NoDecision
      /\ Len(Builtins) \in Nat /\ DOMAIN Builtins = 1 .. Len(Builtins)
      /\ Read /\ users \in SUBSET Picks
  BY DispatchAssumption
  DEF QInv, TypeOK, ReadTable, ReadGrants, ReadRule, ReadOverride
<1>1. UNCHANGED <<plugins, rulesOff, overrides, users, killed, moments>>
  BY <1>0 DEF Read
<1>2. Counted(c) /\ Tabled(c) /\ Switched(c)
  BY DEF Explains
<1>3. SUFFICES ASSUME dec'.ev = dec.ev /\ dec'.ctx = dec.ctx PROVE (Tabled(c) /\ Switched(c))'
  <2>1. dec'.ev = dec.ev /\ dec'.ctx = dec.ctx
    BY <1>0 DEF ReadTable, ReadGrants, ReadRule, ReadOverride, Seek, NoDecision
  <2>2. Counted(c)'
    BY <1>1, <1>2, <2>1 DEF Counted
  <2> QED BY <1>1, <1>3, <2>1, <2>2 DEF Explains
<1>4. CASE ReadTable
  <2>1. /\ phase = "table" /\ phase' = "grants" /\ dec'.plugins = dec.plugins
        /\ dec'.table = {Compile(p) : p \in users}
    BY <1>0, <1>4 DEF ReadTable, NoDecision
  <2>2. Tabled(c)'
    BY <1>1, <1>2, <2>1 DEF Tabled
  <2>3. Switched(c)'
    BY <1>1, <1>2, <1>3, <2>1 DEF Switched, SwitchUnread, OverrideUnread
  <2> QED BY <2>2, <2>3
<1>5. ASSUME NEW d, Seek(d, 1), phase = "grants", d.plugins = c.plugins, d.table = dec.table,
             d.fires = {}, d.grants = Grants(users), DOMAIN d = DOMAIN NoDecision
      PROVE  (Tabled(c) /\ Switched(c))'
  <2> DEFINE at == NextRule(1, d.plugins)
  <2>1. /\ dec' = [d EXCEPT !.at = at]
        /\ phase' = IF at > Len(Builtins) THEN "killed" ELSE "rule"
    BY <1>5 DEF Seek
  <2>2. /\ at \in 1 .. Len(Builtins) + 1
        /\ \A k \in DOMAIN Builtins : 1 <= k /\ k < at => Builtins[k].plugin \notin d.plugins
    BY <1>0, NextRuleIs
  <2> HIDE DEF at
  <2>3. /\ dec'.at = at /\ dec'.plugins = d.plugins /\ dec'.table = dec.table
        /\ dec'.fires = {} /\ dec'.grants = Grants(users)
        /\ phase' \in {"killed", "rule"}
    BY <1>5, <2>1 DEF NoDecision
  <2>4. Fired(at, dec.ctx, c) = {}
    <3>1. Fired(at, dec.ctx, c) = Fired(1, dec.ctx, c)
      BY <1>0, <1>5, <2>2, FiredSkips
    <3> QED BY <3>1, FiredStarts
  <2>5. Tabled(c)'
    BY <1>0, <1>1, <1>2, <1>5, <2>3 DEF Tabled
  <2>6. Switched(c)'
    BY <1>1, <1>2, <1>3, <1>5, <2>3, <2>4 DEF Switched, SwitchUnread, OverrideUnread
  <2> QED BY <2>5, <2>6
<1>6. CASE ReadGrants
  <2> DEFINE d == [dec EXCEPT !.grants = Grants(users)]
  <2>1. phase = "grants" /\ Seek(d, 1)
    BY <1>6 DEF ReadGrants
  <2>2. /\ d.plugins = c.plugins /\ d.table = dec.table /\ d.fires = {}
        /\ d.grants = Grants(users) /\ DOMAIN d = DOMAIN NoDecision
    BY <1>0, <1>2, <2>1 DEF QInv, Reading, Tabled, NoDecision
  <2> HIDE DEF d
  <2> QED BY <1>5, <2>1, <2>2
<1>7. CASE ReadRule
  <2>1. /\ phase = "rule" /\ phase' = "override" /\ dec'.plugins = dec.plugins
        /\ dec'.table = dec.table /\ dec'.grants = dec.grants /\ dec'.fires = dec.fires
        /\ dec'.at = dec.at /\ dec'.on = (Builtins[dec.at].id \notin rulesOff)
        /\ dec.at \in DOMAIN Builtins
    BY <1>0, <1>7 DEF ReadRule, NoDecision, QInv, Reading
  <2>2. Tabled(c)'
    BY <1>1, <1>2, <2>1 DEF Tabled
  <2>3. Switched(c)'
    <3>1. Builtins[dec.at].id \in rulesOff <=> Builtins[dec.at].id \in c.rulesOff
      <4>1. dec.at <= dec.at
        BY <1>0, <2>1
      <4>2. SwitchUnread(dec.at)
        BY <2>1, <4>1 DEF SwitchUnread
      <4> QED BY <1>2, <2>1, <4>2 DEF Switched
    <3>2. \A j \in DOMAIN Builtins : dec.at < j => dec.at <= j
      BY <1>0, <2>1
    <3> QED BY <1>1, <1>2, <1>3, <2>1, <3>1, <3>2
            DEF Switched, SwitchUnread, OverrideUnread
  <2> QED BY <2>2, <2>3
<1>8. ASSUME NEW d, NEW n \in DOMAIN Builtins, dec.at = n, Seek(d, n + 1), phase = "override",
             d.plugins = c.plugins, d.table = dec.table, d.grants = dec.grants,
             d.fires = Fired(n + 1, dec.ctx, c), DOMAIN d = DOMAIN NoDecision
      PROVE  (Tabled(c) /\ Switched(c))'
  <2> DEFINE at == NextRule(n + 1, d.plugins)
  <2>1. /\ dec' = [d EXCEPT !.at = at]
        /\ phase' = IF at > Len(Builtins) THEN "killed" ELSE "rule"
    BY <1>8 DEF Seek
  <2>2. /\ at \in n + 1 .. Len(Builtins) + 1 /\ n + 1 \in Nat
        /\ \A k \in DOMAIN Builtins : n + 1 <= k /\ k < at => Builtins[k].plugin \notin d.plugins
    BY <1>0, NextRuleIs
  <2> HIDE DEF at
  <2>3. /\ dec'.at = at /\ dec'.plugins = d.plugins /\ dec'.table = dec.table
        /\ dec'.fires = Fired(n + 1, dec.ctx, c) /\ dec'.grants = dec.grants
        /\ phase' \in {"killed", "rule"}
    BY <1>8, <2>1 DEF NoDecision
  <2>4. Fired(at, dec.ctx, c) = Fired(n + 1, dec.ctx, c)
    BY <1>0, <1>8, <2>2, FiredSkips
  <2>5. Tabled(c)'
    BY <1>1, <1>2, <1>8, <2>3 DEF Tabled
  <2>6. Switched(c)'
    <3>1. \A j \in DOMAIN Builtins : at <= j => n < j /\ n <= j
      BY <1>0, <2>2
    <3> QED BY <1>1, <1>2, <1>3, <1>8, <2>3, <2>4, <3>1
            DEF Switched, SwitchUnread, OverrideUnread
  <2> QED BY <2>5, <2>6
<1>9. CASE ReadOverride
  <2> DEFINE rule == Builtins[dec.at]
             fires == Shadow(dec.on, overrides[<<dec.ctx.app, rule.id>>])
             d == [dec EXCEPT !.fires = IF fires THEN @ \cup {rule} ELSE @]
  <2>1. phase = "override" /\ Seek(d, dec.at + 1)
    BY <1>9 DEF ReadOverride
  <2>2. dec.at \in DOMAIN Builtins /\ rule.plugin \in dec.plugins
    BY <2>1 DEF QInv, Reading
  <2>3. fires <=> Fires(rule, dec.ctx, c.plugins, c.rulesOff, c.overrides)
    <3>1. dec.on = (rule.id \notin c.rulesOff) /\ dec.plugins = c.plugins
      BY <1>2, <2>1 DEF Switched, Tabled
    <3>2. overrides[<<dec.ctx.app, rule.id>>] = c.overrides[<<dec.ctx.app, rule.id>>]
      <4>1. dec.at <= dec.at
        BY <1>0, <2>2
      <4>2. OverrideUnread(dec.at)
        BY <2>1, <4>1 DEF OverrideUnread
      <4> QED BY <1>2, <2>2, <4>2 DEF Switched
    <3> QED BY <2>2, <3>1, <3>2 DEF Fires
  <2>4. dec.fires = Fired(dec.at, dec.ctx, c) /\ dec.plugins = c.plugins
    BY <1>2, <2>1 DEF Switched, Tabled
  <2>5. /\ d.plugins = c.plugins /\ d.table = dec.table /\ d.grants = dec.grants
        /\ d.fires = (IF fires THEN dec.fires \cup {rule} ELSE dec.fires)
        /\ DOMAIN d = DOMAIN NoDecision
    BY <1>0, <2>4 DEF NoDecision
  <2>6. d.fires = Fired(dec.at + 1, dec.ctx, c)
    BY <2>2, <2>3, <2>4, <2>5, FiredGrows
  <2> HIDE DEF d, fires, rule
  <2> QED BY <1>8, <2>1, <2>2, <2>5, <2>6
<1> QED BY <1>0, <1>4, <1>6, <1>7, <1>9

\* The last read, and the decision is the one c explains.
LEMMA KilledTraces ==
  ASSUME QInv, NEW c \in Configs, Explains(c), ReadKilled
  PROVE  dec'.verdict \in moments
<1> DEFINE F == {r \in {Builtins[i] : i \in DOMAIN Builtins} :
                   Fires(r, dec.ctx, c.plugins, c.rulesOff, c.overrides)}
<1>1. /\ phase = "killed" /\ DOMAIN dec = DOMAIN NoDecision
      /\ dec' = [dec EXCEPT !.verdict =
                   Gate(Route(dec.table \cup dec.fires, dec.grants, killed, dec.ev, dec.ctx))]
  BY DEF ReadKilled, QInv, TypeOK
<1>2. dec'.verdict = Gate(Route(dec.table \cup dec.fires, dec.grants, killed, dec.ev, dec.ctx))
  BY <1>1 DEF NoDecision
<1>3. dec.at = Len(Builtins) + 1
  BY <1>1 DEF QInv, Reading
<1>4. dec.fires = F
  BY <1>1, <1>3, FiredEnds DEF Explains, Switched
<1>5. PICK u \in SUBSET Picks : c.users \subseteq u /\ dec.grants = Grants(u)
  BY <1>1 DEF Explains, Tabled
<1>6. dec.table = {Compile(p) : p \in c.users}
  BY <1>1 DEF Explains, Tabled
<1>7. c.users \in SUBSET Picks /\ Valid(c.users) /\ IsFiniteSet(c.users)
  BY DEF Explains, Configs
<1>8. Route({Compile(p) : p \in c.users} \cup F, Grants(u), c.killed, dec.ev, dec.ctx)
        = Route({Compile(p) : p \in c.users} \cup F, Grants(c.users), c.killed, dec.ev, dec.ctx)
  <2>1. F \in SUBSET {Builtins[i] : i \in DOMAIN Builtins}
    OBVIOUS
  <2> HIDE DEF F
  <2> QED BY <1>5, <1>7, <2>1, MoreGrantsAreTheSame
<1>9. dec'.verdict = AtOnce(dec.ev, dec.ctx, c.plugins, c.rulesOff, c.overrides, c.users,
                            c.killed)
  <2>1. killed = c.killed
    BY DEF Explains
  <2>2. dec'.verdict = Gate(Route({Compile(p) : p \in c.users} \cup F, Grants(c.users),
                                  c.killed, dec.ev, dec.ctx))
    BY <1>2, <1>4, <1>5, <1>6, <1>8, <2>1
  <2> QED BY <2>2 DEF AtOnce
<1> QED BY <1>9 DEF Explains, Counted

\* So what has been read goes on being explained while the callback reads.
LEMMA CallbackTraces == QInv /\ Traced /\ Callback => Traced'
<1> SUFFICES ASSUME QInv, Traced, Callback PROVE Traced'
  OBVIOUS
<1>1. ASSUME NEW ev, Decide(ev) PROVE Traced'
  <2>1. /\ phase' = "table" /\ overlap' = 0 /\ dec'.ev = ev /\ dec'.ctx = Context(cached)
        /\ dec'.plugins = plugins
        /\ UNCHANGED <<plugins, rulesOff, overrides, users, killed>>
        /\ moments' = {AtOnce(ev, Context(cached), plugins, rulesOff, overrides, users, killed)}
    BY <1>1 DEF Decide, NoDecision, configVars
  <2>2. /\ plugins \subseteq Plugins /\ rulesOff \subseteq Ids
        /\ overrides \in [Apps \X Ids -> {"none", "on", "off"}]
        /\ users \subseteq Picks /\ Valid(users) /\ IsFiniteSet(users) /\ killed \in BOOLEAN
    BY DEF QInv, TypeOK
  <2>3. Config \in Configs /\ Config' = Config
    BY <2>1, <2>2 DEF Config, Configs
  <2>5. ASSUME NEW k \in Configs, k = Config PROVE Explains(k)'
    <3>1. /\ k.plugins = plugins /\ k.rulesOff = rulesOff /\ k.overrides = overrides
          /\ k.users = users /\ k.killed = killed
      BY <2>5 DEF Config
    <3>2. Counted(k)'
      BY <2>1, <3>1 DEF Counted
    <3>3. Tabled(k)'
      BY <2>1, <3>1 DEF Tabled
    <3>4. Switched(k)'
      BY <2>1, <3>1 DEF Switched, SwitchUnread, OverrideUnread
    <3> QED BY <2>1, <2>2, <3>1, <3>2, <3>3, <3>4 DEF Explains
  <2>6. DecisionIsAMoment'
    BY <2>1 DEF DecisionIsAMoment
  <2> QED BY <2>1, <2>3, <2>5, <2>6 DEF Traced
<1>2. CASE ReadTable \/ ReadGrants \/ ReadRule \/ ReadOverride
  <2>1. \A c \in Configs : Explains(c) => Explains(c)'
    BY <1>2, ReadTraces
  <2>2. /\ UNCHANGED <<plugins, rulesOff, overrides, users, killed, overlap, pruned>>
        /\ Deciding
    BY <1>2
    DEF ReadTable, ReadGrants, ReadRule, ReadOverride, Read, configVars, pastVars,
        Deciding
  <2>3. Config' = Config
    BY <2>2 DEF Config
  <2>4. phase' # "deliver"
    BY <1>2 DEF ReadTable, ReadGrants, ReadRule, ReadOverride, Seek
  <2>5. DecisionIsAMoment'
    BY <2>4 DEF DecisionIsAMoment
  <2> QED BY <2>1, <2>2, <2>3, <2>5 DEF Traced
<1>3. CASE ReadKilled
  <2>1. /\ Deciding /\ ~Deciding' /\ UNCHANGED <<moments, overlap, pruned>>
    BY <1>3 DEF ReadKilled, Deciding, Read, pastVars
  <2>2. ASSUME NEW c \in Configs, Explains(c) PROVE dec'.verdict \in moments
    BY <1>3, <2>2, KilledTraces
  <2>3. overlap \in Nat
    BY DEF QInv, TypeOK
  <2>4. overlap <= 1 /\ ~pruned => \E c \in Configs : Explains(c)
    BY <2>1, <2>3 DEF Traced
  <2>5. DecisionIsAMoment'
    BY <2>1, <2>2, <2>4 DEF DecisionIsAMoment
  <2> QED BY <2>1, <2>5 DEF Traced
<1>4. CASE Deliver
  BY <1>4 DEF Deliver, Traced, Deciding, DecisionIsAMoment
<1> QED BY <1>1, <1>2, <1>3, <1>4 DEF Callback, Press, Return

\* What neither reads nor edits.
LEMMA QuietTraces ==
  ASSUME Traced, UNCHANGED <<phase, dec, plugins, rulesOff, overrides, users, killed, pastVars>>
  PROVE  Traced'
<1>1. UNCHANGED <<moments, overlap, pruned>>
  BY DEF pastVars
<1>2. ASSUME NEW c \in Configs, Explains(c) PROVE Explains(c)'
  <2>1. Counted(c)' /\ Tabled(c)'
    BY <1>1, <1>2 DEF Explains, Counted, Tabled
  <2>2. Switched(c)'
    BY <1>2 DEF Explains, Switched, SwitchUnread, OverrideUnread
  <2> QED BY <1>2, <2>1, <2>2 DEF Explains
<1>3. Config' = Config
  BY DEF Config
<1>4. DecisionIsAMoment'
  BY <1>1 DEF Traced, DecisionIsAMoment
<1>5. Deciding' = Deciding
  BY DEF Deciding
<1> QED BY <1>1, <1>2, <1>3, <1>4, <1>5 DEF Traced

\* After the first edit of a decision, one side of it explains the reading.
LEMMA EditTraces ==
  ASSUME QInv, Traced, NEW uncaps \in BOOLEAN, Edit(uncaps),
         Deciding /\ overlap = 0 /\ ~uncaps => \E c \in Configs : Explains(c)'
  PROVE  Traced'
<1>1. /\ UNCHANGED <<phase, dec>>
      /\ IF Deciding THEN overlap' = overlap + 1 /\ (pruned' <=> (pruned \/ uncaps))
         ELSE UNCHANGED <<moments, overlap, pruned>>
  BY DEF Edit, pastVars
<1>2. overlap \in Nat
  BY DEF QInv, TypeOK
<1>3. Deciding' <=> Deciding
  BY <1>1 DEF Deciding
<1>4. DecisionIsAMoment'
  BY <1>1 DEF Traced, DecisionIsAMoment, Deciding
<1>5. Deciding' => overlap' # 0 /\ (overlap' = 1 => overlap = 0)
  BY <1>1, <1>2, <1>3
<1> QED BY <1>1, <1>3, <1>4, <1>5 DEF Traced

\* An edit of a switch that was read already leaves the moment before it, one
\* still to be read makes the moment after it; a plugin toggle is before, since
\* the plugins are read first, and a PANIC STOP is after, since killed is read
\* last.
LEMMA HandlersTrace == QInv /\ Traced /\ Handlers => Traced'
<1> SUFFICES ASSUME QInv, Traced, Handlers PROVE Traced'
  OBVIOUS
<1>0. /\ plugins \subseteq Plugins /\ rulesOff \subseteq Ids
      /\ overrides \in [Apps \X Ids -> {"none", "on", "off"}]
      /\ users \subseteq Picks /\ Valid(users) /\ IsFiniteSet(users) /\ killed \in BOOLEAN
  BY DEF QInv, TypeOK
<1>a. FALSE \in BOOLEAN /\ TRUE \in BOOLEAN
  BY Zenon
<1>b. ASSUME NEW uncaps, Edit(uncaps), Deciding
      PROVE  /\ UNCHANGED <<phase, dec>>
             /\ moments' = moments \cup {AtOnce(dec.ev, dec.ctx, plugins', rulesOff',
                                                overrides', users', killed')}
  BY <1>b DEF Edit
\* The moment before the edit, when what was read is still its, and what is left
\* to read does not feel the edit.
<1>c. ASSUME NEW uncaps \in BOOLEAN, Edit(uncaps), Deciding, NEW c \in Configs, Explains(c),
             Tabled(c)', Switched(c)', killed' = killed
      PROVE  Explains(c)'
  <2>1. Counted(c)'
    BY <1>b, <1>c DEF Explains, Counted
  <2> QED BY <1>c, <2>1 DEF Explains
\* The moment after it.
<1>d. ASSUME NEW uncaps \in BOOLEAN, Edit(uncaps), Deciding, NEW c \in Configs, c = Config',
             Valid(users'), IsFiniteSet(users'), Tabled(c)', Switched(c)'
      PROVE  Explains(c)'
  <2>1. /\ c.plugins = plugins' /\ c.rulesOff = rulesOff' /\ c.overrides = overrides'
        /\ c.users = users' /\ c.killed = killed'
    BY <1>d DEF Config
  <2>2. Counted(c)'
    BY <1>b, <1>d, <2>1 DEF Counted
  <2> QED BY <1>d, <2>1, <2>2 DEF Explains
<1>1. ASSUME NEW p \in Plugins, SetPlugin(p) PROVE Traced'
  <2>1. Edit(FALSE) /\ UNCHANGED <<rulesOff, overrides, users, killed>>
    BY <1>1 DEF SetPlugin
  <2>2. ASSUME Deciding, overlap = 0 PROVE \E c \in Configs : Explains(c)'
    <3>1. PICK c \in Configs : c = Config /\ Explains(c)
      BY <2>2 DEF Traced
    <3>2. Tabled(c)' /\ Switched(c)'
      BY <1>b, <2>1, <2>2, <3>1
         DEF Explains, Tabled, Switched, SwitchUnread, OverrideUnread
    <3> QED BY <1>a, <1>c, <2>1, <2>2, <3>1, <3>2
  <2> QED BY <1>a, <2>1, <2>2, EditTraces
<1>2. ASSUME NEW id \in Ids, SetRule(id) PROVE Traced'
  <2>1. /\ Edit(FALSE) /\ UNCHANGED <<plugins, overrides, users, killed>>
        /\ rulesOff' \subseteq Ids
        /\ \A k \in Ids : k # id => (k \in rulesOff' <=> k \in rulesOff)
    BY <1>0, <1>2 DEF SetRule
  <2>2. PICK j \in DOMAIN Builtins : Builtins[j].id = id
    BY DEF Ids
  <2>3. /\ \A k \in DOMAIN Builtins : Builtins[k].id \in Ids
        /\ \A k \in DOMAIN Builtins : k # j => Builtins[k].id # id
    BY <2>2, DispatchAssumption DEF Ids
  <2>4. ASSUME Deciding, overlap = 0 PROVE \E c \in Configs : Explains(c)'
    <3>1. PICK c \in Configs : c = Config /\ Explains(c)
      BY <2>4 DEF Traced
    <3>2. UNCHANGED <<phase, dec>>
      BY <1>b, <2>1, <2>4
    <3>3. CASE ~SwitchUnread(j)
      <4>1. Tabled(c)'
        BY <2>1, <3>1, <3>2 DEF Explains, Tabled
      <4>2. Switched(c)'
        BY <2>1, <2>3, <3>1, <3>2, <3>3
           DEF Explains, Switched, SwitchUnread, OverrideUnread
      <4> QED BY <1>a, <1>c, <2>1, <2>4, <3>1, <4>1, <4>2
    <3>4. CASE SwitchUnread(j)
      <4>1. PICK d \in Configs : d = Config'
        BY <1>0, <2>1 DEF Config, Configs
      <4>2. /\ d.plugins = plugins /\ d.rulesOff = rulesOff' /\ d.overrides = overrides
            /\ d.users = users /\ d.killed = killed
        BY <2>1, <4>1 DEF Config
      <4>3. /\ c.plugins = plugins /\ c.rulesOff = rulesOff /\ c.overrides = overrides
            /\ c.users = users /\ c.killed = killed
        BY <3>1 DEF Config
      <4>4. Tabled(d)'
        BY <2>1, <3>1, <3>2, <4>2, <4>3 DEF Explains, Tabled
      <4>5. phase \in {"rule", "override", "killed"} =>
              Fired(dec.at, dec.ctx, d) = Fired(dec.at, dec.ctx, c)
        <5> SUFFICES ASSUME phase \in {"rule", "override", "killed"}
                     PROVE  Fired(dec.at, dec.ctx, d) = Fired(dec.at, dec.ctx, c)
          OBVIOUS
        <5>1. phase \in {"rule", "override"} /\ dec.at <= j /\ dec.at \in DOMAIN Builtins
          <6>1. phase \in {"rule", "override"} => dec.at \in DOMAIN Builtins
            BY DEF QInv, Reading
          <6>2. DOMAIN Builtins \subseteq Nat
            BY DispatchAssumption
          <6> QED BY <2>2, <3>4, <6>1, <6>2 DEF SwitchUnread
        <5>2. \A k \in DOMAIN Builtins : k < dec.at => k # j
          <6>1. DOMAIN Builtins \subseteq Nat
            BY DispatchAssumption
          <6> QED BY <5>1, <6>1
        <5>3. \A k \in DOMAIN Builtins : k < dec.at =>
                (Fires(Builtins[k], dec.ctx, d.plugins, d.rulesOff, d.overrides) <=>
                 Fires(Builtins[k], dec.ctx, c.plugins, c.rulesOff, c.overrides))
          BY <2>1, <2>3, <4>2, <4>3, <5>2 DEF Fires
        <5> QED BY <5>3 DEF Fired
      <4>6. phase = "override" => dec.at # j /\ dec.at \in DOMAIN Builtins
        <5>1. DOMAIN Builtins \subseteq Nat
          BY DispatchAssumption
        <5> QED BY <2>2, <3>4, <5>1 DEF SwitchUnread, QInv, Reading
      <4>7. Switched(d)'
        BY <2>1, <2>3, <3>1, <3>2, <4>2, <4>3, <4>5, <4>6
           DEF Explains, Switched, SwitchUnread, OverrideUnread
      <4> QED BY <1>0, <1>a, <1>d, <2>1, <2>4, <4>1, <4>4, <4>7
    <3> QED BY <3>3, <3>4
  <2> QED BY <1>a, <2>1, <2>4, EditTraces
<1>3. ASSUME NEW app \in Apps, NEW id \in Ids, NEW own \in {"on", "off"},
             SetOverride(app, id, own)
      PROVE Traced'
  <2>1. /\ Edit(FALSE) /\ UNCHANGED <<plugins, rulesOff, users, killed>>
        /\ overrides' \in [Apps \X Ids -> {"none", "on", "off"}]
        /\ \A k \in Ids, a \in Apps : k # id => overrides'[<<a, k>>] = overrides[<<a, k>>]
    BY <1>0, <1>3 DEF SetOverride
  <2>2. PICK j \in DOMAIN Builtins : Builtins[j].id = id
    BY DEF Ids
  <2>3. /\ \A k \in DOMAIN Builtins : Builtins[k].id \in Ids
        /\ \A k \in DOMAIN Builtins : k # j => Builtins[k].id # id
    BY <2>2, DispatchAssumption DEF Ids
  <2>4. ASSUME Deciding, overlap = 0 PROVE \E c \in Configs : Explains(c)'
    <3>1. PICK c \in Configs : c = Config /\ Explains(c)
      BY <2>4 DEF Traced
    <3>2. UNCHANGED <<phase, dec>> /\ dec.ctx.app \in Apps
      BY <1>b, <2>1, <2>4 DEF QInv, TypeOK, Deciding
    <3>0. \A k \in DOMAIN Builtins : k # j =>
            overrides'[<<dec.ctx.app, Builtins[k].id>>] = overrides[<<dec.ctx.app, Builtins[k].id>>]
      BY <2>1, <2>3, <3>2
    <3>3. CASE ~OverrideUnread(j)
      <4>1. Tabled(c)'
        BY <2>1, <3>1, <3>2 DEF Explains, Tabled
      <4>2. Switched(c)'
        BY <2>1, <2>3, <3>0, <3>1, <3>2, <3>3
           DEF Explains, Switched, SwitchUnread, OverrideUnread
      <4> QED BY <1>a, <1>c, <2>1, <2>4, <3>1, <4>1, <4>2
    <3>4. CASE OverrideUnread(j)
      <4>1. PICK d \in Configs : d = Config'
        BY <1>0, <2>1 DEF Config, Configs
      <4>2. /\ d.plugins = plugins /\ d.rulesOff = rulesOff /\ d.overrides = overrides'
            /\ d.users = users /\ d.killed = killed
        BY <2>1, <4>1 DEF Config
      <4>3. /\ c.plugins = plugins /\ c.rulesOff = rulesOff /\ c.overrides = overrides
            /\ c.users = users /\ c.killed = killed
        BY <3>1 DEF Config
      <4>4. Tabled(d)'
        BY <2>1, <3>1, <3>2, <4>2, <4>3 DEF Explains, Tabled
      <4>5. phase \in {"rule", "override", "killed"} =>
              Fired(dec.at, dec.ctx, d) = Fired(dec.at, dec.ctx, c)
        <5> SUFFICES ASSUME phase \in {"rule", "override", "killed"}
                     PROVE  Fired(dec.at, dec.ctx, d) = Fired(dec.at, dec.ctx, c)
          OBVIOUS
        <5>1. phase \in {"rule", "override"} /\ dec.at <= j /\ dec.at \in DOMAIN Builtins
          BY <3>4 DEF OverrideUnread, QInv, Reading
        <5>2. \A k \in DOMAIN Builtins : k < dec.at => k # j
          <6>1. DOMAIN Builtins \subseteq Nat
            BY DispatchAssumption
          <6> QED BY <5>1, <6>1
        <5>3. \A k \in DOMAIN Builtins : k < dec.at =>
                (Fires(Builtins[k], dec.ctx, d.plugins, d.rulesOff, d.overrides) <=>
                 Fires(Builtins[k], dec.ctx, c.plugins, c.rulesOff, c.overrides))
          BY <3>0, <4>2, <4>3, <5>2 DEF Fires
        <5> QED BY <5>3 DEF Fired
      <4>7. Switched(d)'
        BY <2>1, <3>1, <3>2, <4>2, <4>3, <4>5
           DEF Explains, Switched, SwitchUnread, OverrideUnread
      <4> QED BY <1>0, <1>a, <1>d, <2>1, <2>4, <4>1, <4>4, <4>7
    <3> QED BY <3>3, <3>4
  <2> QED BY <1>a, <2>1, <2>4, EditTraces
<1>4. ASSUME NEW pick \in Picks, CreateRule(pick) PROVE Traced'
  <2>1. /\ Edit(FALSE) /\ UNCHANGED <<plugins, rulesOff, overrides, killed>>
        /\ users' = users \cup {pick} /\ Valid(users')
    BY <1>4 DEF CreateRule
  <2>2. IsFiniteSet(users') /\ users' \subseteq Picks
    BY <1>0, <2>1, FS_AddElement
  <2>4. ASSUME Deciding, overlap = 0 PROVE \E c \in Configs : Explains(c)'
    <3>1. PICK c \in Configs : c = Config /\ Explains(c)
      BY <2>4 DEF Traced
    <3>2. UNCHANGED <<phase, dec>>
      BY <1>b, <2>1, <2>4
    <3>3. CASE phase # "table"
      <4>1. Tabled(c)'
        BY <2>1, <3>1, <3>2, <3>3 DEF Explains, Tabled
      <4>2. Switched(c)'
        BY <2>1, <3>1, <3>2 DEF Explains, Switched, SwitchUnread, OverrideUnread
      <4> QED BY <1>a, <1>c, <2>1, <2>4, <3>1, <4>1, <4>2
    <3>4. CASE phase = "table"
      <4>1. PICK d \in Configs : d = Config'
        BY <1>0, <2>1, <2>2 DEF Config, Configs
      <4>2. /\ d.plugins = plugins /\ d.rulesOff = rulesOff /\ d.overrides = overrides
            /\ d.users = users' /\ d.killed = killed
        BY <2>1, <4>1 DEF Config
      <4>3. c.plugins = plugins
        BY <3>1 DEF Config
      <4>4. Tabled(d)'
        BY <3>1, <3>2, <3>4, <4>2, <4>3 DEF Explains, Tabled
      <4>5. Switched(d)'
        BY <2>1, <3>2, <3>4, <4>2 DEF Switched, SwitchUnread, OverrideUnread
      <4> QED BY <1>a, <1>d, <2>1, <2>2, <2>4, <4>1, <4>4, <4>5
    <3> QED BY <3>3, <3>4
  <2> QED BY <1>a, <2>1, <2>4, EditTraces
<1>5. ASSUME NEW pick \in Picks, DeleteRule(pick) PROVE Traced'
  BY <1>5, <1>a, EditTraces DEF DeleteRule
<1>6. ASSUME NEW old \in Picks, NEW new \in Picks, UpdateRule(old, new) PROVE Traced'
  <2>1. /\ Edit(old # new) /\ UNCHANGED <<plugins, rulesOff, overrides, killed>>
        /\ old = new => users' = users
    BY <1>6 DEF UpdateRule
  <2>2. (old # new) \in BOOLEAN
    OBVIOUS
  <2>3. ASSUME Deciding, overlap = 0, old = new PROVE \E c \in Configs : Explains(c)'
    <3>1. PICK c \in Configs : c = Config /\ Explains(c)
      BY <2>3 DEF Traced
    <3>2. UNCHANGED <<phase, dec>>
      BY <1>b, <2>1, <2>3
    <3>3. Tabled(c)'
      BY <2>1, <2>3, <3>1, <3>2 DEF Explains, Tabled
    <3>4. Switched(c)'
      BY <2>1, <3>1, <3>2 DEF Explains, Switched, SwitchUnread, OverrideUnread
    <3> QED BY <1>c, <2>1, <2>2, <2>3, <3>1, <3>3, <3>4
  <2> QED BY <2>1, <2>2, <2>3, EditTraces
<1>7. CASE Kill
  <2>1. /\ Edit(FALSE) /\ UNCHANGED <<plugins, rulesOff, overrides, users>> /\ killed' = TRUE
    BY <1>7 DEF Kill
  <2>4. ASSUME Deciding, overlap = 0 PROVE \E c \in Configs : Explains(c)'
    <3>1. PICK c \in Configs : c = Config /\ Explains(c)
      BY <2>4 DEF Traced
    <3>2. UNCHANGED <<phase, dec>>
      BY <1>b, <2>1, <2>4
    <3>3. PICK d \in Configs : d = Config'
      BY <1>0, <1>a, <2>1 DEF Config, Configs
    <3>4. /\ d.plugins = c.plugins /\ d.rulesOff = c.rulesOff /\ d.overrides = c.overrides
          /\ d.users = c.users
      BY <2>1, <3>1, <3>3 DEF Config
    <3>5. Tabled(d)'
      BY <2>1, <3>1, <3>2, <3>4 DEF Explains, Tabled
    <3>6. Switched(d)'
      BY <2>1, <3>1, <3>2, <3>4
      DEF Explains, Switched, SwitchUnread, OverrideUnread, Fired
    <3> QED BY <1>0, <1>a, <1>d, <2>1, <2>4, <3>3, <3>5, <3>6
  <2> QED BY <1>a, <2>1, <2>4, EditTraces
<1>8. CASE StopTap \/ \E app \in Apps : Focus(app)
  BY <1>8, QuietTraces DEF StopTap, Focus, configVars
<1>9. CASE Resume
  BY <1>9 DEF Resume, Traced, Deciding, DecisionIsAMoment
<1> QED BY <1>1, <1>2, <1>3, <1>4, <1>5, <1>6, <1>7, <1>8, <1>9 DEF Handlers

\* With the invariant of the line, it is inductive.
LEMMA TracedNext == QInv /\ Traced /\ [Next]_vars => Traced'
<1>1. Traced /\ Worker => Traced'
  BY QuietTraces DEF Worker, TakeJob, Perform, Fail, Work, configVars, tapVars
<1>2. Traced /\ UNCHANGED vars => Traced'
  BY QuietTraces DEF vars, configVars, tapVars
<1> QED BY <1>1, <1>2, CallbackTraces, HandlersTrace DEF Next

\* A decision that at most one write overlapped, and none that took a user rule
\* away, is the decision of a moment, although decideLocked's reads are under
\* separate locks.
THEOREM MomentsDecide == Spec => []DecisionIsAMoment
<1>1. Init => Traced
  BY DEF Init, Traced, Deciding, DecisionIsAMoment
<1>2. Traced => DecisionIsAMoment
  BY DEF Traced
<1>3. Spec => []QInv
  BY Invariance
<1> QED BY <1>1, <1>2, <1>3, TracedNext, PTL DEF Spec

-----------------------------------------------------------------------------
(* The conflicts page. *)

\* What stands at a position of the page's list.
LEMMA ListedIs ==
  ASSUME IsFiniteSet(users), NEW line \in Lines, NEW i \in DOMAIN Listed(line)
  PROVE  \/ i \in DOMAIN Builtins /\ Listed(line)[i] = Builtins[i]
         \/ i \notin DOMAIN Builtins /\ \E p \in users : Listed(line)[i] = Compile(p)
<1> DEFINE n == Cardinality(users)
           S == {Builtins[k] : k \in DOMAIN Builtins}
           C == [k \in DOMAIN line |-> Compile(line[k])]
<1>1. n \in Nat /\ line \in [1 .. n -> users]
  BY FS_CardinalityType DEF Lines
<1>2. Builtins \in Seq(S)
  BY DispatchAssumption
<1> HIDE DEF n, S
<1>3. C \in Seq({Compile(p) : p \in users}) /\ DOMAIN C = 1 .. n /\ Len(C) = n
  BY <1>1
<1>4. \A k \in 1 .. n : \E p \in users : C[k] = Compile(p)
  BY <1>1
<1>5. Listed(line) = Builtins \o C
  BY DEF Listed
<1> HIDE DEF C
<1>6. /\ Len(Builtins) \in Nat /\ DOMAIN Builtins = 1 .. Len(Builtins)
      /\ DOMAIN Listed(line) = 1 .. Len(Builtins) + n
      /\ \A k \in 1 .. Len(Builtins) + n :
           Listed(line)[k] = IF k <= Len(Builtins) THEN Builtins[k] ELSE C[k - Len(Builtins)]
  <2> DEFINE U == S \cup {Compile(p) : p \in users}
  <2>1. S \subseteq U /\ {Compile(p) : p \in users} \subseteq U
    OBVIOUS
  <2> HIDE DEF U
  <2>2. Builtins \in Seq(U) /\ C \in Seq(U)
    BY <1>2, <1>3, <2>1
  <2>3. Len(Builtins) \in Nat /\ DOMAIN Builtins = 1 .. Len(Builtins)
    BY <1>2
  <2>4. /\ DOMAIN (Builtins \o C) = 1 .. Len(Builtins) + Len(C)
        /\ \A k \in 1 .. Len(Builtins) : (Builtins \o C)[k] = Builtins[k]
        /\ \A k \in Len(Builtins) + 1 .. Len(Builtins) + Len(C) :
             (Builtins \o C)[k] = C[k - Len(Builtins)]
    BY <2>2, Joined, SMTT(30)
  <2> QED BY <1>1, <1>3, <1>5, <2>3, <2>4
<1>7. CASE i <= Len(Builtins)
  BY <1>6, <1>7
<1>8. CASE ~(i <= Len(Builtins))
  <2>1. i - Len(Builtins) \in 1 .. n
    BY <1>1, <1>6, <1>8
  <2> QED BY <1>4, <1>6, <1>8, <2>1
<1> QED BY <1>7, <1>8

\* A rule of a group has the group's chord, and in an application without
\* verdicts of its own it is in the table the keyboard decides from.
LEMMA GroupIsInForce ==
  ASSUME TypeOK, NEW line \in Lines, NEW chord, NEW m \in Members(Group(chord, line)),
         NEW app, \A id \in Ids : overrides[<<app, id>>] = "none"
  PROVE  /\ Chord(m) = chord
         /\ \/ m \in BuiltinSet /\ Fires(m, Context(app), plugins, rulesOff, overrides)
            \/ \E p \in users : m = Compile(p)
<1>1. PICK i \in DOMAIN Group(chord, line) : m = Group(chord, line)[i]
  BY DEF Members
<1>2. i \in Firing(line) /\ Chord(m) = chord /\ m = Listed(line)[i]
  BY <1>1 DEF Group
<1>3. i \in DOMAIN Listed(line)
  BY <1>2 DEF Firing
<1>4. \/ i \in DOMAIN Builtins /\ m = Builtins[i]
      \/ i \notin DOMAIN Builtins /\ \E p \in users : m = Compile(p)
  BY <1>2, <1>3, ListedIs DEF TypeOK
<1>5. ASSUME i \in DOMAIN Builtins, m = Builtins[i]
      PROVE  m \in BuiltinSet /\ Fires(m, Context(app), plugins, rulesOff, overrides)
  <2>1. m.plugin \in plugins /\ m.id \notin rulesOff
    BY <1>2, <1>5 DEF Firing
  <2>2. m.id \in Ids
    BY <1>5 DEF Ids
  <2>3. Context(app).app = app
    BY DEF Context
  <2>4. overrides[<<Context(app).app, m.id>>] = "none"
    BY <2>2, <2>3
  <2> QED BY <1>5, <2>1, <2>4 DEF BuiltinSet, Fires, Shadow
<1> QED BY <1>2, <1>4, <1>5

\* A group that is not empty has a first rule.
LEMMA FirstIsOne ==
  ASSUME IsFiniteSet(users), NEW line \in Lines, NEW chord, Members(Group(chord, line)) # {}
  PROVE  First(Group(chord, line)) \in Members(Group(chord, line))
<1> DEFINE group == Group(chord, line)
<1>1. DOMAIN group \subseteq DOMAIN Listed(line)
  BY DEF Group, Firing
<1>2. DOMAIN Listed(line) \subseteq Nat
  <2>1. Builtins \in Seq({Builtins[i] : i \in DOMAIN Builtins})
    BY DispatchAssumption
  <2>2. Cardinality(users) \in Nat /\ line \in [1 .. Cardinality(users) -> users]
    BY FS_CardinalityType DEF Lines
  <2>3. [i \in DOMAIN line |-> Compile(line[i])] \in Seq({Compile(p) : p \in users})
    BY <2>2
  <2> QED BY <2>1, <2>3 DEF Listed
<1>3. DOMAIN group # {}
  BY DEF Members
<1> HIDE DEF group
<1>4. \E i \in DOMAIN group : \A j \in DOMAIN group : i <= j
  BY <1>1, <1>2, <1>3, Least
<1>5. First(group) \in Members(group)
  BY <1>4 DEF First, Members
<1> QED BY <1>5 DEF group

\* The phases and applications of the rules in force.
LEMMA RulesAreNamed ==
  ASSUME NEW m, m \in BuiltinSet \/ \E p \in Picks : m = Compile(p)
  PROVE  m.phases \subseteq {"down", "up", "flags"} /\ NoApp \notin m.apps /\ m.id # 0
<1>1. CASE m \in BuiltinSet
  BY <1>1, ConflictsAssumption DEF BuiltinSet
<1>2. ASSUME NEW p \in Picks, m = Compile(p)
      PROVE  m.phases \subseteq {"down", "up", "flags"} /\ NoApp \notin m.apps /\ m.id # 0
  <2>1. m.phases = {} /\ m.apps = p.apps /\ m.id = p.id
    BY <1>2 DEF Compile
  <2> QED BY <2>1, ConflictsAssumption
<1> QED BY <1>1, <1>2

\* A key press claims every rule that shows no half in its chord, and only a
\* press does.
LEMMA DownIsDown ==
  ASSUME NEW m, m.phases \subseteq {"down", "up", "flags"}, Half(m) = "down", NEW ev
  PROVE  Claims(m, ev) <=> ev.phase = "down"
<1>1. m.phases \cap {"up", "flags"} = {}
  <2> SUFFICES ASSUME m.phases \cap {"up", "flags"} # {} PROVE FALSE
    OBVIOUS
  <2>1. Half(m) \in m.phases \cap {"up", "flags"}
    BY DEF Half
  <2> QED BY <2>1
<1>2. m.phases \subseteq {"down"}
  BY <1>1
<1> QED BY <1>2 DEF Claims

\* The rule that outranks all others of a table is the one Resolve finds.
LEMMA ResolveIs ==
  ASSUME NEW T, Table(T), NEW w \in T, \A c \in T \ {w} : Outranks(w, c)
  PROVE  Resolve(T) = w
<1>1. /\ Resolve(T) \in T
      /\ \A c \in T \ {Resolve(T)} : Outranks(Resolve(T), c)
  BY ResolveFinds
<1>2. ASSUME Resolve(T) # w PROVE FALSE
  <2>1. Outranks(w, Resolve(T)) /\ Outranks(Resolve(T), w)
    BY <1>1, <1>2
  <2> QED BY <1>1, <2>1, RankIsAnOrder
<1> QED BY <1>2

\* The rules of a table that match a key.
Candidates(T, ev, ctx) == {m \in T : Matches(m, ev, ctx)}

\* What the router names is the winner of the candidates, if the event is the
\* user's and there are any.
LEMMA RouteNames ==
  ASSUME NEW T, NEW grants, NEW ev, NEW ctx
  PROVE  /\ Gate(Route(T, grants, FALSE, ev, ctx)).rule =
              Route(T, grants, FALSE, ev, ctx).rule
         /\ Route(T, grants, FALSE, ev, ctx).rule =
              IF ev.source = "synthetic" \/ Candidates(T, ev, ctx) = {} THEN 0
              ELSE Resolve(Candidates(T, ev, ctx)).id
<1> DEFINE v == Route(T, grants, FALSE, ev, ctx)
           cands == Candidates(T, ev, ctx)
           win == Resolve(cands)
<1>1. v = IF ev.source = "synthetic" \/ cands = {} THEN Pass
          ELSE IF win.emit /\ Authorized(win, grants) THEN Replace(win) ELSE Consume(win)
  BY DEF Route, Candidates
<1> HIDE DEF win, v, cands
<1>2. v.rule = IF ev.source = "synthetic" \/ cands = {} THEN 0 ELSE win.id
  BY <1>1 DEF Pass, Replace, Consume
<1>3. Gate(v).rule = v.rule
  BY DEF Gate, Pass
<1> QED BY <1>2, <1>3 DEF v, win, cands

\* A row's winner is what the keyboard picks: the group's rules are among those
\* in force, the probe matches the same ones in the row's first context as the
\* key does in the application, and who outranks all rules outranks these.
LEMMA RowsAreTrue == TypeOK => RowNamesThePick
<1> SUFFICES ASSUME TypeOK, phase = "idle", NEW line \in Lines, NEW ev \in Keys,
                    NEW app \in Apps, Contested(Group(KeyChord(ev), line)),
                    NEW first \in FirstContexts(Group(KeyChord(ev), line)),
                    Asked(Group(KeyChord(ev), line), first, app),
                    \A id \in Ids : overrides[<<app, id>>] = "none",
                    NEW r \in Members(Group(KeyChord(ev), line)), r.id = Picked(ev, app)
             PROVE  Row(Group(KeyChord(ev), line), first).winner = Picked(ev, app)
  BY DEF RowNamesThePick
<1> DEFINE group == Group(KeyChord(ev), line)
           ctx == Context(app)
           F == {b \in BuiltinSet : Fires(b, ctx, plugins, rulesOff, overrides)}
           T == {Compile(p) : p \in users} \cup F
           cands == Candidates(T, ev, ctx)
           probe == Probe(group)
           there == Context(first)
           few == Candidates(Members(group), probe, there)
<1>1. Table(T)
  <2>1. users \in SUBSET Picks /\ Valid(users) /\ IsFiniteSet(users)
    BY DEF TypeOK
  <2>2. F \in SUBSET {Builtins[i] : i \in DOMAIN Builtins}
    BY DEF BuiltinSet
  <2> HIDE DEF F
  <2> QED BY <2>1, <2>2, TablesAre
<1>2. \A m \in Members(group) :
        /\ m \in T /\ Chord(m) = KeyChord(ev)
        /\ m.phases \subseteq {"down", "up", "flags"} /\ NoApp \notin m.apps /\ m.id # 0
  <2> TAKE m \in Members(group)
  <2>1. /\ Chord(m) = KeyChord(ev)
        /\ \/ m \in BuiltinSet /\ Fires(m, ctx, plugins, rulesOff, overrides)
           \/ \E p \in users : m = Compile(p)
    BY GroupIsInForce
  <2>2. m \in BuiltinSet \/ \E p \in Picks : m = Compile(p)
    BY <2>1 DEF TypeOK
  <2>4. m \in T
    BY <2>1
  <2>3. m.phases \subseteq {"down", "up", "flags"} /\ NoApp \notin m.apps /\ m.id # 0
    BY <2>2, RulesAreNamed
  <2> QED BY <2>1, <2>3, <2>4
<1>3. \A m \in Members(group) : m.key = ev.key /\ m.mods = ev.mods /\ Half(m) = "down"
  BY <1>2 DEF Chord, KeyChord
<1>4. /\ ev.source # "synthetic" /\ r \in cands
      /\ \A c \in cands \ {r} : Outranks(r, c)
  <2>1. Picked(ev, app) = Gate(Route(T, Grants(users), FALSE, ev, ctx)).rule
    BY DEF Picked, AtOnce, BuiltinSet
  <2>2. r.id # 0 /\ r \in T
    BY <1>2
  <2> HIDE DEF T, ctx
  <2> DEFINE v == Route(T, Grants(users), FALSE, ev, ctx)
  <2>3. Picked(ev, app) = IF ev.source = "synthetic" \/ cands = {} THEN 0
                          ELSE Resolve(cands).id
    <3>1. /\ Gate(v).rule = v.rule
          /\ v.rule = IF ev.source = "synthetic" \/ cands = {} THEN 0 ELSE Resolve(cands).id
      BY RouteNames
    <3>2. Picked(ev, app) = Gate(v).rule
      BY <2>1
    <3> HIDE DEF v
    <3> QED BY <3>1, <3>2
  <2>4. ev.source # "synthetic" /\ cands # {} /\ r.id = Resolve(cands).id
    BY <2>2, <2>3
  <2>5. Table(cands)
    BY <1>1, SomeOfATable DEF Candidates
  <2>6. /\ Resolve(cands) \in cands
        /\ \A c \in cands \ {Resolve(cands)} : Outranks(Resolve(cands), c)
    BY <2>4, <2>5, ResolveFinds
  <2>7. Resolve(cands) = r
    <3>1. Resolve(cands) \in T /\ Resolve(cands).id = r.id /\ r \in T
      BY <2>2, <2>4, <2>6 DEF Candidates
    <3> QED BY <1>1, <3>1 DEF Table
  <2> QED BY <2>4, <2>6, <2>7
<1>5. /\ probe.key = ev.key /\ probe.mods = ev.mods /\ probe.phase = "down"
      /\ probe.source = "keyboard"
  <2>1. First(group) \in Members(group)
    BY FirstIsOne DEF TypeOK
  <2> QED BY <1>3, <2>1 DEF Probe
<1>6. ctx.app = app /\ there.app = first /\ ctx.mode = "native" /\ there.mode = "native"
  BY DEF Context
<1>7. first = app \/ (first = NoApp /\ app \notin Named(group))
  BY DEF Asked
<1> HIDE DEF group, ctx, F, T, probe, there
<1>8. \A m \in Members(group) : Claims(m, probe) /\ (Claims(m, ev) <=> ev.phase = "down")
  BY <1>2, <1>3, <1>5, DownIsDown
<1>9. ev.phase = "down"
  BY <1>4, <1>8 DEF group, Matches, Candidates
<1> USE DEF Candidates
<1>10. r \in few
  <2>1. r.apps # {} => app \in Named(group)
    BY <1>4, <1>6 DEF group, Matches, Named
  <2> QED BY <1>3, <1>4, <1>5, <1>6, <1>7, <1>8, <2>1 DEF group, Matches
<1>11. few \subseteq cands
  <2> SUFFICES ASSUME NEW m \in few PROVE m \in cands
    OBVIOUS
  <2>1. m \in Members(group) /\ Matches(m, probe, there)
    OBVIOUS
  <2>2. m.apps # {} => first = app
    BY <1>2, <1>6, <1>7, <2>1 DEF Matches
  <2> QED BY <1>2, <1>3, <1>5, <1>6, <1>8, <1>9, <2>1, <2>2 DEF Matches
<1>12. Resolve(few) = r
  <2>1. few \subseteq T
    BY <1>11
  <2>2. Table(few)
    BY <1>1, <2>1, SomeOfATable
  <2> QED BY <1>4, <1>10, <1>11, <2>2, ResolveIs
<1> HIDE DEF Candidates
<1>13. Winner(group, first) = r.id
  <2>1. Winner(group, first) = Route(Members(group), GrantSet, FALSE, probe, there).rule
    BY DEF Winner, probe, there
  <2>2. Route(Members(group), GrantSet, FALSE, probe, there).rule =
          IF probe.source = "synthetic" \/ few = {} THEN 0 ELSE Resolve(few).id
    BY RouteNames
  <2> QED BY <1>5, <1>10, <1>12, <2>1, <2>2
<1>14. r.id # 0
  BY <1>2 DEF group
<1> QED BY <1>13, <1>14 DEF group, Row

\* The row of a contested chord names the rule the keyboard picks, in every
\* application the row is about, although the page resolves the group alone
\* (resolveConflict).
THEOREM RowsNameThePick == Spec => []RowNamesThePick
BY TypeCorrect, RowsAreTrue, PTL

=============================================================================
