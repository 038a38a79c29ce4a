--------------------------- MODULE SwitcherProofs ---------------------------
(***************************************************************************)
(* What modules Switcher and SwitchSession keep, for any windows, polls,   *)
(* jobs and queue.                                                         *)
(*                                                                         *)
(* Four invariants that hardly touch: the line of triggers, the worker's   *)
(* job against the summons and commits fired so far, the panel's polls     *)
(* against the queue, and the highlight.  The highlight of a session in    *)
(* which nobody cycles is a function of the rows alone (Wanted), so that   *)
(* the panel's drawing and the commit's decision agree although the        *)
(* session they are made from is not the same.  A fifth, SessionLine, is   *)
(* about a session alone, with whatever the user does in it.               *)
(***************************************************************************)
EXTENDS Switcher, SwitchSession, FiniteSetTheorems, SequenceTheorems, WellFoundedInduction, TLAPS

\* The triggers that wait, and those read.
Unread == {queue[i] : i \in DOMAIN queue}
Read == {taken[i] : i \in DOMAIN taken}

\* Triggers are numbered as they are fired, and the queue is the newest of those
\* that were not pushed out.
TriggerLine ==
  /\ InOrder(queue) /\ InOrder(taken)
  /\ \A i \in DOMAIN taken, j \in DOMAIN queue : taken[i] < queue[j]
  /\ DOMAIN fired = Unread \cup Read \cup dropped
  /\ Unread \cap dropped = {} /\ Read \cap dropped = {}
  /\ \A w \in Unread, d \in dropped : d < w

\* What a poll of the live panel has in hand is newer than all the panel has seen.
PanelLine ==
  /\ InOrder(seen)
  /\ \A i \in DOMAIN seen : seen[i] \in Read
  /\ pollAt[live] = "answer" /\ pollHas[live].trigger # 0 =>
       /\ pollHas[live].trigger \in Read
       /\ \A i \in DOMAIN seen : seen[i] < pollHas[live].trigger

\* The panel's one poll does not sleep while a trigger waits without a hint.
PanelAwake ==
  ~reopened =>
    /\ \A p \in Polls : p # live => pollAt[p] = "out"
    /\ pollAt[live] \in {"parking", "parked"} /\ queue # <<>> =>
         signal \/ at = "signal"

HowMany(s, a) == Cardinality({i \in DOMAIN s : s[i] = a})
Summons == HowMany(fired, "summon")
Commits == HowMany(fired, "commit")

\* The places of a commit that has closed the session and not fired.
Committing ==
  at \in {"commitRows", "commit", "focus"} \/ (at = "fire" /\ job.action = "commit")
Summoning == at = "fire" /\ job.action = "summon"

\* The summon of a commit under way is paid for, and so is the open one.
Paid ==
  /\ at = "fire" => Committing \/ Summoning
  /\ at = "focus" => job.action = "commit"
  /\ Summoning => open
  /\ Committing => ~open /\ Commits < Summons
  /\ open /\ ~Summoning => Commits < Summons
  /\ Commits <= Summons

\* Between jobs, and before one has changed anything, the last trigger is true.
Told ==
  at \in {"idle", "summonRows", "summon", "signal"} /\ ~failed =>
    (open <=> fired # <<>> /\ fired[Len(fired)] = "summon")

\* What a session in which nobody cycled picks of a list.
Wanted(rows) == DecideOn(Closed, rows, rows # <<>>, FALSE, NoWindow).target

\* Panel and worker pick alike.
Highlight ==
  /\ ~sess.picked /\ ~sess.searching
  /\ shown.target = Wanted(shown.rows)
  /\ at = "focus" => job.target = Wanted(job.rows)

\* The inductive invariant.
IInv ==
  TypeOK /\ TriggerLine /\ PanelLine /\ PanelAwake /\ Paid /\ Told /\ Highlight

-----------------------------------------------------------------------------
(* The rows and the highlight. *)

\* A set of numbers has a least one.
LEMMA Least ==
  ASSUME NEW S, S \subseteq Nat, S # {}
  PROVE  \E m \in S : \A n \in S : m <= n
<1>1. PICK m \in S : \A n \in S : ~(<<n, m>> \in OpToRel(<, Nat))
  BY NatLessThanWellFounded, WFMin
<1>2. ASSUME NEW n \in S PROVE m <= n
  <2>1. n \in Nat /\ m \in Nat
    OBVIOUS
  <2>2. <<n, m>> \in Nat \X Nat
    BY <2>1
  <2> QED BY <1>1, <2>1, <2>2 DEF OpToRel
<1> QED BY <1>2

\* The first of a set of tiles, and the second.
LEMMA NthIs ==
  ASSUME NEW S, S \subseteq Nat, IsFiniteSet(S), S # {}
  PROVE  /\ Nth(S, 1) \in S
         /\ Cardinality(S) # 1 => Nth(S, 2) \in S
<1>1. PICK m \in S : \A n \in S : m <= n
  BY Least
<1>0. m \in Nat /\ \A n \in S : n \in Nat
  OBVIOUS
<1>2. {j \in S : j < m} = {}
  <2>1. \A j \in S : ~(j < m)
    BY <1>0, <1>1
  <2> QED BY <2>1
<1>3. \E i \in S : Cardinality({j \in S : j < i}) = 1 - 1
  BY <1>2, FS_EmptySet
<1>4. Nth(S, 1) \in S
  BY <1>3 DEF Nth
<1>5. ASSUME Cardinality(S) # 1 PROVE Nth(S, 2) \in S
  <2>1. S \ {m} # {}
    <3> SUFFICES ASSUME S \ {m} = {} PROVE FALSE
      OBVIOUS
    <3>1. S = {m}
      OBVIOUS
    <3> QED BY <1>5, <3>1, FS_Singleton
  <2>2. PICK k \in S \ {m} : \A n \in S \ {m} : k <= n
    BY <2>1, Least
  <2>3. {j \in S : j < k} = {m}
    <3>1. m \in S /\ m < k
      BY <1>0, <1>1, <2>2
    <3>2. \A j \in S : j < k => j = m
      BY <1>0, <1>1, <2>2, SMTT(30)
    <3> DEFINE L == {j \in S : j < k}
    <3>3. m \in L /\ \A j \in L : j = m
      BY <3>1, <3>2
    <3> HIDE DEF L
    <3>4. L = {m}
      BY <3>3
    <3> QED BY <3>4 DEF L
  <2>4. \E i \in S : Cardinality({j \in S : j < i}) = 2 - 1
    <3>1. Cardinality({m}) = 1
      BY FS_Singleton
    <3>2. Cardinality({j \in S : j < k}) = 2 - 1
      BY <2>3, <3>1
    <3> QED BY <2>2, <3>2
  <2> QED BY <2>4 DEF Nth
<1> QED BY <1>4, <1>5

Sessions == [target : Windows \cup {NoWindow}, picked : BOOLEAN, last : Nat,
             visible : Nat, searching : BOOLEAN]

\* The window on a tile.
On(rows, i) == IF i = NoIndex THEN NoWindow ELSE rows[i].id

\* What is in a list of rows.
LEMMA RowsAre ==
  ASSUME NEW rows \in Lists
  PROVE  /\ Len(rows) \in Nat /\ DOMAIN rows = 1 .. Len(rows)
         /\ \A i \in DOMAIN rows :
              rows[i].id \in Windows /\ rows[i].skip \in BOOLEAN /\ rows[i].late = FALSE
         /\ IsFiniteSet(Candidates(rows)) /\ Candidates(rows) \subseteq DOMAIN rows
         /\ Cardinality(Candidates(rows)) \in Nat
<1> DEFINE R == [id : Windows, skip : BOOLEAN, late : {FALSE}]
<1>0. rows \in Seq(R)
  BY DEF Lists
<1>2. \A r \in R : r.id \in Windows /\ r.skip \in BOOLEAN /\ r.late = FALSE
  OBVIOUS
<1> HIDE DEF R
<1>1. Len(rows) \in Nat /\ DOMAIN rows = 1 .. Len(rows) /\ \A i \in DOMAIN rows : rows[i] \in R
  BY <1>0
<1>3. IsFiniteSet(DOMAIN rows)
  BY <1>1, FS_Interval
<1>4. Candidates(rows) \subseteq DOMAIN rows
  BY DEF Candidates
<1> QED BY <1>1, <1>2, <1>3, <1>4, FS_Subset, FS_CardinalityType

\* The default is a tile of the list or none, and no number of newcomers moves it
\* where no row is one.
LEMMA DefaultIs ==
  ASSUME NEW rows \in Lists, NEW drawn, NEW visible
  PROVE  /\ DefaultPick(rows, drawn, visible) = DefaultPick(rows, drawn, 0)
         /\ DefaultPick(rows, drawn, 0) \in {NoIndex} \cup DOMAIN rows
         /\ Candidates(rows) = {} => DefaultPick(rows, drawn, 0) = NoIndex
<1>1. \A v : StepOverNewcomers(rows, v) = Candidates(rows)
  <2> TAKE v
  <2>1. \A i \in Candidates(rows) : ~rows[i].late
    BY RowsAre DEF Candidates
  <2> QED BY <2>1 DEF StepOverNewcomers
<1>2. \A v : DefaultPick(rows, drawn, v) =
        LET kept == Candidates(rows)
        IN IF kept = {} THEN NoIndex
           ELSE IF ~drawn \/ Cardinality(kept) = 1 THEN Nth(kept, 1) ELSE Nth(kept, 2)
  BY <1>1 DEF DefaultPick
<1>3. Candidates(rows) # {} =>
        /\ Nth(Candidates(rows), 1) \in DOMAIN rows
        /\ Cardinality(Candidates(rows)) # 1 => Nth(Candidates(rows), 2) \in DOMAIN rows
  <2>1. DOMAIN rows \subseteq Nat
    BY RowsAre
  <2> QED BY <2>1, RowsAre, NthIs
<1> QED BY <1>2, <1>3

\* To land is to take the tile's window.
LEMMA LandIs ==
  ASSUME NEW s \in Sessions, NEW rows \in Lists, NEW i \in {NoIndex} \cup DOMAIN rows
  PROVE  /\ Land(s, rows, i) \in Sessions
         /\ Land(s, rows, i).target = On(rows, i)
         /\ Land(s, rows, i).picked = s.picked
         /\ Land(s, rows, i).searching = s.searching
<1>1. i \in Nat /\ On(rows, i) \in Windows \cup {NoWindow}
  <2>1. CASE i = NoIndex
    BY <2>1 DEF NoIndex, On
  <2>2. CASE i \in DOMAIN rows
    <3>1. /\ Len(rows) \in Nat /\ DOMAIN rows = 1 .. Len(rows)
          /\ rows[i].id \in Windows
      BY <2>2, RowsAre
    <3> QED BY <2>2, <3>1 DEF NoIndex, On
  <2> QED BY <2>1, <2>2
<1>2. Land(s, rows, i) = [s EXCEPT !.target = On(rows, i), !.last = i]
  BY DEF Land, On
<1>3. PICK w \in Windows \cup {NoWindow} : w = On(rows, i)
  BY <1>1
<1>4. /\ [s EXCEPT !.target = w, !.last = i] \in Sessions
      /\ [s EXCEPT !.target = w, !.last = i].target = w
      /\ [s EXCEPT !.target = w, !.last = i].picked = s.picked
      /\ [s EXCEPT !.target = w, !.last = i].searching = s.searching
  BY <1>1 DEF Sessions
<1> QED BY <1>2, <1>3, <1>4

\* A session nobody picked in decides on the default, whatever it was.
LEMMA DecideIs ==
  ASSUME NEW s \in Sessions, ~s.picked, ~s.searching, NEW rows \in Lists, NEW drawn
  PROVE  LET now == DecideOn(s, rows, drawn, FALSE, NoWindow)
         IN /\ now \in Sessions /\ ~now.picked /\ ~now.searching
            /\ now.target = On(rows, DefaultPick(rows, drawn, 0))
<1> DEFINE i == DefaultPick(rows, drawn, 0)
           still == [s EXCEPT !.searching = @ \/ FALSE]
<1>1. still \in Sessions /\ ~still.picked /\ ~still.searching /\ still.visible = s.visible
  BY DEF Sessions
<1>2. DefaultPick(rows, drawn, still.visible) = i /\ i \in {NoIndex} \cup DOMAIN rows
  <2> HIDE DEF still
  <2> QED BY DefaultIs
<1>3. Candidates(rows) = {} => i = NoIndex
  BY DefaultIs
<1>4. DecideOn(s, rows, drawn, FALSE, NoWindow) =
        IF Candidates(rows) = {} THEN Land(s, rows, NoIndex)
        ELSE Land(still, rows, DefaultPick(rows, drawn, still.visible))
  BY <1>1 DEF DecideOn, Default
<1> HIDE DEF i, still
<1>5. PICK l \in {s, still} : DecideOn(s, rows, drawn, FALSE, NoWindow) = Land(l, rows, i)
  BY <1>2, <1>3, <1>4
<1>6. l \in Sessions /\ ~l.picked /\ ~l.searching
  BY <1>1, <1>5
<1>7. /\ Land(l, rows, i) \in Sessions /\ Land(l, rows, i).target = On(rows, i)
      /\ ~Land(l, rows, i).picked /\ ~Land(l, rows, i).searching
  BY <1>2, <1>6, LandIs
<1> QED BY <1>5, <1>7 DEF i

\* So the window it decides on is the one wanted.
LEMMA DecideWanted ==
  ASSUME NEW s \in Sessions, ~s.picked, ~s.searching, NEW rows \in Lists
  PROVE  LET now == DecideOn(s, rows, rows # <<>>, FALSE, NoWindow)
         IN now \in Sessions /\ ~now.picked /\ ~now.searching /\ now.target = Wanted(rows)
<1>1. Closed \in Sessions /\ ~Closed.picked /\ ~Closed.searching
  BY DEF Closed, Sessions
<1> DEFINE drawn == rows # <<>>
<1> HIDE DEF drawn
<1>2. DecideOn(Closed, rows, drawn, FALSE, NoWindow).target =
        On(rows, DefaultPick(rows, drawn, 0))
  BY <1>1, DecideIs
<1>3. LET now == DecideOn(s, rows, drawn, FALSE, NoWindow)
      IN /\ now \in Sessions /\ ~now.picked /\ ~now.searching
         /\ now.target = On(rows, DefaultPick(rows, drawn, 0))
  BY DecideIs
<1> QED BY <1>2, <1>3 DEF Wanted, drawn

\* A summon opens a session nobody picked in.
LEMMA SummonIs ==
  ASSUME NEW rows \in Lists, NEW drawn
  PROVE  /\ Summon(rows, drawn) \in Sessions
         /\ ~Summon(rows, drawn).picked /\ ~Summon(rows, drawn).searching
<1> DEFINE s == [Closed EXCEPT !.last = NoIndex, !.visible = Cardinality(Candidates(rows))]
<1>1. Closed \in Sessions /\ ~Closed.picked /\ ~Closed.searching
  BY DEF Closed, Sessions
<1>2. s \in Sessions /\ ~s.picked /\ ~s.searching
  <2>1. PICK c \in Sessions : c = Closed
    BY <1>1
  <2>2. Cardinality(Candidates(rows)) \in Nat
    BY RowsAre
  <2>3. ASSUME NEW n \in Nat
        PROVE  /\ [c EXCEPT !.last = NoIndex, !.visible = n] \in Sessions
               /\ [c EXCEPT !.last = NoIndex, !.visible = n].picked = c.picked
               /\ [c EXCEPT !.last = NoIndex, !.visible = n].searching = c.searching
    BY DEF Sessions, NoIndex
  <2> QED BY <1>1, <2>1, <2>2, <2>3
<1> HIDE DEF s
<1>3. DefaultPick(rows, drawn, s.visible) \in {NoIndex} \cup DOMAIN rows
  BY DefaultIs
<1>4. Summon(rows, drawn) = Land(s, rows, DefaultPick(rows, drawn, s.visible))
  BY DEF Summon, Default, s
<1> QED BY <1>2, <1>3, <1>4, LandIs

-----------------------------------------------------------------------------
(* The lists. *)

\* A sequence after another.
LEMMA Joined ==
  ASSUME NEW S, NEW s \in Seq(S), NEW t \in Seq(S)
  PROVE  /\ s \o t \in Seq(S) /\ Len(s \o t) = Len(s) + Len(t)
         /\ DOMAIN (s \o t) = 1 .. Len(s) + Len(t)
         /\ \A i \in 1 .. Len(s) : (s \o t)[i] = s[i]
         /\ \A i \in Len(s) + 1 .. Len(s) + Len(t) : (s \o t)[i] = t[i - Len(s)]
OBVIOUS

\* A sequence with one more element in front.
LEMMA Prefixed ==
  ASSUME NEW S, NEW r \in S, NEW s \in Seq(S)
  PROVE  LET f == <<r>> \o s
         IN /\ f \in Seq(S) /\ DOMAIN f = 1 .. 1 + Len(s) /\ f[1] = r
            /\ \A k \in 2 .. 1 + Len(s) : f[k] = s[k - 1]
OBVIOUS

\* What stands before an element, and after it.
LEMMA Pieces ==
  ASSUME NEW S, NEW s \in Seq(S), NEW i \in 1 .. Len(s)
  PROVE  SubSeq(s, 1, i - 1) \in Seq(S) /\ SubSeq(s, i + 1, Len(s)) \in Seq(S)
<1>1. Len(s) \in Nat /\ i \in Nat /\ 1 <= i /\ i <= Len(s)
  OBVIOUS
<1> QED BY <1>1

\* A sequence without one of its elements.
LEMMA LeftOut ==
  ASSUME NEW S, NEW s \in Seq(S), NEW i \in 1 .. Len(s)
  PROVE  LET w == SubSeq(s, 1, i - 1) \o SubSeq(s, i + 1, Len(s))
         IN /\ w \in Seq(S) /\ Len(w) = Len(s) - 1 /\ DOMAIN w = 1 .. Len(s) - 1
            /\ \A k \in 1 .. Len(s) - 1 :
                 (k < i => w[k] = s[k]) /\ (~(k < i) => w[k] = s[k + 1])
<1> DEFINE a == SubSeq(s, 1, i - 1)
           b == SubSeq(s, i + 1, Len(s))
<1>0. Len(s) \in Nat /\ i \in Nat /\ 1 <= i /\ i <= Len(s)
  OBVIOUS
<1>1. /\ a \in Seq(S) /\ Len(a) = i - 1
      /\ \A k \in 1 .. i - 1 : a[k] = s[k]
  BY <1>0
<1>2. /\ b \in Seq(S) /\ Len(b) = Len(s) - i
      /\ \A k \in 1 .. Len(s) - i : b[k] = s[i + k]
  BY <1>0
<1> HIDE DEF a, b
<1>3. /\ a \o b \in Seq(S) /\ Len(a \o b) = (i - 1) + (Len(s) - i)
      /\ DOMAIN (a \o b) = 1 .. (i - 1) + (Len(s) - i)
      /\ \A k \in 1 .. i - 1 : (a \o b)[k] = a[k]
      /\ \A k \in (i - 1) + 1 .. (i - 1) + (Len(s) - i) : (a \o b)[k] = b[k - (i - 1)]
  <2>1. /\ a \o b \in Seq(S) /\ Len(a \o b) = Len(a) + Len(b)
        /\ DOMAIN (a \o b) = 1 .. Len(a) + Len(b)
        /\ \A k \in 1 .. Len(a) : (a \o b)[k] = a[k]
        /\ \A k \in Len(a) + 1 .. Len(a) + Len(b) : (a \o b)[k] = b[k - Len(a)]
    BY <1>1, <1>2, Joined
  <2> QED BY <1>1, <1>2, <2>1
<1>4. (i - 1) + (Len(s) - i) = Len(s) - 1
  BY <1>0
<1>5. ASSUME NEW k \in 1 .. Len(s) - 1
      PROVE  (k < i => (a \o b)[k] = s[k]) /\ (~(k < i) => (a \o b)[k] = s[k + 1])
  <2>1. CASE k < i
    BY <1>0, <1>1, <1>3, <2>1
  <2>2. CASE ~(k < i)
    <3>1. k - (i - 1) \in 1 .. Len(s) - i /\ i + (k - (i - 1)) = k + 1
      BY <1>0, <2>2
    <3>2. k \in (i - 1) + 1 .. (i - 1) + (Len(s) - i)
      BY <1>0, <2>2
    <3> QED BY <1>2, <1>3, <2>2, <3>1, <3>2
  <2> QED BY <2>1, <2>2
<1> QED BY <1>3, <1>4, <1>5 DEF a, b

\* A list without one of its windows.
LEMMA WithoutIs ==
  ASSUME NEW rows \in Lists, Distinct(rows), NEW i \in DOMAIN rows
  PROVE  LET w == SubSeq(rows, 1, i - 1) \o SubSeq(rows, i + 1, Len(rows))
         IN w \in Lists /\ Distinct(w) /\ \A k \in DOMAIN w : w[k].id # rows[i].id
<1> DEFINE w == SubSeq(rows, 1, i - 1) \o SubSeq(rows, i + 1, Len(rows))
<1>1. Len(rows) \in Nat /\ DOMAIN rows = 1 .. Len(rows)
  BY RowsAre
<1>2. /\ w \in Lists /\ DOMAIN w = 1 .. Len(rows) - 1
      /\ \A k \in 1 .. Len(rows) - 1 :
           (k < i => w[k] = rows[k]) /\ (~(k < i) => w[k] = rows[k + 1])
  <2> DEFINE R == [id : Windows, skip : BOOLEAN, late : {FALSE}]
  <2>1. rows \in Seq(R) /\ i \in 1 .. Len(rows) /\ Lists = Seq(R)
    BY <1>1 DEF Lists
  <2> HIDE DEF R
  <2> QED BY <2>1, LeftOut
<1> HIDE DEF w
<1> DEFINE from(k) == IF k < i THEN k ELSE k + 1
<1>3. \A k \in DOMAIN w : from(k) \in DOMAIN rows /\ from(k) # i /\ w[k] = rows[from(k)]
  BY <1>1, <1>2
<1>4. \A k, l \in DOMAIN w : from(k) = from(l) => k = l
  BY <1>1, <1>2
<1> HIDE DEF from
<1>5. Distinct(w) /\ \A k \in DOMAIN w : w[k].id # rows[i].id
  BY <1>3, <1>4 DEF Distinct
<1> QED BY <1>2, <1>5 DEF w

\* A row of the service.
LEMMA RowIs ==
  ASSUME NEW id \in Windows, NEW skip \in BOOLEAN
  PROVE  Row(id, skip) \in [id : Windows, skip : BOOLEAN, late : {FALSE}]
         /\ Row(id, skip).id = id
BY DEF Row

\* A list with another window in front.
LEMMA InFront ==
  ASSUME NEW rows \in Lists, Distinct(rows), NEW id \in Windows,
         \A k \in DOMAIN rows : rows[k].id # id
  PROVE  LET f == <<Row(id, FALSE)>> \o rows IN f \in Lists /\ Distinct(f)
<1> DEFINE R == [id : Windows, skip : BOOLEAN, late : {FALSE}]
           r == Row(id, FALSE)
           f == <<r>> \o rows
<1>1. r \in R /\ r.id = id
  <2>1. FALSE \in BOOLEAN
    BY Zenon
  <2> QED BY <2>1, RowIs
<1>2. rows \in Seq(R)
  BY DEF Lists
<1>3. Len(rows) \in Nat /\ DOMAIN rows = 1 .. Len(rows)
  BY RowsAre
<1> HIDE DEF R, r
<1>6. f \in Seq(R) /\ DOMAIN f = 1 .. 1 + Len(rows) /\ f[1] = r
      /\ \A k \in 2 .. 1 + Len(rows) : f[k] = rows[k - 1] /\ k - 1 \in DOMAIN rows
  <2>1. \A k \in 2 .. 1 + Len(rows) : k - 1 \in DOMAIN rows
    BY <1>3
  <2> QED BY <1>1, <1>2, <2>1, Prefixed
<1> HIDE DEF f
<1>7. Distinct(f)
  <2> SUFFICES ASSUME NEW k \in DOMAIN f, NEW l \in DOMAIN f, f[k].id = f[l].id PROVE k = l
    BY DEF Distinct
  <2>1. /\ k = 1 \/ k \in 2 .. 1 + Len(rows)
        /\ l = 1 \/ l \in 2 .. 1 + Len(rows)
    BY <1>3, <1>6
  <2>2. CASE k = 1 \/ l = 1
    BY <1>1, <1>6, <2>1, <2>2
  <2>3. CASE k \in 2 .. 1 + Len(rows) /\ l \in 2 .. 1 + Len(rows)
    <3>1. k - 1 = l - 1
      BY <1>6, <2>3 DEF Distinct
    <3> QED BY <2>3, <3>1
  <2> QED BY <2>1, <2>2, <2>3
<1> QED BY <1>6, <1>7 DEF Lists, R, r, f

-----------------------------------------------------------------------------
(* Types. *)

LEMMA TypeInit == Init => TypeOK
<1> SUFFICES ASSUME Init PROVE TypeOK
  OBVIOUS
<1> USE SwitcherAssumption, WindowAssumption
<1>1. <<>> \in Lists /\ <<>> \in Seq(Nat) /\ <<>> \in Seq({"summon", "commit"}) /\ Len(<<>>) = 0
  BY DEF Lists
<1>2. sess \in Sessions
  BY DEF Init, Closed, Sessions
<1>3. job \in [rows : Lists, target : Windows \cup {NoWindow},
               action : {"none", "summon", "commit"}]
  BY <1>1 DEF Init, NoJob
<1>4. /\ pollAt \in [Polls -> {"out", "take", "parking", "parked", "answer", "rows", "draw"}]
      /\ pollHas \in [Polls -> [trigger : Nat, rows : Lists]]
  BY <1>1 DEF Init, Nothing
<1>5. shown \in [rows : Lists, target : Windows \cup {NoWindow}]
  BY <1>1 DEF Init, NotShown
<1>6. live \in Polls
  BY DEF Init
<1>7. open \in BOOLEAN /\ signal \in BOOLEAN /\ failed \in BOOLEAN /\ reopened \in BOOLEAN
  BY Zenon DEF Init
<1>8. /\ list = FirstList /\ changes = 0 /\ queue = <<>> /\ at = "idle" /\ jobsDone = 0
      /\ fired = <<>> /\ dropped = {} /\ taken = <<>> /\ seen = <<>>
  BY DEF Init
<1>9. 0 <= QueueMax
  OBVIOUS
<1> QED BY <1>1, <1>2, <1>3, <1>4, <1>5, <1>6, <1>7, <1>8, <1>9 DEF TypeOK, Sessions

\* What a job may hold.
Held == [rows : Lists, target : Windows \cup {NoWindow}, action : {"none", "summon", "commit"}]

\* The worker's steps, but for the trigger.
LEMMA TypeWorker ==
  ASSUME TypeOK, Highlight, ReadRows \/ OpenSession \/ CommitSession \/ Focus \/ Signal
  PROVE  TypeOK'
<1> USE DEF OnWorker, serviceVars, pollVars
<1>1. /\ job \in Held /\ sess \in Sessions /\ NoJob \in Held /\ Closed \in Sessions
      /\ NotShown = [rows |-> <<>>, target |-> NoWindow] /\ <<>> \in Lists
  BY DEF TypeOK, Held, Sessions, NoJob, Closed, NotShown, Lists
<1>2. /\ job.rows \in Lists /\ job.target \in Windows \cup {NoWindow}
      /\ job.action \in {"none", "summon", "commit"}
  BY <1>1 DEF Held
<1>3. \A rows \in Lists : [job EXCEPT !.rows = rows] \in Held
  BY <1>1 DEF Held
<1>4. GiveUp => /\ at' = "idle" /\ job' \in Held /\ failed' \in BOOLEAN
                /\ UNCHANGED <<list, sess, open, queue, signal, jobsDone, fired, dropped, shown>>
  BY <1>1 DEF GiveUp, TypeOK
<1>5. CASE ReadRows
  <2>1. /\ job' \in Held /\ at' \in {"idle", "summon", "commit"} /\ failed' \in BOOLEAN
        /\ UNCHANGED <<list, sess, open, queue, signal, jobsDone, fired, dropped, shown>>
        /\ OnWorker
    BY <1>3, <1>4, <1>5 DEF ReadRows, TypeOK
  <2> QED BY <2>1 DEF TypeOK, Held
<1>6. CASE OpenSession
  <2>1. sess' \in Sessions
    BY <1>2, <1>6, SummonIs DEF OpenSession
  <2>2. job' \in Held
    <3>1. job' = [NoJob EXCEPT !.action = "summon"]
      BY <1>6 DEF OpenSession
    <3> QED BY <1>1, <3>1 DEF Held
  <2>3. shown' \in [rows : Lists, target : Windows \cup {NoWindow}]
    BY <1>1, <1>6 DEF OpenSession
  <2>4. open' \in BOOLEAN /\ failed' \in BOOLEAN
    BY <1>6, Zenon DEF OpenSession
  <2>5. /\ at' = "fire" /\ UNCHANGED <<list, queue, signal, jobsDone, fired, dropped>> /\ OnWorker
    BY <1>6 DEF OpenSession
  <2> QED BY <2>1, <2>2, <2>3, <2>4, <2>5 DEF TypeOK, Held, Sessions
<1>7. CASE CommitSession
  <2> DEFINE target == DecideOn(sess, job.rows, job.rows # <<>>, FALSE, NoWindow).target
  <2>1. target \in Windows \cup {NoWindow}
    <3>1. DecideOn(sess, job.rows, job.rows # <<>>, FALSE, NoWindow) \in Sessions
      BY <1>1, <1>2, DecideWanted DEF Highlight
    <3> QED BY <3>1 DEF Sessions
  <2>2. /\ \/ at' = "idle" /\ job' = NoJob /\ failed' = TRUE
           \/ at' = "focus" /\ failed' = failed
              /\ job' = [job EXCEPT !.target = target, !.action = "commit"]
        /\ sess' = Closed
        /\ UNCHANGED <<list, open, queue, signal, jobsDone, fired, dropped, shown>>
        /\ OnWorker
    BY <1>7 DEF CommitSession
  <2> HIDE DEF target
  <2>3. [job EXCEPT !.target = target, !.action = "commit"] \in Held
    BY <1>1, <2>1 DEF Held
  <2>4. job' \in Held /\ at' \in {"idle", "focus"} /\ sess' \in Sessions
    BY <1>1, <2>2, <2>3
  <2>5. failed' \in BOOLEAN
    BY <2>2, Zenon DEF TypeOK
  <2> QED BY <2>2, <2>4, <2>5 DEF TypeOK, Held, Sessions
<1>8. CASE Focus
  <2>1. CASE GiveUp /\ OnWorker
    BY <1>4, <2>1 DEF TypeOK, Held
  <2>2. CASE /\ job.target \in Ids(list)
             /\ LET i == IndexOf(list, job.target)
                IN list' = <<Row(job.target, FALSE)>> \o SubSeq(list, 1, i - 1)
                             \o SubSeq(list, i + 1, Len(list))
             /\ at' = "fire"
             /\ UNCHANGED <<serviceVars, job, jobsDone, fired, dropped, shown, failed>>
             /\ OnWorker
    <3> DEFINE i == IndexOf(list, job.target)
               a == SubSeq(list, 1, i - 1)
               b == SubSeq(list, i + 1, Len(list))
               one == <<Row(job.target, FALSE)>>
               R == [id : Windows, skip : BOOLEAN, late : {FALSE}]
    <3>0. list \in Lists /\ Distinct(list) /\ list \in Seq(R) /\ Len(list) \in Nat
          /\ DOMAIN list = 1 .. Len(list)
      BY RowsAre DEF TypeOK, Lists
    <3>1. i \in DOMAIN list /\ list[i].id = job.target
      BY <2>2 DEF IndexOf, Ids
    <3>2. job.target \in Windows
      BY <3>0, <3>1, RowsAre
    <3>3. one \in Seq(R) /\ a \in Seq(R) /\ b \in Seq(R)
      <4>1. Row(job.target, FALSE) \in R
        BY <3>2, RowIs
      <4> HIDE DEF R
      <4>2. i \in 1 .. Len(list)
        BY <3>0, <3>1
      <4> HIDE DEF i
      <4>3. a \in Seq(R) /\ b \in Seq(R)
        BY <3>0, <4>2, Pieces
      <4>4. one \in Seq(R)
        <5>1. \A r \in R : <<r>> \in Seq(R)
          OBVIOUS
        <5> QED BY <4>1, <5>1
      <4> QED BY <4>3, <4>4
    <3>4. list' = one \o a \o b
      BY <2>2
    <3>5. /\ a \o b \in Lists /\ Distinct(a \o b)
          /\ \A k \in DOMAIN (a \o b) : (a \o b)[k].id # job.target
      BY <3>0, <3>1, WithoutIs
    <3>6. one \o (a \o b) \in Lists /\ Distinct(one \o (a \o b))
      <4> HIDE DEF a, b, i
      <4> DEFINE w == a \o b
      <4>1. w \in Lists /\ Distinct(w) /\ \A k \in DOMAIN w : w[k].id # job.target
        BY <3>5
      <4> HIDE DEF w
      <4>2. <<Row(job.target, FALSE)>> \o w \in Lists /\ Distinct(<<Row(job.target, FALSE)>> \o w)
        BY <3>2, <4>1, InFront
      <4> QED BY <4>2 DEF w
    <3>7. list' \in Lists /\ Distinct(list')
      <4> HIDE DEF one, a, b, R
      <4>1. (one \o a) \o b = one \o (a \o b)
        BY <3>3, ConcatAssociative
      <4> QED BY <3>4, <3>6, <4>1
    <3> QED BY <2>2, <3>7 DEF TypeOK
  <2> QED BY <1>8, <2>1, <2>2 DEF Focus
<1>9. CASE Signal
  <2>1. /\ at' = "idle" /\ signal' = TRUE /\ OnWorker
        /\ UNCHANGED <<list, sess, open, queue, job, jobsDone, fired, dropped, shown, failed>>
    BY <1>9 DEF Signal
  <2>2. signal' \in BOOLEAN
    BY <2>1, Zenon
  <2> QED BY <2>1, <2>2 DEF TypeOK
<1> QED BY <1>5, <1>6, <1>7, <1>8, <1>9

\* The trigger a job fires.
LEMMA TypeFire ==
  ASSUME TypeOK, TriggerLine, Paid, Fire
  PROVE  TypeOK'
<1> USE SwitcherAssumption, WindowAssumption DEF OnWorker, pollVars
<1> DEFINE full == Len(queue) >= QueueMax
           rest == IF full THEN Tail(queue) ELSE queue
<1>1. job.action \in {"summon", "commit"}
  BY DEF Fire, Paid, Committing, Summoning
<1>2. /\ fired' = Append(fired, job.action) /\ queue' = Append(rest, Len(fired'))
      /\ dropped' = (IF full THEN dropped \cup {Head(queue)} ELSE dropped)
      /\ at' = "signal" /\ job' = NoJob
      /\ UNCHANGED <<list, sess, open, signal, jobsDone, shown, failed>> /\ OnWorker
  BY DEF Fire
<1>3. /\ fired' \in Seq({"summon", "commit"}) /\ Len(fired') \in Nat
      /\ DOMAIN fired \subseteq DOMAIN fired'
  BY <1>1, <1>2 DEF TypeOK
<1>4. /\ queue \in Seq(Nat) /\ Len(queue) \in Nat /\ QueueMax \in Nat /\ QueueMax >= 1
      /\ Len(queue) <= QueueMax
  BY DEF TypeOK
<1>5. rest \in Seq(Nat) /\ Len(rest) < QueueMax
  BY <1>4
<1>6. queue' \in Seq(Nat) /\ Len(queue') <= QueueMax
  <2> HIDE DEF rest
  <2>1. Len(rest) \in Nat
    BY <1>5
  <2> QED BY <1>2, <1>3, <1>4, <1>5, <2>1
<1>7. dropped' \subseteq DOMAIN fired'
  <2>1. full => Head(queue) \in DOMAIN fired
    <3>1. full => 1 \in DOMAIN queue /\ Head(queue) = queue[1]
      BY <1>4
    <3> QED BY <3>1 DEF TriggerLine, Unread
  <2> HIDE DEF full
  <2> QED BY <1>2, <1>3, <2>1 DEF TypeOK
<1>8. job' \in Held
  BY <1>2 DEF NoJob, Held, Lists
<1> HIDE DEF full, rest
<1> QED BY <1>2, <1>3, <1>6, <1>7, <1>8 DEF TypeOK, Held

\* What a poll may hold.
Answers == [trigger : Nat, rows : Lists]

LEMMA TypePoll ==
  ASSUME TypeOK, Highlight, NEW p \in Polls, Poll(p)
  PROVE  TypeOK'
<1> USE DEF OnPoll, serverVars, workerVars
<1>1. /\ pollAt \in [Polls -> {"out", "take", "parking", "parked", "answer", "rows", "draw"}]
      /\ pollHas \in [Polls -> Answers] /\ sess \in Sessions /\ list \in Lists
  BY DEF TypeOK, Answers, Sessions
<1>2. /\ Nothing \in Answers /\ \A n \in Nat : [Nothing EXCEPT !.trigger = n] \in Answers
      /\ \A rows \in Lists : [Nothing EXCEPT !.rows = rows] \in Answers
  <2>1. <<>> \in Lists
    BY DEF Lists
  <2> QED BY <2>1 DEF Nothing, Answers
<1>3. ASSUME NEW place \in {"out", "take", "parking", "parked", "answer", "rows", "draw"},
             NEW has \in Answers, Goto(p, place, has)
      PROVE  /\ pollAt' \in [Polls -> {"out", "take", "parking", "parked", "answer", "rows", "draw"}]
             /\ pollHas' \in [Polls -> Answers]
  BY <1>1, <1>3 DEF Goto
<1>4. ASSUME Call(p) \/ Park(p) \/ Timeout(p) PROVE TypeOK'
  <2>1. /\ UNCHANGED <<sess, queue, signal, taken, seen, shown>> /\ OnPoll(p)
        /\ \E place \in {"out", "take", "parking", "parked", "answer", "rows", "draw"} :
             Goto(p, place, Nothing)
    BY <1>4 DEF Call, Park, Timeout
  <2> QED BY <1>2, <1>3, <2>1 DEF TypeOK, Answers
<1>5. ASSUME Wake(p) PROVE TypeOK'
  <2>1. /\ UNCHANGED <<sess, queue, taken, seen, shown>> /\ OnPoll(p) /\ signal' = FALSE
        /\ Goto(p, "take", Nothing)
    BY <1>5 DEF Wake
  <2>2. signal' \in BOOLEAN
    BY <2>1, Zenon
  <2> QED BY <1>2, <1>3, <2>1, <2>2 DEF TypeOK, Answers
<1>6. ASSUME Take(p) PROVE TypeOK'
  <2>1. UNCHANGED <<sess, signal, seen, shown>> /\ OnPoll(p)
    BY <1>6 DEF Take
  <2>2. CASE queue # <<>>
    <3>1. /\ queue \in Seq(Nat) /\ queue # <<>> /\ taken \in Seq(Nat)
          /\ Len(queue) <= QueueMax /\ QueueMax \in Nat
      BY <2>2, SwitcherAssumption DEF TypeOK
    <3>2. /\ queue' = Tail(queue) /\ taken' = Append(taken, Head(queue))
          /\ Goto(p, "answer", [Nothing EXCEPT !.trigger = Head(queue)])
      BY <1>6, <2>2 DEF Take
    <3>3. Head(queue) \in Nat /\ queue' \in Seq(Nat) /\ taken' \in Seq(Nat)
          /\ Len(queue') <= QueueMax
      BY <3>1, <3>2
    <3>4. [Nothing EXCEPT !.trigger = Head(queue)] \in Answers
      BY <1>2, <3>3
    <3>5. pollAt' \in [Polls -> {"out", "take", "parking", "parked", "answer", "rows", "draw"}]
          /\ pollHas' \in [Polls -> Answers]
      BY <1>3, <3>2, <3>4
    <3> QED BY <2>1, <3>3, <3>5 DEF TypeOK, Answers
  <2>3. CASE queue = <<>>
    <3>1. Goto(p, "parking", Nothing) /\ UNCHANGED <<queue, taken>>
      BY <1>6, <2>3 DEF Take
    <3> QED BY <1>2, <1>3, <2>1, <3>1 DEF TypeOK, Answers
  <2> QED BY <2>2, <2>3
<1>7. ASSUME Answer(p) PROVE TypeOK'
  <2>1. UNCHANGED <<sess, queue, signal, taken, shown>> /\ OnPoll(p)
    BY <1>7 DEF Answer
  <2>2. pollHas[p].trigger \in Nat
    BY <1>1 DEF Answers
  <2>3. \/ seen' = Append(seen, pollHas[p].trigger) /\ Goto(p, "rows", Nothing)
        \/ seen' = seen /\ Goto(p, "out", Nothing)
    BY <1>7 DEF Answer
  <2>4. seen' \in Seq(Nat)
    <3>1. seen \in Seq(Nat)
      BY DEF TypeOK
    <3>2. \A n \in Nat : Append(seen, n) \in Seq(Nat)
      BY <3>1
    <3> QED BY <2>2, <2>3, <3>1, <3>2
  <2> QED BY <1>2, <1>3, <2>1, <2>3, <2>4 DEF TypeOK, Answers
<1>8. ASSUME ListRows(p) PROVE TypeOK'
  <2>1. UNCHANGED <<sess, queue, signal, taken, seen, shown>> /\ OnPoll(p)
    BY <1>8 DEF ListRows
  <2>2. \/ Goto(p, "draw", [Nothing EXCEPT !.rows = list])
        \/ Goto(p, "out", Nothing)
    BY <1>8 DEF ListRows
  <2>3. [Nothing EXCEPT !.rows = list] \in Answers
    BY <1>1, <1>2
  <2> QED BY <1>2, <1>3, <2>1, <2>2, <2>3 DEF TypeOK, Answers
<1>9. ASSUME Draw(p) PROVE TypeOK'
  <2> DEFINE rows == pollHas[p].rows
  <2>1. /\ UNCHANGED <<queue, signal, taken, seen>> /\ OnPoll(p) /\ Goto(p, "out", Nothing)
        /\ sess' = DecideOn(sess, rows, rows # <<>>, FALSE, NoWindow)
        /\ shown' = (IF open THEN [rows |-> rows, target |-> sess'.target] ELSE shown)
    BY <1>9 DEF Draw
  <2>2. rows \in Lists
    BY <1>1 DEF Answers
  <2> HIDE DEF rows
  <2>3. sess' \in Sessions
    BY <1>1, <2>1, <2>2, DecideWanted DEF Highlight
  <2>4. sess'.target \in Windows \cup {NoWindow}
    BY <2>3 DEF Sessions
  <2>5. shown' \in [rows : Lists, target : Windows \cup {NoWindow}]
    BY <2>1, <2>2, <2>4 DEF TypeOK
  <2>6. /\ pollAt' \in [Polls -> {"out", "take", "parking", "parked", "answer", "rows", "draw"}]
        /\ pollHas' \in [Polls -> Answers]
    BY <1>2, <1>3, <2>1
  <2> QED BY <2>1, <2>3, <2>5, <2>6 DEF TypeOK, Answers, Sessions
<1> QED BY <1>4, <1>5, <1>6, <1>7, <1>8, <1>9 DEF Poll

LEMMA TypeWorld ==
  ASSUME TypeOK, World
  PROVE  TypeOK'
<1>1. ASSUME NEW rows, Change(rows), rows \in Lists, Distinct(rows) PROVE TypeOK'
  BY <1>1 DEF Change, TypeOK, serviceVars, workerVars, pollVars, pastVars
<1>2. CASE BeginSummon
  BY <1>2 DEF BeginSummon, OnWorker, TypeOK, serviceVars, pollVars
<1>3. CASE BeginCommit
  <2>1. open' \in BOOLEAN /\ at' \in {"idle", "commitRows"} /\ jobsDone' = jobsDone + 1
    BY <1>3, Zenon DEF BeginCommit
  <2> QED BY <1>3, <2>1 DEF BeginCommit, OnWorker, TypeOK, serviceVars, pollVars
<1>4. ASSUME NEW p \in Polls, Reopen(p) PROVE TypeOK'
  <2>1. live' = p /\ reopened' \in BOOLEAN
    BY <1>4, Zenon DEF Reopen
  <2> QED BY <1>4, <2>1 DEF Reopen, TypeOK, serverVars, serviceVars, workerVars
<1>5. ASSUME NEW id \in Windows, Arrive(id) PROVE TypeOK'
  <2>1. list \in Lists /\ Distinct(list) /\ \A k \in DOMAIN list : list[k].id # id
    BY <1>5 DEF Arrive, Ids, TypeOK
  <2> DEFINE f == <<Row(id, FALSE)>> \o list
  <2>2. f \in Lists /\ Distinct(f)
    BY <2>1, InFront
  <2>3. Change(f)
    BY <1>5 DEF Arrive
  <2> HIDE DEF f
  <2> QED BY <1>1, <2>2, <2>3
<1>6. ASSUME NEW i \in DOMAIN list, Leave(i) \/ Raise(i) \/ Minimize(i) PROVE TypeOK'
  <2> DEFINE w == Without(i)
  <2>0. list \in Lists /\ Distinct(list)
    BY DEF TypeOK
  <2>1. w \in Lists /\ Distinct(w) /\ \A k \in DOMAIN w : w[k].id # list[i].id
    BY <2>0, WithoutIs DEF Without
  <2>2. list[i].id \in Windows /\ list[i].skip \in BOOLEAN
    BY <2>0, RowsAre
  <2> DEFINE f == <<Row(list[i].id, FALSE)>> \o w
             m == [list EXCEPT ![i].skip = TRUE]
  <2>3. f \in Lists /\ Distinct(f)
    <3> HIDE DEF w
    <3> QED BY <2>1, <2>2, InFront
  <2>4. m \in Lists /\ Distinct(m)
    <3> DEFINE R == [id : Windows, skip : BOOLEAN, late : {FALSE}]
    <3>0. list \in Seq(R)
      BY <2>0 DEF Lists
    <3>1. list[i] \in R
      <4> HIDE DEF R
      <4> QED BY <3>0
    <3>2. [list[i] EXCEPT !.skip = TRUE] \in R /\ [list[i] EXCEPT !.skip = TRUE].id = list[i].id
      <4>1. \A r \in R, b \in BOOLEAN :
              [r EXCEPT !.skip = b] \in R /\ [r EXCEPT !.skip = b].id = r.id
        OBVIOUS
      <4>2. TRUE \in BOOLEAN
        BY Zenon
      <4> HIDE DEF R
      <4> QED BY <3>1, <4>1, <4>2
    <3> DEFINE r == [list[i] EXCEPT !.skip = TRUE]
    <3>3. m = [list EXCEPT ![i] = r]
      OBVIOUS
    <3> HIDE DEF R, r, m
    <3>4. m \in Seq(R) /\ DOMAIN m = DOMAIN list
          /\ \A k \in DOMAIN list : m[k] = IF k = i THEN r ELSE list[k]
      BY <3>0, <3>2, <3>3 DEF r
    <3>5. \A k \in DOMAIN list : m[k].id = list[k].id
      BY <3>2, <3>4 DEF r
    <3>6. Distinct(m)
      BY <2>0, <3>4, <3>5 DEF Distinct
    <3> QED BY <3>4, <3>6 DEF Lists, R
  <2>5. Change(w) \/ Change(f) \/ Change(m)
    BY <1>6 DEF Leave, Raise, Minimize
  <2> HIDE DEF w, f, m
  <2> QED BY <1>1, <2>1, <2>3, <2>4, <2>5
<1> QED BY <1>2, <1>3, <1>4, <1>5, <1>6 DEF World

\* Every step keeps every variable's type.
LEMMA TypeStep ==
  ASSUME IInv, [Next]_vars
  PROVE  TypeOK'
<1>1. CASE Worker
  BY <1>1, TypeWorker, TypeFire DEF Worker, IInv
<1>2. ASSUME NEW p \in Polls, Poll(p) PROVE TypeOK'
  BY <1>2, TypePoll DEF IInv
<1>3. CASE World
  BY <1>3, TypeWorld DEF IInv
<1>4. CASE UNCHANGED vars
  BY <1>4 DEF IInv, TypeOK, vars, serverVars, serviceVars, workerVars, pollVars, pastVars
<1> QED BY <1>1, <1>2, <1>3, <1>4 DEF Next

-----------------------------------------------------------------------------
(* The line of triggers. *)

\* Steps that touch no trigger.
LEMMA LineStays ==
  ASSUME TriggerLine, UNCHANGED <<queue, taken, fired, dropped>>
  PROVE  TriggerLine'
BY DEF TriggerLine, InOrder, Unread, Read

\* Those who do not fire and do not take.
LEMMA WhoTouchesTriggers ==
  ASSUME [Next]_vars
  PROVE  \/ Fire
         \/ \E p \in Polls : Take(p)
         \/ UNCHANGED <<queue, taken, fired, dropped>>
<1> USE DEF OnWorker, OnPoll, Goto, serviceVars, serverVars, workerVars, pollVars, pastVars
<1>1. CASE ReadRows \/ OpenSession \/ CommitSession \/ Focus \/ Signal
  BY <1>1 DEF ReadRows, OpenSession, CommitSession, Focus, Signal, GiveUp
<1>2. ASSUME NEW p \in Polls,
             Call(p) \/ Park(p) \/ Wake(p) \/ Timeout(p) \/ Answer(p) \/ ListRows(p) \/ Draw(p)
      PROVE  UNCHANGED <<queue, taken, fired, dropped>>
  BY <1>2 DEF Call, Park, Wake, Timeout, Answer, ListRows, Draw
<1>3. CASE World
  BY <1>3 DEF World, BeginSummon, BeginCommit, Reopen, Arrive, Leave, Raise, Minimize, Change
<1>4. CASE UNCHANGED vars
  BY <1>4 DEF vars
<1> QED BY <1>1, <1>2, <1>3, <1>4 DEF Next, Worker, Poll

\* The last of a range, and the places before it.
LEMMA Ends ==
  ASSUME NEW n \in Nat
  PROVE  /\ \A i \in 1 .. n : i = n \/ i \in 1 .. n - 1
         /\ \A i \in 1 .. n - 1 : i + 1 \in 1 .. n /\ i \in Nat
OBVIOUS

LEMMA LineStep ==
  ASSUME IInv, [Next]_vars
  PROVE  TriggerLine'
<1> USE SwitcherAssumption, WindowAssumption
<1>0. /\ queue \in Seq(Nat) /\ Len(queue) \in Nat /\ DOMAIN queue = 1 .. Len(queue)
      /\ taken \in Seq(Nat) /\ Len(taken) \in Nat /\ DOMAIN taken = 1 .. Len(taken)
      /\ Len(fired) \in Nat /\ DOMAIN fired = 1 .. Len(fired)
      /\ fired \in Seq({"summon", "commit"})
      /\ QueueMax \in Nat /\ QueueMax >= 1 /\ dropped \subseteq DOMAIN fired
      /\ \A i \in DOMAIN queue : queue[i] \in Nat
      /\ \A i \in DOMAIN taken : taken[i] \in Nat
      /\ TriggerLine
  BY DEF IInv, TypeOK
<1>1. CASE Fire
  <2> DEFINE n == Len(fired) + 1
             full == Len(queue) >= QueueMax
             rest == IF full THEN Tail(queue) ELSE queue
  <2>1. /\ Len(fired') = n /\ DOMAIN fired' = DOMAIN fired \cup {n} /\ n \in Nat
        /\ \A i \in DOMAIN fired : i < n
    <3>1. fired' = Append(fired, job.action) /\ job.action \in {"summon", "commit"}
      BY <1>1 DEF Fire, IInv, Paid, Committing, Summoning
    <3> QED BY <1>0, <3>1
  <2>2. /\ queue' = Append(rest, n) /\ taken' = taken
        /\ dropped' = IF full THEN dropped \cup {Head(queue)} ELSE dropped
    BY <1>1, <2>1 DEF Fire, OnWorker
  <2>3. \A i \in DOMAIN queue : queue[i] \in DOMAIN fired /\ queue[i] < n
    BY <1>0, <2>1 DEF TriggerLine, Unread
  <2>4. \A i \in DOMAIN taken : taken[i] \in DOMAIN fired /\ taken[i] < n
    BY <1>0, <2>1 DEF TriggerLine, Read
  <2>5. CASE ~full
    <3>1. /\ DOMAIN queue' = DOMAIN queue \cup {Len(queue) + 1}
          /\ \A i \in DOMAIN queue : queue'[i] = queue[i] /\ i < Len(queue) + 1
          /\ queue'[Len(queue) + 1] = n /\ dropped' = dropped
          /\ Len(queue) + 1 \notin DOMAIN queue
      BY <1>0, <2>1, <2>2, <2>5
    <3>2. Unread' = Unread \cup {n} /\ Read' = Read
      BY <2>2, <3>1 DEF Unread, Read
    <3>3. n \notin dropped /\ n \notin Read /\ \A d \in dropped : d < n
      BY <1>0, <2>1, <2>4 DEF Read
    <3>4. \A i, j \in DOMAIN queue' : i < j => queue'[i] < queue'[j]
      <4> SUFFICES ASSUME NEW i \in DOMAIN queue', NEW j \in DOMAIN queue', i < j
                   PROVE  queue'[i] < queue'[j]
        OBVIOUS
      <4>1. i \in DOMAIN queue
        BY <1>0, <3>1
      <4>2. CASE j \in DOMAIN queue
        BY <1>0, <3>1, <4>1, <4>2, SMTT(30) DEF TriggerLine, InOrder
      <4>3. CASE j = Len(queue) + 1
        <5>1. queue'[i] = queue[i] /\ queue[i] < n /\ queue'[j] = n
          BY <2>3, <3>1, <4>1, <4>3
        <5> QED BY <5>1
      <4> QED BY <3>1, <4>2, <4>3
    <3>5. \A i \in DOMAIN taken, j \in DOMAIN queue' : taken[i] < queue'[j]
      <4> SUFFICES ASSUME NEW i \in DOMAIN taken, NEW j \in DOMAIN queue'
                   PROVE  taken[i] < queue'[j]
        OBVIOUS
      <4>1. CASE j \in DOMAIN queue
        BY <1>0, <3>1, <4>1 DEF TriggerLine
      <4>2. CASE j = Len(queue) + 1
        BY <2>4, <3>1, <4>2
      <4> QED BY <3>1, <4>1, <4>2
    <3>6. InOrder(queue') /\ InOrder(taken)
      BY <1>0, <3>4 DEF InOrder, TriggerLine
    <3>7. /\ DOMAIN fired' = Unread' \cup Read' \cup dropped'
          /\ Unread' \cap dropped' = {} /\ Read' \cap dropped' = {}
      BY <1>0, <2>1, <3>1, <3>2, <3>3 DEF TriggerLine
    <3>8. \A w \in Unread', d \in dropped' : d < w
      BY <1>0, <3>1, <3>2, <3>3 DEF TriggerLine
    <3> QED BY <2>2, <3>5, <3>6, <3>7, <3>8 DEF TriggerLine
  <2>6. CASE full
    <3>0. /\ 1 \in DOMAIN queue /\ Head(queue) = queue[1] /\ Tail(queue) \in Seq(Nat)
          /\ Len(Tail(queue)) = Len(queue) - 1
          /\ \A i \in 1 .. Len(queue) - 1 : Tail(queue)[i] = queue[i + 1]
      BY <1>0, <2>6
    <3>1. /\ DOMAIN queue' = 1 .. Len(queue)
          /\ \A i \in 1 .. Len(queue) - 1 : queue'[i] = queue[i + 1] /\ i + 1 \in DOMAIN queue
          /\ queue'[Len(queue)] = n /\ dropped' = dropped \cup {queue[1]}
      <4> DEFINE t == Tail(queue)
      <4>1. queue' = Append(t, n) /\ dropped' = dropped \cup {queue[1]}
        BY <2>2, <2>6, <3>0
      <4>2. /\ t \in Seq(Nat) /\ Len(t) = Len(queue) - 1
            /\ \A i \in 1 .. Len(queue) - 1 : t[i] = queue[i + 1]
        BY <3>0
      <4>3. Len(queue) - 1 \in Nat /\ n \in Nat
        BY <1>0, <2>1, <3>0
      <4> HIDE DEF t, n
      <4>4. /\ Append(t, n) \in Seq(Nat) /\ DOMAIN Append(t, n) = 1 .. Len(t) + 1
            /\ \A i \in 1 .. Len(t) : Append(t, n)[i] = t[i]
            /\ Append(t, n)[Len(t) + 1] = n
        BY <4>2, <4>3
      <4>5. Len(t) + 1 = Len(queue)
        BY <1>0, <4>2
      <4>6. \A i \in 1 .. Len(queue) - 1 : i + 1 \in DOMAIN queue
        BY <1>0
      <4> QED BY <4>1, <4>2, <4>4, <4>5, <4>6
    <3>2. Unread' = (Unread \ {queue[1]}) \cup {n} /\ Read' = Read
      <4>1. ASSUME NEW x \in Unread' PROVE x \in (Unread \ {queue[1]}) \cup {n}
        <5>1. PICK i \in 1 .. Len(queue) : x = queue'[i]
          BY <3>1 DEF Unread
        <5>0. i = Len(queue) \/ i \in 1 .. Len(queue) - 1
          BY <1>0, Ends
        <5>2. CASE i = Len(queue)
          BY <3>1, <5>1, <5>2
        <5>3. CASE i \in 1 .. Len(queue) - 1
          <6>1. x = queue[i + 1] /\ i + 1 \in DOMAIN queue /\ 1 < i + 1
            BY <1>0, <3>1, <5>1, <5>3
          <6>2. queue[1] < queue[i + 1]
            BY <1>0, <3>0, <6>1 DEF TriggerLine, InOrder
          <6>3. queue[1] # queue[i + 1]
            BY <1>0, <3>0, <6>1, <6>2
          <6> QED BY <6>1, <6>3 DEF Unread
        <5> QED BY <5>0, <5>2, <5>3
      <4>2. ASSUME NEW x \in (Unread \ {queue[1]}) \cup {n} PROVE x \in Unread'
        <5>1. CASE x = n
          BY <1>0, <3>0, <3>1, <5>1 DEF Unread
        <5>2. CASE x \in Unread \ {queue[1]}
          <6>1. PICK i \in DOMAIN queue : x = queue[i] /\ i # 1
            BY <5>2 DEF Unread
          <6>2. i - 1 \in 1 .. Len(queue) - 1 /\ i - 1 \in 1 .. Len(queue) /\ (i - 1) + 1 = i
            BY <1>0, <6>1, SMTT(30)
          <6> QED BY <3>1, <6>1, <6>2 DEF Unread
        <5> QED BY <5>1, <5>2
      <4> QED BY <2>2, <4>1, <4>2 DEF Read
    <3>3. n \notin dropped /\ n \notin Read /\ n # queue[1] /\ queue[1] \in Unread
          /\ queue[1] \notin Read /\ queue[1] \notin dropped
      <4>1. \A i \in DOMAIN taken : taken[i] # queue[1]
        <5>1. \A i \in DOMAIN taken : taken[i] < queue[1]
          BY <1>0, <3>0 DEF TriggerLine
        <5> QED BY <1>0, <3>0, <5>1
      <4>2. n \notin dropped /\ n \notin Read /\ n # queue[1]
        BY <1>0, <2>1, <2>3, <2>4, <3>0 DEF Read
      <4>3. queue[1] \in Unread
        BY <3>0 DEF Unread
      <4> QED BY <1>0, <4>1, <4>2, <4>3 DEF TriggerLine, Read
    <3>4. \A w \in Unread', d \in dropped' : d < w
      <4> SUFFICES ASSUME NEW w \in Unread', NEW d \in dropped' PROVE d < w
        OBVIOUS
      <4>1. CASE w = n
        <5>1. \A e \in DOMAIN fired : e < n
          BY <2>1
        <5>2. d \in DOMAIN fired
          BY <1>0, <2>3, <3>0, <3>1
        <5> QED BY <4>1, <5>1, <5>2
      <4>2. CASE w \in Unread \ {queue[1]}
        <5>1. PICK i \in DOMAIN queue : w = queue[i] /\ i # 1
          BY <4>2 DEF Unread
        <5>2. queue[1] < queue[i]
          <6>1. \A a, b \in DOMAIN queue : a < b => queue[a] < queue[b]
            BY <1>0 DEF TriggerLine, InOrder
          <6>2. 1 < i
            BY <1>0, <5>1
          <6> QED BY <3>0, <5>1, <6>1, <6>2
        <5>3. d \in dropped \/ d = queue[1]
          BY <3>1
        <5>4. d \in dropped => d < w
          BY <1>0, <4>2 DEF TriggerLine
        <5> QED BY <5>1, <5>2, <5>3, <5>4
      <4> QED BY <3>2, <4>1, <4>2
    <3>5. \A i, j \in DOMAIN queue' : i < j => queue'[i] < queue'[j]
      <4> SUFFICES ASSUME NEW i \in DOMAIN queue', NEW j \in DOMAIN queue', i < j
                   PROVE  queue'[i] < queue'[j]
        OBVIOUS
      <4>1. i \in 1 .. Len(queue) - 1 /\ i + 1 \in DOMAIN queue /\ queue'[i] = queue[i + 1]
        BY <1>0, <3>1
      <4>2. CASE j = Len(queue)
        <5>1. queue[i + 1] < n
          BY <2>3, <4>1
        <5> QED BY <3>1, <4>1, <4>2, <5>1
      <4>3. CASE j \in 1 .. Len(queue) - 1
        <5>1. j + 1 \in DOMAIN queue /\ queue'[j] = queue[j + 1] /\ i + 1 < j + 1
          <6>1. j + 1 \in DOMAIN queue /\ j \in Nat /\ i \in Nat
            BY <1>0, <4>1, <4>3, Ends
          <6> QED BY <3>1, <4>3, <6>1
        <5> QED BY <1>0, <4>1, <5>1 DEF TriggerLine, InOrder
      <4> QED BY <1>0, <3>1, <4>2, <4>3
    <3>6. \A i \in DOMAIN taken, j \in DOMAIN queue' : taken[i] < queue'[j]
      <4> SUFFICES ASSUME NEW i \in DOMAIN taken, NEW j \in DOMAIN queue'
                   PROVE  taken[i] < queue'[j]
        OBVIOUS
      <4>1. CASE j = Len(queue)
        BY <2>4, <3>1, <4>1
      <4>2. CASE j \in 1 .. Len(queue) - 1
        BY <1>0, <3>1, <4>2 DEF TriggerLine
      <4> QED BY <1>0, <3>1, <4>1, <4>2
    <3>7. InOrder(queue') /\ InOrder(taken)
      BY <1>0, <3>5 DEF InOrder, TriggerLine
    <3>8. DOMAIN fired' = Unread' \cup Read' \cup dropped'
      BY <1>0, <2>1, <3>1, <3>2, <3>3 DEF TriggerLine
    <3>9. Unread' \cap dropped' = {} /\ Read' \cap dropped' = {}
      BY <1>0, <3>1, <3>2, <3>3 DEF TriggerLine
    <3> QED BY <2>2, <3>4, <3>6, <3>7, <3>8, <3>9 DEF TriggerLine
  <2> QED BY <2>5, <2>6
<1>2. ASSUME NEW p \in Polls, Take(p) PROVE TriggerLine'
  <2>1. CASE queue = <<>>
    BY <1>0, <1>2, <2>1, LineStays DEF Take, OnPoll
  <2>2. CASE queue # <<>>
    <3>1. queue' = Tail(queue) /\ taken' = Append(taken, Head(queue))
          /\ fired' = fired /\ dropped' = dropped
      BY <1>2, <2>2 DEF Take, OnPoll
    <3>2. /\ 1 \in DOMAIN queue /\ Head(queue) = queue[1]
          /\ DOMAIN queue' = 1 .. Len(queue) - 1
          /\ \A i \in DOMAIN queue' :
               queue'[i] = queue[i + 1] /\ i + 1 \in DOMAIN queue /\ i \in Nat
      BY <1>0, <2>2, <3>1
    <3>3. /\ DOMAIN taken' = DOMAIN taken \cup {Len(taken) + 1}
          /\ \A i \in DOMAIN taken : taken'[i] = taken[i] /\ i < Len(taken) + 1
          /\ taken'[Len(taken) + 1] = queue[1]
      <4>1. taken' = Append(taken, queue[1]) /\ queue[1] \in Nat
        BY <1>0, <3>1, <3>2
      <4> QED BY <1>0, <4>1
    <3>4. \A i \in DOMAIN queue' : queue[1] < queue'[i]
      <4> SUFFICES ASSUME NEW i \in DOMAIN queue' PROVE queue[1] < queue'[i]
        OBVIOUS
      <4>1. 1 < i + 1 /\ queue'[i] = queue[i + 1] /\ i + 1 \in DOMAIN queue
        BY <1>0, <3>2
      <4> QED BY <1>0, <3>2, <4>1 DEF TriggerLine, InOrder
    <3>5. Unread = Unread' \cup {queue[1]}
      <4>1. ASSUME NEW x \in Unread PROVE x \in Unread' \cup {queue[1]}
        <5>1. PICK i \in DOMAIN queue : x = queue[i]
          BY DEF Unread
        <5>2. CASE i # 1
          <6>1. i - 1 \in DOMAIN queue' /\ (i - 1) + 1 = i
            BY <1>0, <3>2, <5>2
          <6> QED BY <3>2, <5>1, <6>1 DEF Unread
        <5> QED BY <5>1, <5>2
      <4>2. Unread' \cup {queue[1]} \subseteq Unread
        BY <3>2 DEF Unread
      <4> QED BY <4>1, <4>2
    <3>6. Read' = Read \cup {queue[1]}
      BY <3>3 DEF Read
    <3>7. InOrder(queue')
      <4> SUFFICES ASSUME NEW i \in DOMAIN queue', NEW j \in DOMAIN queue', i < j
                   PROVE  queue'[i] < queue'[j]
        BY DEF InOrder
      <4>1. i + 1 < j + 1
        BY <1>0, <3>2
      <4> QED BY <1>0, <3>2, <4>1 DEF TriggerLine, InOrder
    <3>8. InOrder(taken')
      <4> SUFFICES ASSUME NEW i \in DOMAIN taken', NEW j \in DOMAIN taken', i < j
                   PROVE  taken'[i] < taken'[j]
        BY DEF InOrder
      <4>1. i \in DOMAIN taken
        BY <1>0, <3>3
      <4>2. CASE j \in DOMAIN taken
        BY <1>0, <3>3, <4>1, <4>2 DEF TriggerLine, InOrder
      <4>3. CASE j = Len(taken) + 1
        BY <1>0, <3>2, <3>3, <4>1, <4>3 DEF TriggerLine
      <4> QED BY <3>3, <4>2, <4>3
    <3>9. \A i \in DOMAIN taken', j \in DOMAIN queue' : taken'[i] < queue'[j]
      <4> SUFFICES ASSUME NEW i \in DOMAIN taken', NEW j \in DOMAIN queue'
                   PROVE  taken'[i] < queue'[j]
        OBVIOUS
      <4>1. CASE i \in DOMAIN taken
        BY <1>0, <3>2, <3>3, <4>1 DEF TriggerLine
      <4>2. CASE i = Len(taken) + 1
        BY <3>3, <3>4, <4>2
      <4> QED BY <3>3, <4>1, <4>2
    <3>10. /\ Unread \cap dropped = {} /\ Read \cap dropped = {}
           /\ DOMAIN fired = Unread \cup Read \cup dropped
      BY <1>0 DEF TriggerLine
    <3>11. \A w \in Unread', d \in dropped : d < w
      BY <1>0, <3>5 DEF TriggerLine
    <3> QED BY <3>1, <3>5, <3>6, <3>7, <3>8, <3>9, <3>10, <3>11 DEF TriggerLine
  <2> QED BY <2>1, <2>2
<1> QED BY <1>0, <1>1, <1>2, WhoTouchesTriggers, LineStays

-----------------------------------------------------------------------------
(* The panel. *)

\* Steps of the worker and of the world touch no poll but a new panel's.
LEMMA PanelStays ==
  ASSUME PanelLine, UNCHANGED <<seen, taken, pollVars>>
  PROVE  PanelLine'
BY DEF PanelLine, InOrder, Read, pollVars

LEMMA PanelLineStep ==
  ASSUME IInv, [Next]_vars
  PROVE  PanelLine'
<1>0. /\ seen \in Seq(Nat) /\ Len(seen) \in Nat /\ DOMAIN seen = 1 .. Len(seen)
      /\ taken \in Seq(Nat) /\ Len(taken) \in Nat /\ DOMAIN taken = 1 .. Len(taken)
      /\ pollAt \in [Polls -> {"out", "take", "parking", "parked", "answer", "rows", "draw"}]
      /\ pollHas \in [Polls -> Answers] /\ live \in Polls
      /\ PanelLine /\ TriggerLine
  BY DEF IInv, TypeOK, Answers
<1>1. CASE Worker
  BY <1>0, <1>1, PanelStays DEF Worker, ReadRows, OpenSession, CommitSession, Focus, Fire,
     Signal, OnWorker
<1>2. CASE World
  <2>1. ASSUME NEW p \in Polls, Reopen(p) PROVE PanelLine'
    <3>1. /\ live' = p /\ pollAt'[p] = "out" /\ seen' = seen /\ Read' = Read
      BY <2>1 DEF Reopen, Read
    <3> QED BY <1>0, <3>1 DEF PanelLine, InOrder
  <2>2. CASE ~\E p \in Polls : Reopen(p)
    BY <1>0, <1>2, <2>2, PanelStays DEF World, BeginSummon, BeginCommit, Arrive, Leave,
       Raise, Minimize, Change, OnWorker, pastVars
  <2> QED BY <2>1, <2>2
<1>3. ASSUME NEW p \in Polls, Poll(p) PROVE PanelLine'
  <2> USE DEF OnPoll
  <2>0. live' = live
    BY <1>3 DEF Poll, Call, Take, Park, Wake, Timeout, Answer, ListRows, Draw
  <2>1. CASE Take(p)
    <3>1. seen' = seen
      BY <2>1 DEF Take
    <3>2. CASE queue = <<>>
      <4>1. Read' = Read /\ pollAt'[p] = "parking"
            /\ \A o \in Polls : o # p => pollAt'[o] = pollAt[o] /\ pollHas'[o] = pollHas[o]
        BY <1>0, <2>1, <3>2 DEF Take, Goto, Read
      <4> QED BY <1>0, <2>0, <3>1, <4>1 DEF PanelLine, InOrder
    <3>3. CASE queue # <<>>
      <4>0. queue \in Seq(Nat) /\ 1 \in DOMAIN queue /\ Head(queue) = queue[1]
            /\ queue[1] \in Nat
        BY <3>3 DEF IInv, TypeOK
      <4>1. /\ taken' = Append(taken, queue[1]) /\ pollHas'[p].trigger = queue[1]
            /\ \A o \in Polls : o # p => pollAt'[o] = pollAt[o] /\ pollHas'[o] = pollHas[o]
        BY <1>0, <2>1, <3>3, <4>0 DEF Take, Goto, Nothing
      <4>2. Read' = Read \cup {queue[1]}
        <5>1. /\ DOMAIN taken' = DOMAIN taken \cup {Len(taken) + 1}
              /\ \A i \in DOMAIN taken : taken'[i] = taken[i]
              /\ taken'[Len(taken) + 1] = queue[1]
          BY <1>0, <4>0, <4>1
        <5> QED BY <5>1 DEF Read
      <4>3. \A x \in Read : x < queue[1]
        BY <1>0, <4>0 DEF TriggerLine, Read
      <4> QED BY <1>0, <2>0, <3>1, <4>1, <4>2, <4>3 DEF PanelLine, InOrder
    <3> QED BY <3>2, <3>3
  <2>2. CASE Answer(p)
    <3>1. Read' = Read
      BY <2>2 DEF Answer, Read
    <3>2. pollAt[p] = "answer" /\ pollAt'[p] # "answer"
          /\ \A o \in Polls : o # p => pollAt'[o] = pollAt[o] /\ pollHas'[o] = pollHas[o]
      BY <1>0, <2>2 DEF Answer, Goto
    <3>3. CASE pollHas[p].trigger # 0 /\ p = live
      <4> DEFINE t == pollHas[p].trigger
      <4>1. t \in Nat
        BY <1>0 DEF Answers
      <4>2. seen' = Append(seen, t)
        BY <2>2, <3>3 DEF Answer
      <4>3. InOrder(seen) /\ t \in Read /\ \A i \in DOMAIN seen : seen[i] \in Read /\ seen[i] < t
        BY <1>0, <3>2, <3>3 DEF PanelLine
      <4> HIDE DEF t
      <4>4. /\ DOMAIN seen' = DOMAIN seen \cup {Len(seen) + 1}
            /\ \A i \in DOMAIN seen : seen'[i] = seen[i] /\ i < Len(seen) + 1
            /\ seen'[Len(seen) + 1] = t
        BY <1>0, <4>1, <4>2
      <4>5. \A i \in DOMAIN seen' : seen'[i] \in Read
        BY <4>3, <4>4
      <4>6. InOrder(seen')
        <5> SUFFICES ASSUME NEW i \in DOMAIN seen', NEW j \in DOMAIN seen', i < j
                     PROVE  seen'[i] < seen'[j]
          BY DEF InOrder
        <5>1. i \in DOMAIN seen
          BY <1>0, <4>4
        <5>2. CASE j \in DOMAIN seen
          BY <4>3, <4>4, <5>1, <5>2 DEF InOrder
        <5>3. CASE j = Len(seen) + 1
          BY <4>3, <4>4, <5>1, <5>3
        <5> QED BY <4>4, <5>2, <5>3
      <4> QED BY <2>0, <3>1, <3>2, <3>3, <4>5, <4>6 DEF PanelLine
    <3>4. CASE ~(pollHas[p].trigger # 0 /\ p = live)
      <4>1. seen' = seen
        BY <2>2, <3>4 DEF Answer
      <4> QED BY <1>0, <2>0, <3>1, <3>2, <4>1 DEF PanelLine, InOrder
    <3> QED BY <3>3, <3>4
  <2>3. CASE Timeout(p)
    <3>1. /\ seen' = seen /\ Read' = Read /\ pollHas'[p].trigger = 0
          /\ \A o \in Polls : o # p => pollAt'[o] = pollAt[o] /\ pollHas'[o] = pollHas[o]
      BY <1>0, <2>3 DEF Timeout, Goto, Read, Nothing
    <3> QED BY <1>0, <2>0, <3>1 DEF PanelLine, InOrder
  <2>4. CASE Call(p) \/ Park(p) \/ Wake(p) \/ ListRows(p) \/ Draw(p)
    <3>1. /\ seen' = seen /\ Read' = Read /\ pollAt'[p] # "answer"
          /\ \A o \in Polls : o # p => pollAt'[o] = pollAt[o] /\ pollHas'[o] = pollHas[o]
      <4>1. /\ UNCHANGED <<seen, taken>>
            /\ \E place \in {"out", "take", "parked", "draw"} : \E has : Goto(p, place, has)
        BY <2>4 DEF Call, Park, Wake, ListRows, Draw
      <4> QED BY <1>0, <4>1 DEF Goto, Read
    <3> QED BY <1>0, <2>0, <3>1 DEF PanelLine, InOrder
  <2> QED BY <1>3, <2>1, <2>2, <2>3, <2>4 DEF Poll
<1>4. CASE UNCHANGED vars
  BY <1>0, <1>4, PanelStays DEF vars, pastVars
<1> QED BY <1>1, <1>2, <1>3, <1>4 DEF Next

LEMMA PanelAwakeStep ==
  ASSUME IInv, [Next]_vars
  PROVE  PanelAwake'
<1>0. /\ pollAt \in [Polls -> {"out", "take", "parking", "parked", "answer", "rows", "draw"}]
      /\ live \in Polls /\ PanelAwake
  BY DEF IInv, TypeOK
<1>1. CASE Worker
  <2>1. OnWorker
    BY <1>1 DEF Worker, ReadRows, OpenSession, CommitSession, Focus, Fire, Signal
  <2>2. CASE Fire
    BY <1>0, <2>1, <2>2 DEF Fire, PanelAwake, OnWorker, pollVars
  <2>3. CASE Signal
    BY <1>0, <2>1, <2>3 DEF Signal, PanelAwake, OnWorker, pollVars
  <2>4. CASE ReadRows \/ OpenSession \/ CommitSession \/ Focus
    <3>1. at # "signal" /\ queue' = queue /\ signal' = signal
      BY <2>4 DEF ReadRows, OpenSession, CommitSession, Focus, GiveUp, serviceVars
    <3> QED BY <1>0, <2>1, <3>1 DEF PanelAwake, OnWorker, pollVars
  <2> QED BY <1>1, <2>2, <2>3, <2>4 DEF Worker
<1>2. CASE World
  <2>1. CASE \E p \in Polls : Reopen(p)
    BY <2>1 DEF Reopen, PanelAwake
  <2>2. CASE BeginSummon \/ BeginCommit
    BY <1>0, <2>2 DEF BeginSummon, BeginCommit, PanelAwake, OnWorker, pollVars, serviceVars
  <2>3. ASSUME NEW rows, Change(rows) PROVE PanelAwake'
    BY <1>0, <2>3 DEF Change, PanelAwake, serviceVars, workerVars, pollVars, pastVars
  <2> QED BY <1>2, <2>1, <2>2, <2>3 DEF World, Arrive, Leave, Raise, Minimize
<1>3. ASSUME NEW p \in Polls, Poll(p) PROVE PanelAwake'
  <2> SUFFICES ASSUME ~reopened' PROVE PanelAwake'
    BY DEF PanelAwake
  <2> USE DEF OnPoll, workerVars
  <2>1. live' = live /\ at' = at /\ reopened' = reopened
    BY <1>3 DEF Poll, Call, Take, Park, Wake, Timeout, Answer, ListRows, Draw
  <2>2. p = live
    BY <1>0, <1>3, <2>1 DEF PanelAwake, Poll, Call, Take, Park, Wake, Timeout, Answer,
       ListRows, Draw
  <2>3. \A o \in Polls : o # p => pollAt'[o] = pollAt[o]
    BY <1>0, <1>3 DEF Poll, Call, Take, Park, Wake, Timeout, Answer, ListRows, Draw, Goto
  <2>4. CASE Take(p)
    BY <1>0, <2>1, <2>2, <2>3, <2>4 DEF Take, Goto, PanelAwake
  <2>5. CASE Park(p)
    BY <1>0, <2>1, <2>2, <2>3, <2>5 DEF Park, Goto, PanelAwake
  <2>6. CASE Call(p) \/ Wake(p) \/ Timeout(p) \/ Answer(p) \/ ListRows(p) \/ Draw(p)
    <3>1. pollAt'[p] \notin {"parking", "parked"}
      BY <1>0, <2>6 DEF Call, Wake, Timeout, Answer, ListRows, Draw, Goto
    <3> QED BY <1>0, <2>1, <2>2, <2>3, <3>1 DEF PanelAwake
  <2> QED BY <1>3, <2>4, <2>5, <2>6 DEF Poll
<1>4. CASE UNCHANGED vars
  BY <1>0, <1>4 DEF PanelAwake, vars, serviceVars, workerVars, pollVars, pastVars
<1> QED BY <1>1, <1>2, <1>3, <1>4 DEF Next

-----------------------------------------------------------------------------
(* The worker. *)

\* Another trigger of an action is one more of that action and none of another.
LEMMA OneMore ==
  ASSUME NEW S, NEW s \in Seq(S), NEW x \in S, NEW a
  PROVE  /\ HowMany(s, a) \in Nat
         /\ HowMany(Append(s, x), a) = IF x = a THEN HowMany(s, a) + 1 ELSE HowMany(s, a)
<1> DEFINE B == {i \in DOMAIN s : s[i] = a}
           A == {i \in DOMAIN Append(s, x) : Append(s, x)[i] = a}
           n == Len(s) + 1
<1>0. Len(s) \in Nat /\ DOMAIN s = 1 .. Len(s)
  OBVIOUS
<1>1. /\ DOMAIN Append(s, x) = DOMAIN s \cup {n} /\ n \notin DOMAIN s
      /\ \A i \in DOMAIN s : Append(s, x)[i] = s[i]
      /\ Append(s, x)[n] = x
  BY <1>0
<1>2. IsFiniteSet(DOMAIN s) /\ B \subseteq DOMAIN s
  BY <1>0, FS_Interval
<1>3. IsFiniteSet(B) /\ Cardinality(B) \in Nat /\ n \notin B
  BY <1>1, <1>2, FS_Subset, FS_CardinalityType
<1>4. A = IF x = a THEN B \cup {n} ELSE B
  BY <1>1
<1> HIDE DEF A, B, n
<1>5. Cardinality(B \cup {n}) = Cardinality(B) + 1
  BY <1>3, FS_AddElement
<1> QED BY <1>3, <1>4, <1>5 DEF A, B, HowMany

\* The counts are numbers, and those of no trigger are none.
LEMMA Counts ==
  ASSUME fired \in Seq({"summon", "commit"})
  PROVE  /\ Summons \in Nat /\ Commits \in Nat
         /\ fired = <<>> => Summons = 0 /\ Commits = 0
<1>1. \A a : HowMany(fired, a) \in Nat
  <2> TAKE a
  <2>1. Len(fired) \in Nat /\ DOMAIN fired = 1 .. Len(fired)
    OBVIOUS
  <2>2. IsFiniteSet(DOMAIN fired) /\ {i \in DOMAIN fired : fired[i] = a} \subseteq DOMAIN fired
    BY <2>1, FS_Interval
  <2> QED BY <2>2, FS_Subset, FS_CardinalityType DEF HowMany
<1>2. ASSUME fired = <<>> PROVE Summons = 0 /\ Commits = 0
  <2>1. \A a : {i \in DOMAIN fired : fired[i] = a} = {}
    BY <1>2
  <2> QED BY <2>1, FS_EmptySet DEF Summons, Commits, HowMany
<1> QED BY <1>1, <1>2 DEF Summons, Commits

\* To fire is to count one more.
LEMMA FireCounts ==
  ASSUME TypeOK, Paid, Fire
  PROVE  /\ Summoning => Summons' = Summons + 1 /\ Commits' = Commits
         /\ ~Summoning => Committing /\ Commits' = Commits + 1 /\ Summons' = Summons
<1>1. /\ fired' = Append(fired, job.action) /\ fired \in Seq({"summon", "commit"})
      /\ job.action \in {"summon", "commit"} /\ at = "fire"
  BY DEF Fire, TypeOK, Paid, Committing, Summoning
<1> DEFINE S == {"summon", "commit"}
<1>2. PICK x \in S : x = job.action
  BY <1>1
<1>3. fired \in Seq(S) /\ fired' = Append(fired, x)
  BY <1>1, <1>2
<1> HIDE DEF S
<1>4. \A a : HowMany(fired', a) = IF x = a THEN HowMany(fired, a) + 1 ELSE HowMany(fired, a)
  BY <1>3, OneMore
<1>5. /\ Summons' = (IF x = "summon" THEN Summons + 1 ELSE Summons)
      /\ Commits' = (IF x = "commit" THEN Commits + 1 ELSE Commits)
  BY <1>4 DEF Summons, Commits
<1> QED BY <1>1, <1>2, <1>5 DEF Summoning, Committing

\* Steps that the worker has no part in.
LEMMA WorkerStays ==
  ASSUME [Next]_vars, ~Worker, ~BeginSummon, ~BeginCommit
  PROVE  UNCHANGED <<at, job, jobsDone, open, fired, failed>>
<1>1. ASSUME NEW p \in Polls, Poll(p)
      PROVE  UNCHANGED <<at, job, jobsDone, open, fired, failed>>
  BY <1>1 DEF Poll, Call, Take, Park, Wake, Timeout, Answer, ListRows, Draw, OnPoll, workerVars
<1>2. CASE World
  BY <1>2 DEF World, Reopen, Arrive, Leave, Raise, Minimize, Change, serverVars, serviceVars,
     workerVars, pollVars, pastVars
<1>3. CASE UNCHANGED vars
  BY <1>3 DEF vars, serviceVars, workerVars, pastVars
<1> QED BY <1>1, <1>2, <1>3 DEF Next

LEMMA PaidStep ==
  ASSUME IInv, [Next]_vars
  PROVE  Paid'
<1>0. /\ Paid /\ TypeOK /\ Summons \in Nat /\ Commits \in Nat
      /\ job \in Held /\ open \in BOOLEAN
  BY Counts DEF IInv, TypeOK, Held
<1>1. ASSUME fired' = fired PROVE Summons' = Summons /\ Commits' = Commits
  BY <1>1 DEF Summons, Commits
<1> USE DEF Committing, Summoning
<1>2. CASE Fire
  <2>1. at' = "signal" /\ open' = open /\ at = "fire"
    BY <1>2 DEF Fire
  <2> QED BY <1>0, <1>2, <2>1, FireCounts DEF Paid
<1>3. CASE Signal
  <2>1. at' = "idle" /\ open' = open /\ fired' = fired /\ at = "signal"
    BY <1>3 DEF Signal
  <2> QED BY <1>0, <1>1, <2>1 DEF Paid
<1>4. CASE ReadRows
  <2>1. /\ open' = open /\ fired' = fired /\ at \in {"summonRows", "commitRows"}
        /\ \/ at' = "idle"
           \/ at = "summonRows" /\ at' = "summon"
           \/ at = "commitRows" /\ at' = "commit"
    BY <1>4 DEF ReadRows, GiveUp, serviceVars
  <2> QED BY <1>0, <1>1, <2>1 DEF Paid
<1>5. CASE OpenSession
  <2>1. at' = "fire" /\ open' = TRUE /\ fired' = fired /\ job'.action = "summon"
    BY <1>5 DEF OpenSession, NoJob
  <2>2. open'
    BY <2>1, Zenon
  <2> QED BY <1>0, <1>1, <2>1, <2>2 DEF Paid
<1>6. CASE CommitSession
  <2>1. /\ at = "commit" /\ open' = open /\ fired' = fired
        /\ \/ at' = "idle"
           \/ /\ at' = "focus"
              /\ \E t : job' = [job EXCEPT !.target = t, !.action = "commit"]
    BY <1>6 DEF CommitSession
  <2>2. at' = "focus" => job'.action = "commit"
    BY <1>0, <2>1 DEF Held
  <2> QED BY <1>0, <1>1, <2>1, <2>2 DEF Paid
<1>7. CASE Focus
  <2>1. /\ at = "focus" /\ open' = open /\ fired' = fired
        /\ at' = "idle" \/ (at' = "fire" /\ job' = job)
    BY <1>7 DEF Focus, GiveUp, serviceVars
  <2> QED BY <1>0, <1>1, <2>1 DEF Paid
<1>8. CASE BeginSummon
  <2>1. at = "idle" /\ at' = "summonRows" /\ open' = open /\ fired' = fired
    BY <1>8 DEF BeginSummon, serviceVars
  <2> QED BY <1>0, <1>1, <2>1 DEF Paid
<1>9. CASE BeginCommit
  <2>1. /\ at = "idle" /\ fired' = fired
        /\ \/ open /\ at' = "commitRows"
           \/ ~open /\ at' = "idle"
    BY <1>9 DEF BeginCommit
  <2>2. ~open'
    BY <1>9, Zenon DEF BeginCommit
  <2> QED BY <1>0, <1>1, <2>1, <2>2 DEF Paid
<1>10. CASE ~Worker /\ ~BeginSummon /\ ~BeginCommit
  BY <1>0, <1>1, <1>10, WorkerStays DEF Paid
<1> QED BY <1>2, <1>3, <1>4, <1>5, <1>6, <1>7, <1>8, <1>9, <1>10 DEF Worker

LEMMA ToldStep ==
  ASSUME IInv, [Next]_vars
  PROVE  Told'
<1>0. Told /\ Paid /\ TypeOK /\ open \in BOOLEAN /\ failed \in BOOLEAN
  BY DEF IInv, TypeOK
<1>1. CASE Fire
  <2>1. /\ fired' = Append(fired, job.action) /\ fired \in Seq({"summon", "commit"})
        /\ open' = open /\ at = "fire"
    BY <1>0, <1>1 DEF Fire, TypeOK
  <2>2. CASE Summoning
    <3>1. job.action = "summon" /\ open
      BY <1>0, <2>2 DEF Summoning, Paid
    <3>2. fired' = Append(fired, "summon")
      BY <2>1, <3>1
    <3>3. fired' # <<>> /\ fired'[Len(fired')] = "summon"
      BY <2>1, <3>2
    <3> QED BY <2>1, <3>1, <3>3 DEF Told
  <2>3. CASE ~Summoning
    <3>1. job.action = "commit" /\ ~open
      BY <1>0, <2>1, <2>3 DEF Summoning, Committing, Paid
    <3>2. fired' = Append(fired, "commit")
      BY <2>1, <3>1
    <3>3. fired' # <<>> /\ fired'[Len(fired')] = "commit"
      BY <2>1, <3>2
    <3> QED BY <2>1, <3>1, <3>3 DEF Told
  <2> QED BY <2>2, <2>3
<1>2. CASE Signal
  BY <1>0, <1>2 DEF Signal, Told
<1>3. CASE ReadRows
  <2>1. /\ open' = open /\ fired' = fired
        /\ \/ at = "summonRows" /\ (failed => failed') /\ at' \in {"idle", "summon"}
           \/ at' = "commit"
           \/ failed'
    <3>1. CASE GiveUp
      <4>1. /\ open' = open /\ fired' = fired /\ at' = "idle"
            /\ failed' = (failed \/ at # "summonRows")
        BY <3>1 DEF GiveUp, serviceVars
      <4> QED BY <4>1, Zenon
    <3>2. CASE ~GiveUp
      BY <1>3, <3>2 DEF ReadRows, serviceVars
    <3> QED BY <3>1, <3>2
  <2> QED BY <1>0, <2>1 DEF Told
<1>4. CASE OpenSession
  BY <1>4 DEF OpenSession, Told
<1>5. CASE CommitSession
  <2>1. at' = "focus" \/ (at' = "idle" /\ failed' = TRUE)
    BY <1>5 DEF CommitSession
  <2>2. at' = "focus" \/ failed'
    BY <2>1, Zenon
  <2> QED BY <2>1, <2>2 DEF Told
<1>6. CASE Focus
  <2>1. at' = "fire" \/ failed'
    BY <1>6 DEF Focus, GiveUp
  <2> QED BY <2>1 DEF Told
<1>7. CASE BeginSummon
  BY <1>0, <1>7 DEF BeginSummon, Told, serviceVars
<1>8. CASE BeginCommit
  <2>1. /\ fired' = fired /\ failed' = failed /\ at = "idle"
        /\ at' = "commitRows" \/ ~open
    BY <1>8 DEF BeginCommit
  <2>2. ~open'
    BY <1>8, Zenon DEF BeginCommit
  <2> QED BY <1>0, <2>1, <2>2 DEF Told
<1>9. CASE ~Worker /\ ~BeginSummon /\ ~BeginCommit
  BY <1>0, <1>9, WorkerStays DEF Told
<1> QED BY <1>1, <1>2, <1>3, <1>4, <1>5, <1>6, <1>7, <1>8, <1>9 DEF Worker

\* Of no rows nothing is wanted.
LEMMA NothingWanted == Wanted(<<>>) = NoWindow
<1>1. <<>> \in Lists /\ Candidates(<<>>) = {}
  BY DEF Lists, Candidates
<1>2. Closed \in Sessions /\ ~Closed.picked /\ ~Closed.searching
  BY DEF Closed, Sessions
<1> DEFINE none == <<>>
           drawn == none # <<>>
<1>0. Wanted(<<>>) = DecideOn(Closed, none, drawn, FALSE, NoWindow).target
  BY DEF Wanted
<1>3. none \in Lists /\ Candidates(none) = {}
  BY <1>1
<1> HIDE DEF none, drawn
<1>4. DefaultPick(none, drawn, 0) = NoIndex
  BY <1>3, DefaultIs
<1>5. DecideOn(Closed, none, drawn, FALSE, NoWindow).target = On(none, DefaultPick(none, drawn, 0))
  BY <1>2, <1>3, DecideIs
<1> QED BY <1>0, <1>4, <1>5 DEF On

LEMMA HighlightStep ==
  ASSUME IInv, [Next]_vars
  PROVE  Highlight'
<1>0. /\ Highlight /\ sess \in Sessions /\ job \in Held
      /\ shown \in [rows : Lists, target : Windows \cup {NoWindow}]
      /\ pollHas \in [Polls -> Answers]
  BY DEF IInv, TypeOK, Sessions, Held, Answers
<1>1. ASSUME UNCHANGED <<sess, shown>>, at' # "focus" \/ (at = "focus" /\ UNCHANGED <<at, job>>)
      PROVE  Highlight'
  BY <1>0, <1>1 DEF Highlight
<1>2. CASE ReadRows \/ Focus \/ Fire \/ Signal
  <2>1. UNCHANGED <<sess, shown>> /\ at' # "focus"
    BY <1>2 DEF ReadRows, Focus, Fire, Signal, GiveUp, serviceVars
  <2> QED BY <1>1, <2>1
<1>3. CASE OpenSession
  <2> DEFINE rows == job.rows
             drawn == rows # <<>>
  <2>1. sess' = Summon(rows, drawn) /\ shown' = NotShown /\ at' = "fire"
    BY <1>3 DEF OpenSession
  <2>2. rows \in Lists
    BY <1>0 DEF Held
  <2> HIDE DEF rows, drawn
  <2>3. ~sess'.picked /\ ~sess'.searching
    BY <2>1, <2>2, SummonIs
  <2>4. shown'.target = Wanted(shown'.rows)
    BY <2>1, NothingWanted DEF NotShown
  <2> QED BY <2>1, <2>3, <2>4 DEF Highlight
<1>4. CASE CommitSession
  <2> DEFINE rows == job.rows
             target == DecideOn(sess, rows, rows # <<>>, FALSE, NoWindow).target
  <2>1. /\ sess' = Closed /\ shown' = shown
        /\ \/ at' = "idle"
           \/ at' = "focus" /\ job' = [job EXCEPT !.target = target, !.action = "commit"]
    BY <1>4 DEF CommitSession
  <2>2. rows \in Lists
    BY <1>0 DEF Held
  <2>3. target = Wanted(rows)
    <3> HIDE DEF rows
    <3> QED BY <1>0, <2>2, DecideWanted DEF Highlight
  <2>4. at' = "focus" => job'.target = target /\ job'.rows = rows
    <3> HIDE DEF target
    <3> QED BY <1>0, <2>1 DEF Held
  <2>5. ~sess'.picked /\ ~sess'.searching
    BY <2>1 DEF Closed
  <2> HIDE DEF target, rows
  <2> QED BY <1>0, <2>1, <2>3, <2>4, <2>5 DEF Highlight
<1>5. ASSUME NEW p \in Polls, Poll(p) PROVE Highlight'
  <2>1. at' = at /\ job' = job
    BY <1>5 DEF Poll, Call, Take, Park, Wake, Timeout, Answer, ListRows, Draw, OnPoll, workerVars
  <2>2. CASE Draw(p)
    <3> DEFINE rows == pollHas[p].rows
    <3>1. /\ sess' = DecideOn(sess, rows, rows # <<>>, FALSE, NoWindow)
          /\ shown' = IF open THEN [rows |-> rows, target |-> sess'.target] ELSE shown
      BY <2>2 DEF Draw
    <3>2. rows \in Lists
      BY <1>0 DEF Answers
    <3> HIDE DEF rows
    <3>3. ~sess'.picked /\ ~sess'.searching /\ sess'.target = Wanted(rows)
      BY <1>0, <3>1, <3>2, DecideWanted DEF Highlight
    <3>4. shown'.target = Wanted(shown'.rows)
      BY <1>0, <3>1, <3>3 DEF Highlight
    <3> QED BY <1>0, <2>1, <3>3, <3>4 DEF Highlight
  <2>3. CASE ~Draw(p)
    <3>1. UNCHANGED <<sess, shown>>
      BY <1>5, <2>3 DEF Poll, Call, Take, Park, Wake, Timeout, Answer, ListRows
    <3> QED BY <1>0, <2>1, <3>1 DEF Highlight
  <2> QED BY <2>2, <2>3
<1>6. CASE World
  <2>1. UNCHANGED <<sess, shown>> /\ (UNCHANGED <<at, job>> \/ at' # "focus")
    BY <1>6 DEF World, BeginSummon, BeginCommit, Reopen, Arrive, Leave, Raise, Minimize, Change,
       OnWorker, serviceVars, workerVars, pastVars
  <2> QED BY <1>0, <2>1 DEF Highlight
<1>7. CASE UNCHANGED vars
  BY <1>0, <1>7 DEF Highlight, vars, serviceVars, workerVars, pastVars
<1> QED BY <1>2, <1>3, <1>4, <1>5, <1>6, <1>7 DEF Next, Worker

-----------------------------------------------------------------------------
(* The invariant, and what follows. *)

LEMMA InvInit == Init => IInv
<1> SUFFICES ASSUME Init PROVE IInv
  OBVIOUS
<1>1. TypeOK
  BY TypeInit
<1>2. /\ DOMAIN fired = {} /\ DOMAIN queue = {} /\ DOMAIN taken = {} /\ DOMAIN seen = {}
      /\ dropped = {} /\ fired = <<>> /\ queue = <<>>
      /\ at = "idle" /\ open = FALSE /\ shown = NotShown /\ sess = Closed
      /\ \A p \in Polls : pollAt[p] = "out"
      /\ live \in Polls
  BY <1>1 DEF Init, TypeOK
<1>3. TriggerLine
  BY <1>2 DEF TriggerLine, InOrder, Unread, Read
<1>4. PanelLine /\ PanelAwake
  BY <1>2 DEF PanelLine, PanelAwake, InOrder
<1>5. ~open
  BY <1>2, Zenon
<1>6. Summons = 0 /\ Commits = 0
  BY <1>1, <1>2, Counts DEF TypeOK
<1>7. Paid /\ Told
  BY <1>2, <1>5, <1>6 DEF Paid, Told, Committing, Summoning
<1>8. Highlight
  BY <1>2, NothingWanted DEF Highlight, NotShown, Closed
<1> QED BY <1>1, <1>3, <1>4, <1>7, <1>8 DEF IInv

\* What the service keeps, whatever its windows, polls and jobs do.
THEOREM Invariance == Spec => []IInv
<1>1. IInv /\ [Next]_vars => IInv'
  BY TypeStep, LineStep, PanelLineStep, PanelAwakeStep, PaidStep, ToldStep, HighlightStep DEF IInv
<1> QED BY InvInit, <1>1, PTL DEF Spec

\* Every variable keeps its type; the rows have one window each.
THEOREM TypeCorrect == Spec => []TypeOK
<1>1. IInv => TypeOK
  BY DEF IInv
<1> QED BY <1>1, Invariance, PTL

\* fire and take, switcher.go:83-106: no trigger is lost or seen twice, the newest wait,
\* and they are read in the order in which they were fired.
THEOREM TriggersAreAccounted == Spec => []TriggersAccounted
<1>1. IInv => TriggersAccounted
  <2> SUFFICES ASSUME IInv PROVE TriggersAccounted
    OBVIOUS
  <2>0. /\ queue \in Seq(Nat) /\ Len(queue) \in Nat /\ DOMAIN queue = 1 .. Len(queue)
        /\ taken \in Seq(Nat) /\ Len(taken) \in Nat /\ DOMAIN taken = 1 .. Len(taken)
        /\ TriggerLine
    BY DEF IInv, TypeOK
  <2>1. InOrder(taken \o queue)
    <3> DEFINE both == taken \o queue
    <3>1. /\ DOMAIN both = 1 .. Len(taken) + Len(queue)
          /\ \A i \in 1 .. Len(taken) : both[i] = taken[i]
          /\ \A i \in Len(taken) + 1 .. Len(taken) + Len(queue) : both[i] = queue[i - Len(taken)]
      BY <2>0, Joined
    <3> HIDE DEF both
    <3> SUFFICES ASSUME NEW i \in DOMAIN both, NEW j \in DOMAIN both, i < j
                 PROVE  both[i] < both[j]
      BY DEF InOrder, both
    <3>2. CASE j \in DOMAIN taken
      <4>1. i \in DOMAIN taken
        BY <2>0, <3>1, <3>2
      <4> QED BY <2>0, <3>1, <3>2, <4>1 DEF TriggerLine, InOrder
    <3>3. CASE j \notin DOMAIN taken
      <4>1. j - Len(taken) \in DOMAIN queue /\ both[j] = queue[j - Len(taken)]
        BY <2>0, <3>1, <3>3
      <4>2. CASE i \in DOMAIN taken
        BY <2>0, <3>1, <4>1, <4>2 DEF TriggerLine
      <4>3. CASE i \notin DOMAIN taken
        <5>1. i - Len(taken) \in DOMAIN queue /\ both[i] = queue[i - Len(taken)]
          BY <2>0, <3>1, <4>3, SMTT(30)
        <5>2. i - Len(taken) < j - Len(taken)
          BY <2>0, <3>1
        <5> QED BY <2>0, <4>1, <5>1, <5>2 DEF TriggerLine, InOrder
      <4> QED BY <4>2, <4>3
    <3> QED BY <3>2, <3>3
  <2>2. Unread \cap Read = {}
    <3>1. \A i \in DOMAIN taken, j \in DOMAIN queue : taken[i] # queue[j]
      BY <2>0 DEF TriggerLine
    <3> QED BY <3>1 DEF Unread, Read
  <2> QED BY <2>0, <2>1, <2>2 DEF TriggersAccounted, TriggerLine, Unread, Read
<1> QED BY <1>1, Invariance, PTL

\* SwitcherOverlay.swift: the panel acts on triggers in the order they were fired, though
\* a poll of an earlier panel answers late.
THEOREM PanelActsInOrder == Spec => []PanelInOrder
<1>1. IInv => PanelInOrder
  BY DEF IInv, PanelLine, PanelInOrder
<1> QED BY <1>1, Invariance, PTL

\* A poll parks without the lock (switcher.go:83-92 and 247-258): where the panel was not
\* shown again, a hint, or a worker about to give one, stands for every trigger it would
\* sleep over.
THEOREM TheHintWakes == Spec => []NoSleepOverTriggers
<1>1. IInv => NoSleepOverTriggers
  BY DEF IInv, PanelAwake, NoSleepOverTriggers
<1> QED BY <1>1, Invariance, PTL

\* applySwitcher, switcher.go:342-370: no commit focuses a window that no summon paid for.
THEOREM OneFocusOfASummon == Spec => []OneFocusPerSummon
<1>1. IInv => OneFocusPerSummon
  <2> SUFFICES ASSUME IInv PROVE OneFocusPerSummon
    OBVIOUS
  <2>1. Paid /\ Summons \in Nat /\ Commits \in Nat
    BY Counts DEF IInv, TypeOK
  <2>2. (at = "focus" \/ (at = "fire" /\ job.action = "commit")) => ~open /\ Commits < Summons
    BY <2>1 DEF Paid, Committing
  <2>3. (open /\ ~(at = "fire" /\ job.action = "summon")) => Commits < Summons
    BY <2>1 DEF Paid, Summoning
  <2>4. Commits <= Summons
    BY <2>1 DEF Paid
  <2> DEFINE focusing == at = "focus" \/ (at = "fire" /\ job.action = "commit")
             owing == open /\ ~(at = "fire" /\ job.action = "summon")
  <2>5. OneFocusPerSummon <=>
          Commits + (IF focusing THEN 1 ELSE 0) + (IF owing THEN 1 ELSE 0) <= Summons
    BY DEF OneFocusPerSummon, Summons, Commits, HowMany
  <2>6. ~(focusing /\ owing)
    BY <2>2
  <2> HIDE DEF focusing, owing
  <2>7. focusing \/ owing => Commits < Summons
    BY <2>2, <2>3 DEF focusing, owing
  <2> QED BY <2>1, <2>4, <2>5, <2>6, <2>7
<1> QED BY <1>1, Invariance, PTL

\* Between jobs the panel was told the truth, unless the last commit came to nothing
\* (switcher.go:350-368 returns before it fires).
THEOREM ThePanelIsTold == Spec => []PanelIsTold
<1>1. IInv => PanelIsTold
  BY DEF IInv, Told, PanelIsTold
<1> QED BY <1>1, Invariance, PTL

\* What is focused is what was drawn, where the windows stood still: the commit decides
\* again, with another session than the one drawn from (switcher.go:338-356).
THEOREM FocusIsDrawnWhereStill == Spec => []FocusIsDrawnIfStill
<1>1. IInv => FocusIsDrawnIfStill
  BY DEF IInv, Highlight, FocusIsDrawnIfStill
<1> QED BY <1>1, Invariance, PTL

-----------------------------------------------------------------------------
(* One session against a list that changes: module SwitchSession. *)

\* The drawn lists, with windows that came after the summon.
TileLists == Seq([id : Windows, skip : BOOLEAN, late : BOOLEAN])

\* The tile of a list of candidates the default lands on.
DefaultPlace(howMany) == IF ~currentDrawn \/ howMany = 1 THEN 1 ELSE 2

\* The press is remembered as it was, and so is what it picked: its own front
\* window, or the second where the current window is drawn.
SessionLine ==
  /\ tiles \in TileLists
  /\ session \in Sessions
  /\ atPress \in Seq(Windows)
  /\ summoned \in BOOLEAN
  /\ summoned =>
       /\ Len(atPress) = session.visible
       /\ atPress # <<>> => firstPick = atPress[DefaultPlace(Len(atPress))]
  /\ ArrivalsMoveNothing

\* A finite set of numbers has an n-th smallest, for every n up to its size.
LEMMA PlaceIs ==
  ASSUME NEW S, S \subseteq Nat, IsFiniteSet(S), NEW n \in 1 .. Cardinality(S)
  PROVE  Nth(S, n) \in S
<1> DEFINE under(i) == {j \in S : j < i}
           Missing == {k \in 1 .. Cardinality(S) : \A i \in S : Cardinality(under(i)) # k - 1}
<1>0. Cardinality(S) \in Nat
  BY FS_CardinalityType
<1>1. Missing = {}
  <2> SUFFICES ASSUME Missing # {} PROVE FALSE
    OBVIOUS
  <2>1. Missing \subseteq Nat
    BY <1>0
  <2>2. PICK k \in Missing : \A l \in Missing : k <= l
    <3> HIDE DEF Missing
    <3> QED BY <2>1, Least
  <2>3. k \in Nat /\ 1 <= k /\ k <= Cardinality(S)
        /\ \A i \in S : Cardinality(under(i)) # k - 1
    BY <1>0, <2>2
  <2>4. CASE k = 1
    <3>1. S # {}
      BY <2>3, <2>4, FS_EmptySet
    <3>2. PICK m \in S : \A i \in S : m <= i
      BY <3>1, Least
    <3>3. under(m) = {}
      <4>1. \A i \in S : i \in Nat /\ m \in Nat /\ ~(i < m)
        BY <3>2
      <4> QED BY <4>1
    <3> QED BY <2>3, <2>4, <3>2, <3>3, FS_EmptySet
  <2>5. CASE k # 1
    <3>1. k - 1 \in 1 .. Cardinality(S) /\ ~(k <= k - 1)
      BY <1>0, <2>3, <2>5
    <3>2. k - 1 \notin Missing
      <4> HIDE DEF Missing
      <4> QED BY <2>2, <3>1
    <3>3. PICK i \in S : Cardinality(under(i)) = (k - 1) - 1
      BY <3>1, <3>2
    <3> DEFINE upTo == under(i) \cup {i}
               rest == S \ upTo
    <3>4. IsFiniteSet(under(i)) /\ i \notin under(i)
      BY FS_Subset
    <3>5. IsFiniteSet(upTo) /\ Cardinality(upTo) = k - 1
      <4>1. Cardinality(upTo) = Cardinality(under(i)) + 1
        <5> HIDE DEF under
        <5> QED BY <3>4, FS_AddElement
      <4>2. IsFiniteSet(upTo)
        <5> HIDE DEF under
        <5> QED BY <3>4, FS_AddElement
      <4> HIDE DEF under, upTo
      <4> QED BY <2>3, <3>3, <4>1, <4>2
    <3>6. rest # {}
      <4> SUFFICES ASSUME rest = {} PROVE FALSE
        OBVIOUS
      <4>1. S = upTo
        OBVIOUS
      <4> HIDE DEF upTo, rest
      <4> QED BY <1>0, <2>3, <3>5, <4>1
    <3>7. PICK m \in rest : \A l \in rest : m <= l
      <4>1. rest \subseteq Nat
        OBVIOUS
      <4> HIDE DEF rest
      <4> QED BY <3>6, <4>1, Least
    <3>8. under(m) = upTo
      <4>1. m \in S /\ i < m
        BY <3>7
      <4>2. \A j \in S : j < m <=> j \in upTo
        <5> TAKE j \in S
        <5>1. j \in Nat /\ m \in Nat /\ i \in Nat
          BY <4>1
        <5>2. CASE j \in rest
          <6>1. m <= j /\ j \notin upTo
            BY <3>7, <5>2
          <6> HIDE DEF upTo
          <6> QED BY <5>1, <6>1
        <5>3. CASE j \in upTo
          BY <4>1, <5>1, <5>3
        <5> QED BY <5>2, <5>3
      <4>3. upTo \subseteq S
        OBVIOUS
      <4> HIDE DEF upTo
      <4> QED BY <4>2, <4>3
    <3>9. m \in S
      BY <3>7
    <3> HIDE DEF under, upTo, rest, Missing
    <3> QED BY <2>3, <3>5, <3>8, <3>9
  <2> QED BY <2>4, <2>5
<1>2. \E i \in S : Cardinality({j \in S : j < i}) = n - 1
  BY <1>1
<1> QED BY <1>2 DEF Nth

\* What is in a list of tiles.
LEMMA TilesAre ==
  ASSUME NEW rows \in TileLists
  PROVE  /\ Len(rows) \in Nat /\ DOMAIN rows = 1 .. Len(rows)
         /\ \A i \in DOMAIN rows :
              rows[i] \in [id : Windows, skip : BOOLEAN, late : BOOLEAN]
         /\ IsFiniteSet(Candidates(rows)) /\ Candidates(rows) \subseteq DOMAIN rows
         /\ DOMAIN rows \subseteq Nat /\ NoIndex \notin DOMAIN rows
         /\ Cardinality(Candidates(rows)) \in Nat
<1> DEFINE R == [id : Windows, skip : BOOLEAN, late : BOOLEAN]
<1>0. rows \in Seq(R)
  BY DEF TileLists
<1> HIDE DEF R
<1>1. Len(rows) \in Nat /\ DOMAIN rows = 1 .. Len(rows) /\ \A i \in DOMAIN rows : rows[i] \in R
  BY <1>0
<1>2. DOMAIN rows \subseteq Nat /\ NoIndex \notin DOMAIN rows
  BY <1>1 DEF NoIndex
<1>3. IsFiniteSet(DOMAIN rows)
  BY <1>1, FS_Interval
<1>4. Candidates(rows) \subseteq DOMAIN rows
  BY DEF Candidates
<1> QED BY <1>1, <1>2, <1>3, <1>4, FS_Subset, FS_CardinalityType DEF R

\* To land keeps a session a session, and the count of the press.
LEMMA Landed ==
  ASSUME NEW s \in Sessions, NEW rows \in TileLists, NEW i \in {NoIndex} \cup DOMAIN rows
  PROVE  /\ Land(s, rows, i) \in Sessions
         /\ Land(s, rows, i).target = On(rows, i)
         /\ Land(s, rows, i).visible = s.visible
         /\ Land(s, rows, i).picked = s.picked
<1>1. i \in Nat /\ On(rows, i) \in Windows \cup {NoWindow}
  <2>1. CASE i = NoIndex
    BY <2>1 DEF NoIndex, On
  <2>2. CASE i # NoIndex
    <3>1. i \in DOMAIN rows /\ rows[i].id \in Windows
      BY <2>2, TilesAre
    <3> QED BY <2>2, <3>1, TilesAre DEF On
  <2> QED BY <2>1, <2>2
<1>2. Land(s, rows, i) = [s EXCEPT !.target = On(rows, i), !.last = i]
  BY DEF Land, On
<1>3. PICK w \in Windows \cup {NoWindow} : w = On(rows, i)
  BY <1>1
<1>4. /\ [s EXCEPT !.target = w, !.last = i] \in Sessions
      /\ [s EXCEPT !.target = w, !.last = i].target = w
      /\ [s EXCEPT !.target = w, !.last = i].visible = s.visible
      /\ [s EXCEPT !.target = w, !.last = i].picked = s.picked
  BY <1>1 DEF Sessions
<1> QED BY <1>2, <1>3, <1>4

\* A window's tile, where it is drawn.
LEMMA IndexIs ==
  ASSUME NEW rows \in TileLists, NEW id
  PROVE  /\ IndexOf(rows, id) \in {NoIndex} \cup DOMAIN rows
         /\ IndexOf(rows, id) # NoIndex => rows[IndexOf(rows, id)].id = id
         /\ id \in {rows[i].id : i \in DOMAIN rows} => IndexOf(rows, id) # NoIndex
<1>1. CASE \E i \in DOMAIN rows : rows[i].id = id
  <2>1. IndexOf(rows, id) \in DOMAIN rows /\ rows[IndexOf(rows, id)].id = id
    BY <1>1 DEF IndexOf
  <2> QED BY <2>1, TilesAre
<1>2. CASE ~\E i \in DOMAIN rows : rows[i].id = id
  <2>1. IndexOf(rows, id) = NoIndex
    BY <1>2 DEF IndexOf
  <2> QED BY <1>2, <2>1
<1> QED BY <1>1, <1>2

\* The newcomers stepped over leave candidates to pick from.
LEMMA PickIs ==
  ASSUME NEW rows \in TileLists, NEW shows, NEW visible
  PROVE  /\ StepOverNewcomers(rows, visible) \subseteq Candidates(rows)
         /\ DefaultPick(rows, shows, visible) \in {NoIndex} \cup DOMAIN rows
<1>1. StepOverNewcomers(rows, visible) \subseteq Candidates(rows)
  BY DEF StepOverNewcomers
<1> DEFINE kept == StepOverNewcomers(rows, visible)
<1>2. kept \subseteq Nat /\ IsFiniteSet(kept) /\ kept \subseteq DOMAIN rows
  BY <1>1, TilesAre, FS_Subset
<1>3. DefaultPick(rows, shows, visible) =
        IF kept = {} THEN NoIndex
        ELSE IF ~shows \/ Cardinality(kept) = 1 THEN Nth(kept, 1) ELSE Nth(kept, 2)
  BY DEF DefaultPick
<1> HIDE DEF kept
<1>4. kept # {} => Nth(kept, 1) \in kept /\ (Cardinality(kept) # 1 => Nth(kept, 2) \in kept)
  BY <1>2, NthIs
<1> QED BY <1>1, <1>2, <1>3, <1>4

\* The slot a target left has a candidate at or below it, or the last one.
LEMMA BelowIs ==
  ASSUME NEW rows \in TileLists, NEW slot
  PROVE  ClosestBelow(rows, slot) \in {NoIndex} \cup DOMAIN rows
<1> DEFINE cands == Candidates(rows)
           below == {i \in cands : i >= slot}
<1>1. /\ cands \subseteq Nat /\ IsFiniteSet(cands) /\ cands \subseteq DOMAIN rows
      /\ Cardinality(cands) \in Nat
  BY TilesAre
<1>2. below \subseteq cands
  OBVIOUS
<1>3. ClosestBelow(rows, slot) =
        IF cands = {} THEN NoIndex
        ELSE IF below = {} THEN Nth(cands, Cardinality(cands)) ELSE Nth(below, 1)
  BY DEF ClosestBelow
<1> HIDE DEF cands, below
<1>4. below \subseteq Nat /\ IsFiniteSet(below)
  BY <1>1, <1>2, FS_Subset
<1>5. cands # {} => Nth(cands, Cardinality(cands)) \in cands
  <2> SUFFICES ASSUME cands # {} PROVE Nth(cands, Cardinality(cands)) \in cands
    OBVIOUS
  <2>1. Cardinality(cands) # 0
    BY <1>1, FS_EmptySet
  <2>2. Cardinality(cands) \in 1 .. Cardinality(cands)
    BY <1>1, <2>1
  <2> QED BY <1>1, <2>2, PlaceIs
<1>6. below # {} => Nth(below, 1) \in below
  BY <1>4, NthIs
<1> QED BY <1>1, <1>2, <1>3, <1>5, <1>6

-----------------------------------------------------------------------------
(* What each operation makes of a session. *)

\* A summon counts the candidates, and lands on the first or the second of them.
LEMMA SummonOpens ==
  ASSUME NEW rows \in TileLists, NEW shows
  PROVE  LET cands == Candidates(rows)
             now == Summon(rows, shows)
         IN /\ now \in Sessions /\ now.visible = Cardinality(cands)
            /\ cands # {} =>
                 now.target = rows[IF ~shows \/ Cardinality(cands) = 1
                                   THEN Nth(cands, 1) ELSE Nth(cands, 2)].id
<1> DEFINE cands == Candidates(rows)
           s == [Closed EXCEPT !.last = NoIndex, !.visible = Cardinality(cands)]
           i == DefaultPick(rows, shows, s.visible)
<1>1. Cardinality(cands) \in Nat
  BY TilesAre
<1>2. s \in Sessions /\ s.visible = Cardinality(cands)
  <2>1. PICK n \in Nat : n = Cardinality(cands)
    BY <1>1
  <2> HIDE DEF cands
  <2> QED BY <2>1 DEF Closed, Sessions, NoIndex
<1>3. StepOverNewcomers(rows, s.visible) = cands
  <2> HIDE DEF s
  <2>1. Cardinality(cands) - s.visible <= 0
    BY <1>1, <1>2
  <2> QED BY <2>1 DEF StepOverNewcomers
<1>4. cands # {} =>
        i = IF ~shows \/ Cardinality(cands) = 1 THEN Nth(cands, 1) ELSE Nth(cands, 2)
  <2> HIDE DEF s, cands
  <2> QED BY <1>3 DEF DefaultPick
<1>5. i \in {NoIndex} \cup DOMAIN rows
  BY PickIs
<1>6. cands # {} => i # NoIndex
  <2>1. cands \subseteq Nat /\ cands \subseteq DOMAIN rows /\ IsFiniteSet(cands)
    BY TilesAre
  <2> HIDE DEF s, cands, i
  <2>2. cands # {} => i \in cands
    BY <1>4, <2>1, NthIs
  <2> QED BY <2>1, <2>2, TilesAre
<1>7. Summon(rows, shows) = Land(s, rows, i)
  BY DEF Summon, Default
<1> HIDE DEF s, i
<1>8. /\ Land(s, rows, i) \in Sessions /\ Land(s, rows, i).target = On(rows, i)
      /\ Land(s, rows, i).visible = s.visible
  BY <1>2, <1>5, Landed
<1>9. cands # {} => On(rows, i) = rows[i].id
  BY <1>6 DEF On
<1> QED BY <1>2, <1>4, <1>7, <1>8, <1>9

\* The default keeps all of a session but where the highlight is.
LEMMA DefaultLands ==
  ASSUME NEW s \in Sessions, NEW rows \in TileLists, NEW shows
  PROVE  /\ Default(s, rows, shows) \in Sessions
         /\ Default(s, rows, shows).visible = s.visible
         /\ Default(s, rows, shows).picked = s.picked
BY PickIs, Landed DEF Default

\* So does following, and a target that is drawn stays the target.
LEMMA FollowLands ==
  ASSUME NEW s \in Sessions, NEW rows \in TileLists
  PROVE  /\ Follow(s, rows) \in Sessions /\ Follow(s, rows).visible = s.visible
         /\ Follow(s, rows).picked = s.picked
         /\ s.target \in {rows[i].id : i \in DOMAIN rows} => Follow(s, rows).target = s.target
<1> DEFINE at1 == IndexOf(rows, s.target)
           i == IF at1 # NoIndex THEN at1 ELSE ClosestBelow(rows, s.last)
<1>1. /\ at1 \in {NoIndex} \cup DOMAIN rows
      /\ at1 # NoIndex => rows[at1].id = s.target
      /\ s.target \in {rows[j].id : j \in DOMAIN rows} => at1 # NoIndex
  BY IndexIs
<1>2. ClosestBelow(rows, s.last) \in {NoIndex} \cup DOMAIN rows
  BY BelowIs
<1>3. Follow(s, rows) = Land(s, rows, i)
  BY DEF Follow
<1> HIDE DEF at1
<1>4. i \in {NoIndex} \cup DOMAIN rows /\ (at1 # NoIndex => On(rows, i) = s.target)
  BY <1>1, <1>2 DEF On
<1> HIDE DEF i
<1> QED BY <1>1, <1>3, <1>4, Landed

\* A refresh without a query, and one with.
RefreshOf(s, rows, shows) == DecideOn(s, rows, shows, FALSE, NoWindow)
SearchOf(s, rows, shows, best) == DecideOn(s, rows, shows, TRUE, best)

\* Both end in one of the above.
LEMMA DecideLands ==
  ASSUME NEW s \in Sessions, NEW rows \in TileLists, NEW shows
  PROVE  /\ RefreshOf(s, rows, shows) \in Sessions
         /\ RefreshOf(s, rows, shows).visible = s.visible
         /\ RefreshOf(s, rows, shows).picked = s.picked
         /\ \A best : /\ SearchOf(s, rows, shows, best) \in Sessions
                      /\ SearchOf(s, rows, shows, best).visible = s.visible
<1> DEFINE clear == [s EXCEPT !.searching = FALSE]
           plain == [s EXCEPT !.searching = @ \/ FALSE]
           search == [s EXCEPT !.searching = @ \/ TRUE]
           Alike(x) == x \in Sessions /\ x.visible = s.visible /\ x.picked = s.picked
           Outcomes(still, id) == {Default(clear, rows, shows), Land(s, rows, NoIndex),
                                   Land(still, rows, IndexOf(rows, id)),
                                   Default(still, rows, shows), Follow(still, rows)}
<1>1. Alike(clear) /\ Alike(plain) /\ Alike(search)
  BY DEF Sessions
<1>2. \A id : IndexOf(rows, id) \in {NoIndex} \cup DOMAIN rows
  BY IndexIs
<1>3. RefreshOf(s, rows, shows) \in Outcomes(plain, NoWindow)
  BY Zenon DEF RefreshOf, DecideOn
<1>4. \A best : SearchOf(s, rows, shows, best) \in Outcomes(search, best)
  BY Zenon DEF SearchOf, DecideOn
<1> HIDE DEF clear, plain, search
<1>5. ASSUME NEW still, Alike(still), NEW id PROVE \A x \in Outcomes(still, id) : Alike(x)
  <2>1. Alike(Default(clear, rows, shows)) /\ Alike(Default(still, rows, shows))
    BY <1>1, <1>5, DefaultLands
  <2>2. Alike(Land(s, rows, NoIndex)) /\ Alike(Land(still, rows, IndexOf(rows, id)))
    BY <1>2, <1>5, Landed
  <2>3. Alike(Follow(still, rows))
    BY <1>5, FollowLands
  <2> QED BY <2>1, <2>2, <2>3, Zenon
<1> HIDE DEF Alike, Outcomes
<1>6. Alike(RefreshOf(s, rows, shows)) /\ \A best : Alike(SearchOf(s, rows, shows, best))
  BY <1>1, <1>3, <1>4, <1>5
<1> QED BY <1>6 DEF Alike

\* A cycle lands on a candidate, around the ends too.
LEMMA CycleLands ==
  ASSUME NEW s \in Sessions, NEW rows \in TileLists, NEW delta \in {1, -1}
  PROVE  Cycle(s, rows, delta) \in Sessions /\ Cycle(s, rows, delta).visible = s.visible
<1> DEFINE cands == Candidates(rows)
           n == Cardinality(cands)
           now == IF s.last \in cands THEN Cardinality({i \in cands : i < s.last}) ELSE -1
           to == Nth(cands, ((now + delta) % n) + 1)
           picked == [s EXCEPT !.picked = TRUE]
<1>1. /\ cands \subseteq Nat /\ IsFiniteSet(cands) /\ cands \subseteq DOMAIN rows /\ n \in Nat
  BY TilesAre
<1>2. picked \in Sessions /\ picked.visible = s.visible
  BY DEF Sessions
<1>3. now \in Int
  <2>1. {i \in cands : i < s.last} \subseteq cands
    OBVIOUS
  <2> HIDE DEF cands
  <2>2. Cardinality({i \in cands : i < s.last}) \in Nat
    BY <1>1, <2>1, FS_Subset, FS_CardinalityType
  <2> QED BY <2>2
<1>4. cands # {} => to \in cands
  <2> SUFFICES ASSUME cands # {} PROVE to \in cands
    OBVIOUS
  <2> HIDE DEF cands, now
  <2>1. n \in Nat \ {0}
    BY <1>1, FS_EmptySet
  <2>2. (now + delta) \in Int
    BY <1>3
  <2>3. (now + delta) % n \in 0 .. n - 1
    <3> HIDE DEF n
    <3> QED BY <2>1, <2>2
  <2>4. ((now + delta) % n) + 1 \in 1 .. n
    <3> HIDE DEF n
    <3> QED BY <2>1, <2>3
  <2> QED BY <1>1, <2>4, PlaceIs
<1>5. Cycle(s, rows, delta) =
        IF cands = {} THEN Land(s, rows, NoIndex) ELSE Land(picked, rows, to)
  BY DEF Cycle
<1> HIDE DEF cands, n, now, to, picked
<1>6. Land(s, rows, NoIndex) \in Sessions /\ Land(s, rows, NoIndex).visible = s.visible
  BY Landed
<1>7. cands # {} =>
        Land(picked, rows, to) \in Sessions /\ Land(picked, rows, to).visible = s.visible
  BY <1>1, <1>2, <1>4, Landed
<1> QED BY <1>5, <1>6, <1>7

\* A hover lands on its tile, or changes nothing.
LEMMA PickLands ==
  ASSUME NEW s \in Sessions, NEW rows \in TileLists, NEW id
  PROVE  Pick(s, rows, id) \in Sessions /\ Pick(s, rows, id).visible = s.visible
<1> DEFINE picked == [s EXCEPT !.picked = TRUE]
           i == IndexOf(rows, id)
<1>1. picked \in Sessions /\ picked.visible = s.visible
  BY DEF Sessions
<1>2. i \in {NoIndex} \cup DOMAIN rows
  BY IndexIs
<1>3. Pick(s, rows, id) = IF i = NoIndex THEN s ELSE Land(picked, rows, i)
  BY DEF Pick
<1> HIDE DEF picked, i
<1> QED BY <1>1, <1>2, <1>3, Landed

\* The candidates that were there at the press, in their tiles.
OldPlaces(rows) == {i \in Candidates(rows) : ~rows[i].late}

\* Where as many candidates of the press are left as it counted, exactly the
\* newcomers are stepped over: none of them has as many before it as there are.
LEMMA OnlyTheOld ==
  ASSUME NEW rows \in TileLists, OldPlaces(rows) # {}
  PROVE  StepOverNewcomers(rows, Cardinality(OldPlaces(rows))) = OldPlaces(rows)
<1> DEFINE cands == Candidates(rows)
           old == OldPlaces(rows)
           new == cands \ old
           gained == Cardinality(cands) - Cardinality(old)
           late(i) == {j \in cands : j < i /\ rows[j].late}
           kept == {i \in cands : ~rows[i].late \/ Cardinality(late(i)) >= gained}
<1>1. /\ cands \subseteq Nat /\ IsFiniteSet(cands) /\ old \subseteq cands
      /\ new \subseteq cands /\ old = cands \ new
  BY TilesAre DEF OldPlaces
<1>2. /\ \A i \in cands : rows[i].late <=> i \in new
  BY DEF OldPlaces
<1>3. /\ IsFiniteSet(new) /\ IsFiniteSet(old)
      /\ Cardinality(new) \in Nat /\ Cardinality(old) \in Nat /\ Cardinality(cands) \in Nat
  <2> HIDE DEF cands, old, new
  <2> QED BY <1>1, FS_Subset, FS_CardinalityType
<1>4. gained = Cardinality(new)
  <2> HIDE DEF cands, old, new
  <2>1. Cardinality(cands \ old) = Cardinality(cands) - Cardinality(cands \cap old)
    BY <1>1, FS_Difference
  <2>2. cands \ old = new /\ cands \cap old = old
    BY <1>1
  <2> QED BY <2>1, <2>2
<1>5. ASSUME NEW i \in new PROVE Cardinality(late(i)) < gained
  <2>1. late(i) \subseteq new \ {i}
    <3>1. \A j \in cands : j < i /\ rows[j].late => j \in new /\ j # i
      <4>1. \A j \in cands : j \in Nat /\ i \in Nat
        BY <1>1
      <4> QED BY <1>2, <4>1
    <3> HIDE DEF new
    <3> QED BY <3>1
  <2>2. IsFiniteSet(new \ {i}) /\ Cardinality(new \ {i}) = Cardinality(new) - 1
    <3> HIDE DEF new
    <3> QED BY <1>3, <1>5, FS_RemoveElement
  <2>3. Cardinality(late(i)) <= Cardinality(new \ {i}) /\ Cardinality(late(i)) \in Nat
    <3> HIDE DEF new, late
    <3> QED BY <2>1, <2>2, FS_Subset, FS_CardinalityType
  <2> HIDE DEF new, late, gained
  <2> QED BY <1>3, <1>4, <2>2, <2>3
<1>6. kept = old
  <2>1. \A i \in cands : i \in kept <=> i \in old
    <3> TAKE i \in cands
    <3>1. CASE i \in new
      <4>1. rows[i].late /\ i \notin old
        BY <1>2, <3>1
      <4>2. ~(Cardinality(late(i)) >= gained)
        <5>1. Cardinality(late(i)) < gained
          BY <1>5, <3>1
        <5>2. Cardinality(late(i)) \in Nat /\ gained \in Nat
          <6>1. late(i) \subseteq cands
            OBVIOUS
          <6> HIDE DEF late, cands, new, gained
          <6> QED BY <1>1, <1>3, <1>4, <6>1, FS_Subset, FS_CardinalityType
        <5> HIDE DEF late, gained
        <5> QED BY <5>1, <5>2
      <4> HIDE DEF late, gained
      <4> QED BY <4>1, <4>2
    <3>2. CASE i \notin new
      BY <1>2, <3>2
    <3> QED BY <3>1, <3>2
  <2>2. kept \subseteq cands
    OBVIOUS
  <2> HIDE DEF kept, cands, old
  <2> QED BY <1>1, <2>1, <2>2
<1>7. gained <= 0 => cands = old
  <2> SUFFICES ASSUME gained <= 0 PROVE cands = old
    OBVIOUS
  <2> HIDE DEF cands, old, new, gained
  <2>1. Cardinality(new) = 0
    BY <1>3, <1>4
  <2>2. new = {}
    BY <1>3, <2>1, FS_EmptySet
  <2> QED BY <1>1, <2>2
<1>8. StepOverNewcomers(rows, Cardinality(old)) = IF gained <= 0 \/ kept = {} THEN cands ELSE kept
  BY DEF StepOverNewcomers
<1> HIDE DEF cands, old, gained, kept
<1>9. old # {}
  BY DEF old
<1> QED BY <1>6, <1>7, <1>8, <1>9 DEF old

\* What is remembered of a press: its candidates' windows, by their tiles.
LEMMA IdsAre ==
  ASSUME NEW rows \in TileLists
  PROVE  LET old == OldPlaces(rows)
             ids == IdsInOrder(rows)
         IN /\ old \subseteq Nat /\ IsFiniteSet(old) /\ old \subseteq DOMAIN rows
            /\ Cardinality(old) \in Nat
            /\ ids \in Seq(Windows) /\ Len(ids) = Cardinality(old)
            /\ \A n \in 1 .. Cardinality(old) : ids[n] = rows[Nth(old, n)].id
<1> DEFINE old == OldPlaces(rows)
           ids == IdsInOrder(rows)
           n == Cardinality(old)
<1>1. old \subseteq Candidates(rows)
  BY DEF OldPlaces
<1>2. old \subseteq Nat /\ IsFiniteSet(old) /\ old \subseteq DOMAIN rows /\ n \in Nat
  <2> HIDE DEF old
  <2> QED BY <1>1, TilesAre, FS_Subset, FS_CardinalityType
<1>3. ids = [k \in 1 .. n |-> rows[Nth(old, k)].id]
  BY DEF IdsInOrder, OldPlaces
<1> HIDE DEF old, ids
<1>4. \A k \in 1 .. n : rows[Nth(old, k)].id \in Windows
  <2> TAKE k \in 1 .. n
  <2>1. Nth(old, k) \in old
    BY <1>2, PlaceIs
  <2> QED BY <1>2, <2>1, TilesAre
<1> HIDE DEF n
<1>5. ids \in Seq(Windows) /\ Len(ids) = n
  <2>1. ids \in [1 .. n -> Windows]
    BY <1>3, <1>4
  <2> QED BY <1>2, <2>1
<1> QED BY <1>2, <1>3, <1>5 DEF n, old, ids

\* A press of all the candidates, in their places, is what a default lands on.
LEMMA DefaultOfThePress ==
  ASSUME NEW s \in Sessions, NEW rows \in TileLists, NEW shows,
         IdsInOrder(rows) # <<>>, s.visible = Len(IdsInOrder(rows))
  PROVE  Default(s, rows, shows).target =
           IdsInOrder(rows)[IF ~shows \/ Len(IdsInOrder(rows)) = 1 THEN 1 ELSE 2]
<1> DEFINE old == OldPlaces(rows)
           ids == IdsInOrder(rows)
           n == Cardinality(old)
           place == IF ~shows \/ n = 1 THEN 1 ELSE 2
           i == Nth(old, place)
<1>1. /\ old \subseteq Nat /\ IsFiniteSet(old) /\ old \subseteq DOMAIN rows /\ n \in Nat
      /\ ids \in Seq(Windows) /\ Len(ids) = n
      /\ \A k \in 1 .. n : ids[k] = rows[Nth(old, k)].id
  BY IdsAre
<1>2. n # 0
  <2> HIDE DEF ids, n
  <2> QED BY <1>1 DEF ids
<1>3. old # {}
  <2> HIDE DEF old
  <2> QED BY <1>2, FS_EmptySet
<1>4. StepOverNewcomers(rows, s.visible) = old
  BY <1>1, <1>3, OnlyTheOld
<1>5. DefaultPick(rows, shows, s.visible) = i
  <2>1. DefaultPick(rows, shows, s.visible) =
          IF old = {} THEN NoIndex
          ELSE IF ~shows \/ n = 1 THEN Nth(old, 1) ELSE Nth(old, 2)
    <3> HIDE DEF old
    <3> QED BY <1>4 DEF DefaultPick
  <2> HIDE DEF old
  <2> QED BY <1>3, <2>1
<1>6. place \in 1 .. n
  <2> HIDE DEF n
  <2> QED BY <1>1, <1>2
<1>7. i \in DOMAIN rows /\ ids[place] = rows[i].id
  <2> HIDE DEF old, ids, place
  <2>1. i \in old
    BY <1>1, <1>6, PlaceIs
  <2> HIDE DEF n
  <2> QED BY <1>1, <1>6, <2>1
<1>8. Default(s, rows, shows) = Land(s, rows, i)
  BY <1>5 DEF Default
<1> HIDE DEF i
<1>9. Land(s, rows, i).target = rows[i].id
  <2>1. i # NoIndex
    BY <1>7, TilesAre
  <2> QED BY <1>7, <2>1, Landed DEF On
<1> QED BY <1>1, <1>7, <1>8, <1>9

-----------------------------------------------------------------------------
(* The steps of a session. *)

\* A list that changes: the session is as it was.
LEMMA SessionStays ==
  ASSUME SessionLine, tiles' \in TileLists, lastStep' # "refresh",
         UNCHANGED <<session, summoned, currentDrawn, pressVars>>
  PROVE  SessionLine'
<1>1. ArrivalsMoveNothing'
  BY DEF ArrivalsMoveNothing
<1>2. UNCHANGED <<session, summoned, currentDrawn, atPress, firstPick>>
  BY DEF pressVars
<1>3. DefaultPlace(Len(atPress))' = DefaultPlace(Len(atPress))
  BY <1>2 DEF DefaultPlace
<1> QED BY <1>1, <1>2, <1>3 DEF SessionLine

\* An operation that leaves the count of the press alone.
LEMMA SessionGoesOn ==
  ASSUME SessionLine, session' \in Sessions, session'.visible = session.visible,
         lastStep' # "refresh",
         UNCHANGED <<tiles, summoned, currentDrawn, pressVars>>
  PROVE  SessionLine'
<1>1. ArrivalsMoveNothing'
  BY DEF ArrivalsMoveNothing
<1>2. UNCHANGED <<tiles, summoned, currentDrawn, atPress, firstPick>>
  BY DEF pressVars
<1>3. DefaultPlace(Len(atPress))' = DefaultPlace(Len(atPress))
  BY <1>2 DEF DefaultPlace
<1> QED BY <1>1, <1>2, <1>3 DEF SessionLine

\* Whatever the windows do, the list stays one.
LEMMA ListStep ==
  ASSUME SessionLine,
         \/ \E id \in Windows : RowArrives(id)
         \/ \E i \in DOMAIN tiles : RowLeaves(i) \/ RowRaised(i) \/ RowMinimized(i)
  PROVE  SessionLine'
<1> DEFINE R == [id : Windows, skip : BOOLEAN, late : BOOLEAN]
<1>1. /\ tiles \in Seq(R) /\ Len(tiles) \in Nat /\ DOMAIN tiles = 1 .. Len(tiles)
      /\ TileLists = Seq(R) /\ summoned \in BOOLEAN
  BY TilesAre DEF SessionLine, TileLists
<1>2. ASSUME NEW id \in Windows, RowArrives(id) PROVE SessionLine'
  <2>1. PICK skip \in BOOLEAN, place \in 0 .. Len(tiles) :
          RowsBecome(SubSeq(tiles, 1, place) \o <<Tile(id, skip, summoned)>>
                       \o SubSeq(tiles, place + 1, Len(tiles)))
    BY <1>2 DEF RowArrives
  <2> DEFINE t == Tile(id, skip, summoned)
  <2>2. t \in R
    BY <1>1 DEF Tile
  <2> HIDE DEF R, t
  <2>3. /\ SubSeq(tiles, 1, place) \in Seq(R) /\ <<t>> \in Seq(R)
        /\ SubSeq(tiles, place + 1, Len(tiles)) \in Seq(R)
    BY <1>1, <2>2
  <2>4. SubSeq(tiles, 1, place) \o <<t>> \o SubSeq(tiles, place + 1, Len(tiles)) \in Seq(R)
    BY <2>3, Joined
  <2> QED BY <1>1, <2>1, <2>4, SessionStays DEF RowsBecome, t
<1>3. ASSUME NEW i \in DOMAIN tiles, RowLeaves(i) PROVE SessionLine'
  <2> HIDE DEF R
  <2>1. RowsWithout(i) \in Seq(R)
    BY <1>1, LeftOut DEF RowsWithout
  <2> QED BY <1>1, <1>3, <2>1, SessionStays DEF RowLeaves, RowsBecome
<1>4. ASSUME NEW i \in DOMAIN tiles, RowRaised(i) PROVE SessionLine'
  <2> HIDE DEF R
  <2>1. RowsWithout(i) \in Seq(R)
    BY <1>1, LeftOut DEF RowsWithout
  <2>2. <<tiles[i]>> \o RowsWithout(i) \in Seq(R)
    BY <1>1, <2>1, Prefixed
  <2> QED BY <1>1, <1>4, <2>2, SessionStays DEF RowRaised, RowsBecome
<1>5. ASSUME NEW i \in DOMAIN tiles, RowMinimized(i) PROVE SessionLine'
  <2>1. tiles[i] \in R
    BY TilesAre DEF SessionLine
  <2>2. [tiles[i] EXCEPT !.skip = ~@] \in R
    <3>1. PICK r \in R : r = tiles[i]
      BY <2>1
    <3>2. r.skip \in BOOLEAN
      OBVIOUS
    <3>3. [r EXCEPT !.skip = ~@] \in R
      <4>1. CASE r.skip = TRUE
        <5>1. [r EXCEPT !.skip = ~@] = [r EXCEPT !.skip = FALSE]
          BY <4>1
        <5> QED BY <5>1
      <4>2. CASE r.skip = FALSE
        <5>1. [r EXCEPT !.skip = ~@] = [r EXCEPT !.skip = TRUE]
          BY <4>2
        <5> QED BY <5>1
      <4> QED BY <3>2, <4>1, <4>2
    <3> QED BY <3>1, <3>3
  <2> HIDE DEF R
  <2>3. [tiles EXCEPT ![i].skip = ~@] \in Seq(R)
    BY <1>1, <2>2
  <2> QED BY <1>1, <1>5, <2>3, SessionStays DEF RowMinimized, RowsBecome
<1> QED BY <1>2, <1>3, <1>4, <1>5

\* A summon remembers the press it counted.
LEMMA SummonStep ==
  ASSUME SessionLine, NEW answer \in BOOLEAN, SummonOn(answer)
  PROVE  SessionLine'
<1> DEFINE R == [id : Windows, skip : BOOLEAN, late : BOOLEAN]
           fresh == [i \in DOMAIN tiles |-> [tiles[i] EXCEPT !.late = FALSE]]
           cands == Candidates(tiles)
           n == Cardinality(cands)
<1>1. /\ tiles \in TileLists /\ Len(tiles) \in Nat /\ DOMAIN tiles = 1 .. Len(tiles)
      /\ n \in Nat
  BY TilesAre DEF SessionLine
<1>2. /\ tiles' = fresh /\ currentDrawn' = answer /\ session' = Summon(tiles, answer)
      /\ lastStep' = "summon" /\ atPress' = IdsInOrder(tiles)'
      /\ firstPick' = session'.target /\ summoned'
  BY DEF SummonOn
<1>3. \A i \in DOMAIN tiles :
        /\ fresh[i] \in R /\ fresh[i].id = tiles[i].id
        /\ fresh[i].skip = tiles[i].skip /\ fresh[i].late = FALSE
  <2> TAKE i \in DOMAIN tiles
  <2>1. PICK r \in R : r = tiles[i]
    BY <1>1, TilesAre
  <2>2. /\ [r EXCEPT !.late = FALSE] \in R /\ [r EXCEPT !.late = FALSE].id = r.id
        /\ [r EXCEPT !.late = FALSE].skip = r.skip /\ [r EXCEPT !.late = FALSE].late = FALSE
    OBVIOUS
  <2> QED BY <2>1, <2>2
<1>4. DOMAIN fresh = DOMAIN tiles
  OBVIOUS
<1> HIDE DEF fresh
<1>5. fresh \in TileLists
  <2>1. fresh \in [1 .. Len(tiles) -> R]
    <3>1. fresh = [i \in 1 .. Len(tiles) |-> fresh[i]]
      BY <1>1 DEF fresh
    <3> HIDE DEF R
    <3> QED BY <1>1, <1>3, <3>1
  <2> HIDE DEF R
  <2>2. fresh \in Seq(R)
    BY <1>1, <2>1
  <2> QED BY <2>2 DEF R, TileLists
<1>6. Candidates(fresh) = cands /\ OldPlaces(fresh) = cands
  BY <1>3, <1>4 DEF Candidates, OldPlaces
<1> DEFINE ids == IdsInOrder(fresh)
<1>7. IdsInOrder(tiles)' = ids
  BY <1>2 DEF IdsInOrder, Candidates
<1>8. /\ cands \subseteq Nat /\ IsFiniteSet(cands) /\ cands \subseteq DOMAIN tiles
      /\ ids \in Seq(Windows) /\ Len(ids) = n
      /\ \A k \in 1 .. n : ids[k] = tiles[Nth(cands, k)].id
  <2>1. /\ cands \subseteq Nat /\ IsFiniteSet(cands) /\ cands \subseteq DOMAIN tiles
        /\ ids \in Seq(Windows) /\ Len(ids) = n
        /\ \A k \in 1 .. n : ids[k] = fresh[Nth(cands, k)].id
    <3> HIDE DEF cands
    <3> QED BY <1>4, <1>5, <1>6, IdsAre
  <2>2. \A k \in 1 .. n : Nth(cands, k) \in cands
    <3> HIDE DEF cands
    <3> QED BY <2>1, PlaceIs
  <2> HIDE DEF cands, n, ids
  <2> QED BY <1>3, <2>1, <2>2
<1>9. /\ session' \in Sessions /\ session'.visible = n
      /\ cands # {} =>
           session'.target = tiles[IF ~answer \/ n = 1 THEN Nth(cands, 1) ELSE Nth(cands, 2)].id
  BY <1>1, <1>2, SummonOpens
<1>10. ids # <<>> => cands # {} /\ n # 0
  <2>1. ids # <<>> => n # 0
    <3> HIDE DEF ids, n
    <3> QED BY <1>8
  <2>2. n # 0 => cands # {}
    BY FS_EmptySet
  <2> QED BY <2>1, <2>2
<1>11. atPress' # <<>> => firstPick' = atPress'[DefaultPlace(Len(atPress))']
  <2> SUFFICES ASSUME ids # <<>> PROVE firstPick' = ids[DefaultPlace(Len(atPress))']
    BY <1>2, <1>7
  <2> HIDE DEF ids, n, cands
  <2> DEFINE place == IF ~answer \/ n = 1 THEN 1 ELSE 2
  <2>1. place \in 1 .. n
    BY <1>1, <1>10
  <2>2. ids[place] = tiles[Nth(cands, place)].id
    BY <1>8, <2>1
  <2>3. firstPick' = tiles[Nth(cands, place)].id
    BY <1>2, <1>9, <1>10
  <2>4. atPress' = ids /\ Len(ids) = n
    BY <1>2, <1>7, <1>8
  <2> QED BY <1>2, <2>2, <2>3, <2>4 DEF DefaultPlace
<1>12. ArrivalsMoveNothing'
  BY <1>2 DEF ArrivalsMoveNothing
<1> HIDE DEF ids, n, cands
<1> QED BY <1>2, <1>5, <1>7, <1>8, <1>9, <1>11, <1>12 DEF SessionLine

\* A refresh of a default over the press lands where the press did.
LEMMA RefreshStep ==
  ASSUME SessionLine, Refresh
  PROVE  SessionLine'
<1>1. /\ tiles \in TileLists /\ session \in Sessions /\ summoned
      /\ session' = DecideOn(session, tiles, currentDrawn, FALSE, NoWindow)
      /\ UNCHANGED <<tiles, summoned, currentDrawn, atPress, firstPick>>
  BY DEF SessionLine, Refresh, pressVars
<1>2. session' \in Sessions /\ session'.visible = session.visible
      /\ session'.picked = session.picked
  <2>1. session' = RefreshOf(session, tiles, currentDrawn)
    BY <1>1, Zenon DEF RefreshOf
  <2>2. /\ RefreshOf(session, tiles, currentDrawn) \in Sessions
        /\ RefreshOf(session, tiles, currentDrawn).visible = session.visible
        /\ RefreshOf(session, tiles, currentDrawn).picked = session.picked
    <3>1. tiles \in TileLists /\ session \in Sessions
      BY <1>1
    <3> QED BY <3>1, DecideLands
  <2> QED BY <2>1, <2>2
<1>3. ASSUME ~session'.picked, atPress # <<>>, IdsInOrder(tiles) = atPress
      PROVE  session'.target = firstPick
  <2> DEFINE clear == [session EXCEPT !.searching = FALSE]
             still == [session EXCEPT !.searching = @ \/ FALSE]
  <2>1. /\ clear \in Sessions /\ clear.visible = session.visible
        /\ still \in Sessions /\ still.visible = session.visible
    BY <1>1 DEF Sessions
  <2>2. ~session.picked
    BY <1>2, <1>3
  <2>3. Candidates(tiles) # {}
    <3>1. /\ atPress \in Seq(Windows) /\ Len(atPress) = Cardinality(OldPlaces(tiles))
      BY <1>1, <1>3, IdsAre
    <3>2. OldPlaces(tiles) # {}
      <4>1. Len(atPress) # 0
        BY <1>3, <3>1
      <4> QED BY <3>1, <4>1, FS_EmptySet
    <3> QED BY <3>2 DEF OldPlaces
  <2>4. session' \in {Default(clear, tiles, currentDrawn), Default(still, tiles, currentDrawn)}
    BY <1>1, <2>2, <2>3, Zenon DEF DecideOn
  <2> HIDE DEF clear, still
  <2>5. session'.target = IdsInOrder(tiles)[DefaultPlace(Len(IdsInOrder(tiles)))]
    <3>1. PICK s \in {clear, still} : session' = Default(s, tiles, currentDrawn)
      BY <2>4
    <3>2. s \in Sessions /\ s.visible = Len(IdsInOrder(tiles))
      BY <1>1, <1>3, <2>1 DEF SessionLine
    <3>3. Default(s, tiles, currentDrawn).target =
            IdsInOrder(tiles)[IF ~currentDrawn \/ Len(IdsInOrder(tiles)) = 1 THEN 1 ELSE 2]
      BY <1>1, <1>3, <3>2, DefaultOfThePress
    <3> QED BY <3>1, <3>3 DEF DefaultPlace
  <2> QED BY <1>1, <1>3, <2>5 DEF SessionLine
<1>4. ArrivalsMoveNothing'
  <2>1. IdsInOrder(tiles)' = IdsInOrder(tiles)
    BY <1>1 DEF IdsInOrder, Candidates
  <2> QED BY <1>1, <1>3, <2>1 DEF ArrivalsMoveNothing
<1>5. DefaultPlace(Len(atPress))' = DefaultPlace(Len(atPress))
  BY <1>1 DEF DefaultPlace
<1> QED BY <1>1, <1>2, <1>4, <1>5 DEF SessionLine

\* Every step of a session keeps the line.
LEMMA SessionStep ==
  ASSUME SessionLine, [SessionNext]_sessionVars
  PROVE  SessionLine'
<1>0. tiles \in TileLists /\ session \in Sessions
  BY DEF SessionLine
<1>1. ASSUME NEW best, Search(best) PROVE SessionLine'
  <2>1. session' = DecideOn(session, tiles, currentDrawn, TRUE, best)
        /\ UNCHANGED <<tiles, summoned, currentDrawn, pressVars>> /\ lastStep' = "search"
    BY <1>1 DEF Search
  <2>2. session' \in Sessions /\ session'.visible = session.visible
    <3>1. session' = SearchOf(session, tiles, currentDrawn, best)
      BY <2>1, Zenon DEF SearchOf
    <3>2. /\ SearchOf(session, tiles, currentDrawn, best) \in Sessions
          /\ SearchOf(session, tiles, currentDrawn, best).visible = session.visible
      BY <1>0, DecideLands
    <3> QED BY <3>1, <3>2
  <2> QED BY <2>1, <2>2, SessionGoesOn
<1>2. ASSUME NEW delta \in {1, -1}, CycleBy(delta) PROVE SessionLine'
  <2>1. session' = Cycle(session, tiles, delta)
        /\ UNCHANGED <<tiles, summoned, currentDrawn, pressVars>> /\ lastStep' = "cycle"
    BY <1>2 DEF CycleBy
  <2>2. session' \in Sessions /\ session'.visible = session.visible
    BY <1>0, <2>1, CycleLands
  <2> QED BY <2>1, <2>2, SessionGoesOn
<1>3. ASSUME NEW id, PickOn(id) PROVE SessionLine'
  <2>1. session' = Pick(session, tiles, id)
        /\ UNCHANGED <<tiles, summoned, currentDrawn, pressVars>> /\ lastStep' = "pick"
    BY <1>3 DEF PickOn
  <2>2. session' \in Sessions /\ session'.visible = session.visible
    BY <1>0, <2>1, PickLands
  <2> QED BY <2>1, <2>2, SessionGoesOn
<1>4. ASSUME Close PROVE SessionLine'
  <2>1. Closed \in Sessions
    BY DEF Closed, Sessions
  <2> QED BY <1>4, <2>1 DEF Close, SessionLine, ArrivalsMoveNothing, pressVars
<1>5. CASE UNCHANGED sessionVars
  BY <1>5 DEF sessionVars, pressVars, SessionLine, DefaultPlace, ArrivalsMoveNothing,
    IdsInOrder, Candidates
<1> QED BY <1>1, <1>2, <1>3, <1>4, <1>5, ListStep, SummonStep, RefreshStep DEF SessionNext

\* So it holds in every session, for any windows.
LEMMA SessionInvariance == SessionSpec => []SessionLine
<1>1. SessionInit => SessionLine
  <2>1. <<>> \in TileLists /\ <<>> \in Seq(Windows)
    BY DEF TileLists
  <2>2. Closed \in Sessions
    BY DEF Closed, Sessions
  <2> QED BY <2>1, <2>2 DEF SessionInit, SessionLine, ArrivalsMoveNothing
<1> QED BY <1>1, SessionStep, PTL DEF SessionSpec

\* The default stays on the window of the press: whatever windows come and go, as
\* long as those of the press are all there and in their order, a refresh of a
\* highlight nobody moved lands where the summon did.
THEOREM TheDefaultStays == SessionSpec => []ArrivalsMoveNothing
<1>1. SessionLine => ArrivalsMoveNothing
  BY DEF SessionLine
<1> QED BY <1>1, SessionInvariance, PTL

\* What the user picked is followed: a refresh keeps its window wherever the list
\* has put it.
THEOREM ThePickIsFollowed == SessionSpec => CommitmentFollowed
<1>1. ASSUME SessionLine, [SessionNext]_sessionVars
      PROVE  [lastStep' = "refresh" /\ session.picked /\ ~session.searching
                /\ session.target \in Drawn /\ Candidates(tiles) # {}
              => session'.target = session.target]_sessionVars
  <2> SUFFICES ASSUME SessionNext, lastStep' = "refresh", session.picked,
                      ~session.searching, session.target \in Drawn,
                      Candidates(tiles) # {}
               PROVE  session'.target = session.target
    BY <1>1
  <2>1. Refresh
    BY DEF SessionNext, RowArrives, RowLeaves, RowRaised, RowMinimized, RowsBecome,
      SummonOn, Search, CycleBy, PickOn, Close
  <2> DEFINE still == [session EXCEPT !.searching = @ \/ FALSE]
  <2>2. tiles \in TileLists /\ session \in Sessions
    BY <1>1 DEF SessionLine
  <2>3. still \in Sessions /\ still.target = session.target /\ still.picked
    BY <2>2 DEF Sessions
  <2>4. session' = Follow(still, tiles)
    BY <2>1, <2>3 DEF Refresh, DecideOn
  <2> HIDE DEF still
  <2> QED BY <2>2, <2>3, <2>4, FollowLands DEF Drawn
<1> QED BY <1>1, SessionInvariance, PTL DEF SessionSpec, CommitmentFollowed
=============================================================================
