------------------------------ MODULE WinSwitch ------------------------------
(***************************************************************************)
(* The switcher's session (core/pkg/winswitch/pick.go and session.go): a   *)
(* highlight over a list of windows that changes underneath it.            *)
(*                                                                         *)
(* A row is a window's id, whether the default steps over it (a minimized  *)
(* window or a placeholder), and whether it appeared after the summon.     *)
(* The rows come sorted; tiles count from 1, and 0 is NoIndex.             *)
(***************************************************************************)
EXTENDS Integers, Sequences, FiniteSets

CONSTANTS
  Windows,     \* windows
  NoWindow     \* no target, and no best match

ASSUME WindowAssumption == NoWindow \notin Windows

NoIndex == 0

\* The n-th smallest of a set of indexes.
Nth(indexes, n) ==
  CHOOSE i \in indexes : Cardinality({j \in indexes : j < i}) = n - 1

Candidates(rows) == {i \in DOMAIN rows : ~rows[i].skip}

IndexOf(rows, id) ==
  IF \E i \in DOMAIN rows : rows[i].id = id
  THEN CHOOSE i \in DOMAIN rows : rows[i].id = id ELSE NoIndex

\* Mutant: one newcomer fewer.
StepOverOneShort(rows, visible) ==
  LET cands == Candidates(rows)
      gained == Cardinality(cands) - visible
      late(i) == {j \in cands : j < i /\ rows[j].late}
      kept == {i \in cands : ~rows[i].late \/ Cardinality(late(i)) >= gained - 1}
  IN IF gained <= 0 \/ kept = {} THEN cands ELSE kept

\* The first newcomers are dropped, as many as the list grew by.
StepOverNewcomers(rows, visible) ==
  LET cands == Candidates(rows)
      gained == Cardinality(cands) - visible
      late(i) == {j \in cands : j < i /\ rows[j].late}
      kept == {i \in cands : ~rows[i].late \/ Cardinality(late(i)) >= gained}
  IN IF gained <= 0 \/ kept = {} THEN cands ELSE kept

\* The window the user was on before the current one.
DefaultPick(rows, currentDrawn, visible) ==
  LET kept == StepOverNewcomers(rows, visible)
  IN IF kept = {} THEN NoIndex
     ELSE IF ~currentDrawn \/ Cardinality(kept) = 1 THEN Nth(kept, 1)
     ELSE Nth(kept, 2)

\* The window in the slot a target left, or the last one.
ClosestBelow(rows, at) ==
  LET cands == Candidates(rows)
      below == {i \in cands : i >= at}
  IN IF cands = {} THEN NoIndex
     ELSE IF below = {} THEN Nth(cands, Cardinality(cands))
     ELSE Nth(below, 1)

----------------------------------------------------------------------------
(* The session, and what each operation makes of it. *)

\* The zero value: its index is the first tile's.
Closed == [target |-> NoWindow, picked |-> FALSE, last |-> 1,
           visible |-> 0, searching |-> FALSE]

Land(sess, rows, i) ==
  IF i = NoIndex
  THEN [sess EXCEPT !.target = NoWindow, !.last = NoIndex]
  ELSE [sess EXCEPT !.target = rows[i].id, !.last = i]

Default(sess, rows, currentDrawn) ==
  Land(sess, rows, DefaultPick(rows, currentDrawn, sess.visible))

Summon(rows, currentDrawn) ==
  Default([Closed EXCEPT !.last = NoIndex, !.visible = Cardinality(Candidates(rows))],
          rows, currentDrawn)

\* A refresh: the first of these that applies.
Follow(sess, rows) ==
  LET at == IndexOf(rows, sess.target)
  IN Land(sess, rows, IF at # NoIndex THEN at ELSE ClosestBelow(rows, sess.last))

\* Mutant: the highlight stays on its slot, whatever window is in it now.
FollowSlot(sess, rows, currentDrawn, search, best) ==
  IF ~sess.picked THEN Default(sess, rows, currentDrawn)
  ELSE Land(sess, rows, ClosestBelow(rows, sess.last))

DecideOn(sess, rows, currentDrawn, search, best) ==
  IF sess.searching /\ ~search
  THEN Default([sess EXCEPT !.searching = FALSE], rows, currentDrawn)
  ELSE IF Candidates(rows) = {} THEN Land(sess, rows, NoIndex)
  ELSE LET now == [sess EXCEPT !.searching = @ \/ search]
           hit == IndexOf(rows, best)
       IN IF search /\ hit # NoIndex THEN Land(now, rows, hit)
          ELSE IF ~sess.picked THEN Default(now, rows, currentDrawn)
          ELSE Follow(now, rows)

\* One candidate forward or back, around the ends.  A highlight that is on no
\* candidate counts as the one before the first.
Cycle(sess, rows, delta) ==
  LET cands == Candidates(rows)
      at == IF sess.last \in cands
            THEN Cardinality({i \in cands : i < sess.last}) ELSE -1
  IN IF cands = {} THEN Land(sess, rows, NoIndex)
     ELSE Land([sess EXCEPT !.picked = TRUE], rows,
               Nth(cands, ((at + delta) % Cardinality(cands)) + 1))

\* A window that is not drawn is a stale hover and changes nothing.
Pick(sess, rows, id) ==
  LET at == IndexOf(rows, id)
  IN IF at = NoIndex THEN sess
     ELSE Land([sess EXCEPT !.picked = TRUE], rows, at)
=============================================================================
