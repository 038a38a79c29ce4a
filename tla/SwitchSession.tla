---------------------------- MODULE SwitchSession ----------------------------
(***************************************************************************)
(* One switcher session against a window list that changes at any moment   *)
(* (core/pkg/winswitch/session.go, over module WinSwitch).  The windows    *)
(* and the answers only the shell can give are the environment's.          *)
(***************************************************************************)
EXTENDS WinSwitch

VARIABLES
  tiles,         \* the drawn list, sorted
  session,       \* Session
  summoned,      \* the session was summoned and is not closed
  currentDrawn,  \* CurrentWindowDrawn, the shell's answer
  lastStep,      \* history: the last step
  atPress,       \* history: the candidates at the summon, in order
  firstPick      \* history: the first pick

pressVars == <<atPress, firstPick>>
sessionVars == <<tiles, session, summoned, currentDrawn, lastStep, pressVars>>

Steps == {"change", "summon", "refresh", "search", "cycle", "pick", "close"}

Tile(id, skip, late) == [id |-> id, skip |-> skip, late |-> late]
Drawn == {tiles[i].id : i \in DOMAIN tiles}

SessionTypeOK ==
  /\ Drawn \subseteq Windows /\ Cardinality(Drawn) = Len(tiles)
  /\ session.target \in Windows \cup {NoWindow}
  /\ session.last \in 0..Cardinality(Windows)
  /\ session.visible \in 0..Cardinality(Windows)
  /\ session.picked \in BOOLEAN /\ session.searching \in BOOLEAN
  /\ summoned \in BOOLEAN /\ currentDrawn \in BOOLEAN
  /\ lastStep \in Steps
  /\ firstPick \in Windows \cup {NoWindow}

----------------------------------------------------------------------------
(* The windows. *)

RowsBecome(list) ==
  /\ tiles' = list /\ lastStep' = "change"
  /\ UNCHANGED <<session, summoned, currentDrawn, pressVars>>

RowsWithout(i) == SubSeq(tiles, 1, i - 1) \o SubSeq(tiles, i + 1, Len(tiles))

RowArrives(id) ==
  /\ id \notin Drawn
  /\ \E skip \in BOOLEAN, at \in 0..Len(tiles) :
       RowsBecome(SubSeq(tiles, 1, at) \o <<Tile(id, skip, summoned)>>
                    \o SubSeq(tiles, at + 1, Len(tiles)))

RowLeaves(i) == RowsBecome(RowsWithout(i))
RowRaised(i) == i # 1 /\ RowsBecome(<<tiles[i]>> \o RowsWithout(i))
RowMinimized(i) == RowsBecome([tiles EXCEPT ![i].skip = ~@])

----------------------------------------------------------------------------
(* The operations. *)

IdsInOrder(list) ==
  LET kept == {i \in Candidates(list) : ~list[i].late}
  IN [n \in 1..Cardinality(kept) |-> list[Nth(kept, n)].id]

SummonOn(answer) ==
  /\ tiles' = [i \in DOMAIN tiles |-> [tiles[i] EXCEPT !.late = FALSE]]
  /\ currentDrawn' = answer
  /\ session' = Summon(tiles, answer)
  /\ summoned' = TRUE /\ lastStep' = "summon"
  /\ atPress' = IdsInOrder(tiles') /\ firstPick' = session'.target

Refresh ==
  /\ summoned /\ lastStep' = "refresh"
  /\ session' = DecideOn(session, tiles, currentDrawn, FALSE, NoWindow)
  /\ UNCHANGED <<tiles, summoned, currentDrawn, pressVars>>

Search(best) ==
  /\ summoned /\ lastStep' = "search"
  /\ session' = DecideOn(session, tiles, currentDrawn, TRUE, best)
  /\ UNCHANGED <<tiles, summoned, currentDrawn, pressVars>>

CycleBy(delta) ==
  /\ summoned /\ lastStep' = "cycle"
  /\ session' = Cycle(session, tiles, delta)
  /\ UNCHANGED <<tiles, summoned, currentDrawn, pressVars>>

\* A hover may be stale: any window, drawn or not.
PickOn(id) ==
  /\ summoned /\ lastStep' = "pick"
  /\ session' = Pick(session, tiles, id)
  /\ UNCHANGED <<tiles, summoned, currentDrawn, pressVars>>

Close ==
  /\ summoned /\ lastStep' = "close"
  /\ session' = Closed /\ summoned' = FALSE
  /\ UNCHANGED <<tiles, currentDrawn, pressVars>>

SessionInit ==
  /\ tiles = <<>> /\ session = Closed /\ summoned = FALSE /\ currentDrawn = TRUE
  /\ lastStep = "close" /\ atPress = <<>> /\ firstPick = NoWindow

SessionNext ==
  \/ \E id \in Windows : RowArrives(id) \/ PickOn(id)
  \/ \E i \in DOMAIN tiles : RowLeaves(i) \/ RowRaised(i) \/ RowMinimized(i)
  \/ \E answer \in BOOLEAN : SummonOn(answer)
  \/ Refresh
  \/ \E best \in Windows \cup {NoWindow} : Search(best)
  \/ \E delta \in {1, -1} : CycleBy(delta)
  \/ Close

SessionSpec == SessionInit /\ [][SessionNext]_sessionVars

----------------------------------------------------------------------------
(* Properties. *)

\* What the user chose is followed wherever it moves: a plain refresh while the
\* chosen window is drawn, and some window may be chosen, keeps the target.
CommitmentFollowed ==
  [][lastStep' = "refresh" /\ session.picked /\ ~session.searching
       /\ session.target \in Drawn /\ Candidates(tiles) # {}
     => session'.target = session.target]_sessionVars

\* "The window you were on before" is a question about the press: whatever
\* arrives behind it, an untouched default stays on the window first picked, as
\* long as the windows of the press are all there, in their order.
ArrivalsMoveNothing ==
  summoned /\ lastStep = "refresh" /\ ~session.picked
    /\ atPress # <<>> /\ IdsInOrder(tiles) = atPress
  => session.target = firstPick

\* No operation leaves the highlight blank while there is a window to pick, and
\* the index it leaves is the tile of its target.
HighlightIsDrawn ==
  lastStep \in {"summon", "refresh", "search", "cycle"} =>
    /\ session.target = NoWindow => session.last = NoIndex /\ Candidates(tiles) = {}
    /\ session.target # NoWindow => tiles[session.last].id = session.target

----------------------------------------------------------------------------
(* What the package's comments say and the code does not do. *)

\* "Once the user cycles or hovers, the same field is a commitment and is
\* followed by id however the list reorders" (session.go:44-45).
CommitmentAlwaysFollowed ==
  [][lastStep' = "refresh" /\ session.picked /\ ~session.searching
       /\ session.target \in Drawn => session'.target = session.target]_sessionVars

\* "a session with no highlight yet steps onto the first candidate"
\* (session.go:103).
CycleStartsAtFirst ==
  [][lastStep' = "cycle" /\ session.target = NoWindow /\ Candidates(tiles) # {}
     => session'.last = Nth(Candidates(tiles), 1)]_sessionVars
=============================================================================
