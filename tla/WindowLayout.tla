---------------------------- MODULE WindowLayout ----------------------------
(***************************************************************************)
(* The geometry of the window actions (core/pkg/winlayout): where an       *)
(* action puts a window inside an area, and the frames it remembers to     *)
(* restore.  A frame is a record [x, y, w, h] of whole points; its lower   *)
(* edge is at y, as in the code.                                           *)
(***************************************************************************)
EXTENDS Naturals, Sequences, SequencesExt

\* The pieces of a line of length n, from its low end: [offset, length].
Piece(part, n) ==
  CASE part = "all"     -> <<0, n>>
    [] part = "low1/2"  -> <<0, n \div 2>>
    [] part = "high1/2" -> <<n \div 2, n - n \div 2>>
    [] part = "low1/3"  -> <<0, n \div 3>>
    [] part = "mid1/3"  -> <<n \div 3, n \div 3>>
    [] part = "high1/3" -> <<2 * (n \div 3), n - 2 * (n \div 3)>>
    [] part = "low2/3"  -> <<0, 2 * (n \div 3)>>
    [] part = "mid2/3"  -> <<n \div 6, n - 2 * (n \div 6)>>
    [] part = "high2/3" -> <<n \div 3, n - n \div 3>>

\* The zones that have a geometry, each by its piece across and its piece up.
Zones ==
  [leftHalf |-> <<"low1/2", "all">>,       rightHalf |-> <<"high1/2", "all">>,
   topHalf |-> <<"all", "high1/2">>,       bottomHalf |-> <<"all", "low1/2">>,
   topLeft |-> <<"low1/2", "high1/2">>,    topRight |-> <<"high1/2", "high1/2">>,
   bottomLeft |-> <<"low1/2", "low1/2">>,  bottomRight |-> <<"high1/2", "low1/2">>,
   leftThird |-> <<"low1/3", "all">>,      centerThird |-> <<"mid1/3", "all">>,
   rightThird |-> <<"high1/3", "all">>,    leftTwoThirds |-> <<"low2/3", "all">>,
   centerTwoThirds |-> <<"mid2/3", "all">>,
   rightTwoThirds |-> <<"high2/3", "all">>, maximize |-> <<"all", "all">>]

\* Those the adapter would have to resolve.
AdapterZones == {"center", "restore", "nextDisplay", "previousDisplay", "fullscreen"}

Frame(zone, visible) ==
  LET across == Piece(Zones[zone][1], visible.w)
      up == Piece(Zones[zone][2], visible.h)
  IN [x |-> visible.x + across[1], y |-> visible.y + up[1], w |-> across[2], h |-> up[2]]

-----------------------------------------------------------------------------
(* The frames remembered: by window, and the windows in the order of their   *)
(* first snaps.                                                              *)

NoFrames == [frames |-> [w \in {} |-> {}], order |-> <<>>]
Remembered(hist) == DOMAIN hist.frames

Forget(frames, w) == [v \in DOMAIN frames \ {w} |-> frames[v]]

Push(hist, w, frame, capacity) ==
  LET order == IF w \in Remembered(hist) THEN hist.order ELSE Append(hist.order, w)
      frames == [v \in Remembered(hist) \cup {w} |->
                   IF v = w THEN frame ELSE hist.frames[v]]
  IN IF Len(order) > capacity
     THEN [frames |-> Forget(frames, Head(order)), order |-> Tail(order)]
     ELSE [frames |-> frames, order |-> order]

\* Mutant: the window keeps its place in the order.
PopFrame(hist, w) == [hist EXCEPT !.frames = Forget(@, w)]

\* The first place of w among the windows in order.
PlaceOf(w, order) ==
  CHOOSE i \in DOMAIN order : order[i] = w /\ \A j \in 1..(i - 1) : order[j] # w

\* What a restore leaves, of a window that is remembered.
Pop(hist, w) ==
  [frames |-> Forget(hist.frames, w),
   order |-> RemoveAt(hist.order, PlaceOf(w, hist.order))]

=============================================================================
