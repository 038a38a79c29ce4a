----------------------------- MODULE MCSlowPath -----------------------------
(* Two applications and three queries, so that a given-up query can end before
   or after the next; two readers and two writers, so that a writer can wait
   between the two locks of a Full; a bus of two under two drains;
   three windows, on a screen with a menu bar above and nothing below, and a
   history of two. *)
EXTENDS SlowPath

MCApps == {"mail", "shell"}
MCReaders == {"r1", "r2"}
MCWriters == {"w1", "w2"}
MCNames == {"", "mail"}
MCDeciders == {"tap"}
MCDrainers == {"d1", "d2"}
MCSecret == {1}
MCActing == {2}
MCWindows == {"w1", "w2", "w3"}
MCVisible == [x |-> 0, y |-> 1, w |-> 12, h |-> 8]
MCMoves == {"leftHalf", "topHalf", "nextDisplay"}
MCPlaces == {[x |-> 1, y |-> 2, w |-> 6, h |-> 4]}
=============================================================================
