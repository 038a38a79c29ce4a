--------------------------- MODULE MCSwitchSession ---------------------------
(* SwitchSession with three windows. *)
EXTENDS SwitchSession, TLC

Symmetry == Permutations(Windows)
=============================================================================
