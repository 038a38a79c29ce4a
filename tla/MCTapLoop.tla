------------------------------ MODULE MCTapLoop ------------------------------
(* TapLoop on small sets of callers, loops and re-enable goroutines.         *)
EXTENDS TapLoop, TLC

Symmetry ==
  Permutations(Callers) \cup Permutations(Loops) \cup Permutations(Recoveries)
==============================================================================
