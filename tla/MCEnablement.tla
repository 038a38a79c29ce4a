---------------------------- MODULE MCEnablement ----------------------------
(* Enablement with the builtin profile's plugin, whose card has one rule     *)
(* switch beside it: both on, one on, none on.                               *)
EXTENDS Enablement, TLC

CONSTANTS p1, k1

MCPlans ==
  {[rules |-> {k1}, plugins |-> {p1}], [rules |-> {}, plugins |-> {p1}],
   [rules |-> {}, plugins |-> {}]}

Symmetry == Permutations(Requests)
=============================================================================
