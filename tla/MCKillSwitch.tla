---------------------------- MODULE MCKillSwitch ----------------------------
(* KillSwitch on small sets of drivers and requests.  The drivers are alike, *)
(* and SeedCache takes them in one order, so no symmetry is left to declare. *)
EXTENDS KillSwitch, TLC
=============================================================================
