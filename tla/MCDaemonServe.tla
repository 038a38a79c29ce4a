--------------------------- MODULE MCDaemonServe ---------------------------
(* Instance of DaemonServe for TLC: a long pid and a short one.              *)
EXTENDS DaemonServe, TLC

CONSTANTS d1, d2
MCDigits == (d1 :> 5) @@ (d2 :> 3)
=============================================================================
