----------------------------- MODULE MCSwitcher -----------------------------
(* Switcher with two windows at the start, and a third that may arrive. *)
EXTENDS Switcher

CONSTANTS w1, w2, w3

TwoWindows == <<Row(w1, FALSE), Row(w2, FALSE)>>
=============================================================================
