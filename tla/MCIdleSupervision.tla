------------------------- MODULE MCIdleSupervision -------------------------
(***************************************************************************)
(* Instances of IdleSupervision for TLC.                                   *)
(***************************************************************************)
EXTENDS IdleSupervision, TLC

CONSTANTS a1, a2, w1, w2, w3

MCSymmetry == Permutations({a1, a2}) \cup Permutations({w1, w2, w3})
=============================================================================
