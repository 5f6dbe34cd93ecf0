----------------------------- MODULE MCTickLoop -----------------------------
(***************************************************************************)
(* An instance of TickLoop for TLC: two accounts, one of which may delay   *)
(* the other.                                                              *)
(***************************************************************************)
EXTENDS TickLoop

CONSTANTS a1, a2
=============================================================================
