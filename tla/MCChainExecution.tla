-------------------------- MODULE MCChainExecution --------------------------
(***************************************************************************)
(* Instances of ChainExecution for TLC.                                    *)
(***************************************************************************)
EXTENDS ChainExecution

MCOneStep == {0}
=============================================================================
