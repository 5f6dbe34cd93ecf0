------------------------------ MODULE MCPoller ------------------------------
(***************************************************************************)
(* Instances of Poller for TLC: one account, polled by two threads, with   *)
(* one or two chains.  Accounts share no state but the set of running      *)
(* chains; PollerProofs covers any number of them.                         *)
(***************************************************************************)
EXTENDS Poller, TLC

CONSTANTS a1, c1, c2, p1, p2

MCChainAccount == [c \in Chains |-> a1]

MCPollers == Permutations({p1, p2})
=============================================================================
