------------------------------- MODULE MCApi -------------------------------
(***************************************************************************)
(* The API for TLC: the users, a chain and the printers of one             *)
(* installation.  Their tables have nothing in common, nor have the        *)
(* columns and the steps of a chain; so a behaviour exercises one part,    *)
(* chosen at the start, and the others stand still.  Requests come one at  *)
(* a time, but for UsersConcurrently.                                      *)
(***************************************************************************)
EXTENDS UserApi, ChainsApi, PrinterApi, TLC

CONSTANTS
    u1, u2, u3, u4,     \* users
    s1, s2, s3,         \* steps
    p, x,               \* patterns; x does not compile
    d1, d2,             \* printers
    q1, Q1, q2, q3,     \* queues; q1 and Q1 are names that users choose
    e1, e2,             \* device URIs
    r1, r2              \* requests

VARIABLE part

vars == <<part, userVars, chainVars, printerVars>>

\* Two names that differ in case only.
MCFolded == [q \in Queues |-> IF q = Q1 THEN q1 ELSE q]

\* step_ids, with steps that are missing, foreign or repeated.
MCOrders == UNION {[1 .. n -> Steps] : n \in 1 .. 4}

Init ==
    /\ part \in {"users", "columns", "steps", "printers"}
    /\ UsersInit /\ ChainsInit /\ PrintersInit

Next ==
    \/ part = "users" /\ UsersSerialNext /\ UNCHANGED <<part, chainVars, printerVars>>
    \/ /\ part = "columns"
       /\ ChainsSerialNext
       /\ createdSteps' = {}
       /\ UNCHANGED <<part, userVars, printerVars>>
    \/ /\ part = "steps"
       /\ ChainsSerialNext
       /\ payload' = [r \in Requests |-> Nothing]
       /\ UNCHANGED <<part, userVars, printerVars>>
    \/ part = "printers" /\ PrintersSerialNext /\ UNCHANGED <<part, userVars, chainVars>>

Spec == Init /\ [][Next]_vars

\* Any number of requests about users at a time.
UsersConcurrently ==
    /\ Init /\ part = "users"
    /\ [][UsersNext /\ UNCHANGED <<part, chainVars, printerVars>>]_vars

MCSymmetry == Permutations(Users)
=============================================================================
