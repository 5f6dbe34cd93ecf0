--------------------------- MODULE AccountTriggers ---------------------------
(***************************************************************************)
(* What the poller promises of every account, whoever polls it and however *)
(* often: the counts seen form one history, and each two consecutive       *)
(* counts of that history are compared exactly once.  The ledger keeps the *)
(* end of the history (baseline), the rows of the latest detection, and    *)
(* how many detections there were, counted modulo CountWindow so that the  *)
(* ledger stays finite: a detection written twice still changes the count. *)
(***************************************************************************)
EXTENDS Naturals

CONSTANTS
    Accounts,
    Counts,         \* the unread counts a mailbox may report
    None,           \* no count observed yet
    CountWindow     \* detections are counted modulo this bound

VARIABLES
    baseline,       \* [Accounts -> Counts \cup {None}]
    detection,      \* [Accounts -> the rows of the latest detection]
    detected        \* [Accounts -> 0 .. CountWindow-1]

vars == <<baseline, detection, detected>>

Init ==
    /\ baseline = [a \in Accounts |-> None]
    /\ detection = [a \in Accounts |-> {}]
    /\ detected = [a \in Accounts |-> 0]

\* New mail is a rise of the count, inbox zero a fall onto zero.
Rises(from, to) == from # None /\ from < to
EmptiesInbox(from, to) == from # None /\ from > to /\ to = 0

Event(from, to) ==
    IF Rises(from, to) THEN "unread_new" ELSE "inbox_zero"

\* The history of account a is extended by the count n.
Observe(a, n) ==
    /\ baseline' = [baseline EXCEPT ![a] = n]
    /\ IF Rises(baseline[a], n) \/ EmptiesInbox(baseline[a], n)
       THEN /\ detection' = [detection EXCEPT ![a] =
                   {[trigger |-> Event(baseline[a], n),
                     previous |-> baseline[a], current |-> n]}]
            /\ detected' = [detected EXCEPT ![a] =
                   IF @ + 1 = CountWindow THEN 0 ELSE @ + 1]
       ELSE UNCHANGED <<detection, detected>>

\* The account is deleted and its history with it; the rows written stay.
Forget(a) ==
    /\ baseline' = [baseline EXCEPT ![a] = None]
    /\ UNCHANGED <<detection, detected>>

Next == \E a \in Accounts : Forget(a) \/ \E n \in Counts : Observe(a, n)

Spec == Init /\ [][Next]_vars
=============================================================================
