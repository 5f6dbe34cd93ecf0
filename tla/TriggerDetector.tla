--------------------------- MODULE TriggerDetector ---------------------------
(***************************************************************************)
(* worker/worker/trigger_detector.py: the pure comparison of the last      *)
(* known unread count of an account with the count of a new snapshot.      *)
(* The code returns a list; its order is never used, so the list is a set. *)
(***************************************************************************)
EXTENDS Naturals

CONSTANT None   \* Python's None: no count has been recorded yet

ASSUME NoneAssumption == None \notin Nat

\* models/action_chain.py, TriggerType
TriggerType == {"unread_new", "inbox_zero"}

\* Variant of DetectTransitions: an inbox that stays empty fires again.
DetectZeroAgain(previousUnread, currentUnread) ==
    {t \in TriggerType :
        /\ previousUnread # None
        /\ \/ t = "unread_new" /\ currentUnread > previousUnread
           \/ t = "inbox_zero" /\ currentUnread = 0}

DetectTransitions(previousUnread, currentUnread) ==
    {t \in TriggerType :
        /\ previousUnread # None
        /\ \/ t = "unread_new" /\ currentUnread > previousUnread
           \/ t = "inbox_zero" /\ previousUnread > 0 /\ currentUnread = 0}
=============================================================================
