--------------------------- MODULE MCMailTriggers ---------------------------
(***************************************************************************)
(* Instances of MailTriggers for TLC.                                      *)
(***************************************************************************)
EXTENDS MailTriggers, TLC

CONSTANTS
    inbox, archive,     \* folders
    c1,                 \* a chain
    p, x,               \* patterns; x does not compile
    full, empty         \* texts

MCContains == (full :> {p, x}) @@ (empty :> {})
MCFinds == (full :> {p}) @@ (empty :> {})

MCMail(s, t, b) == [sender |-> s, subject |-> t, body |-> b]

MCContent ==
    (inbox :> <<MCMail(full, full, empty), MCMail(empty, full, full)>>) @@
    (archive :> <<MCMail(full, empty, full)>>)

\* No gate at all, and what the rows below change of it.
MCGate == [
    time_window_enabled |-> FALSE, time_start |-> None, time_end |-> None,
    condition_match |-> "all", sender_filter |-> None,
    sender_filter_mode |-> "contains", subject_regex |-> None, body_regex |-> None]

MCGates == {
    [MCGate EXCEPT !.time_window_enabled = TRUE, !.time_start = 2, !.time_end = 1],
    [MCGate EXCEPT !.time_window_enabled = TRUE, !.time_start = 1, !.time_end = 2,
                   !.sender_filter = x],
    [MCGate EXCEPT !.sender_filter = x, !.sender_filter_mode = "regex",
                   !.subject_regex = p, !.condition_match = "any"],
    [MCGate EXCEPT !.subject_regex = p, !.body_regex = p]}

MCChainRows ==
    [trigger_type : {"unread_new"}, gate : MCGates] \cup
    [trigger_type : {"inbox_zero"}, gate : {MCGate}]
=============================================================================
