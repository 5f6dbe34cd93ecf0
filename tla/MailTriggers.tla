---------------------------- MODULE MailTriggers ----------------------------
(***************************************************************************)
(* From the mailbox to the chain and to the printer: what lies behind the  *)
(* counts of module Poller.  One account is polled; its folder is searched *)
(* for unseen mails, the header of the newest is fetched, the counts are   *)
(* compared, the body is fetched if a chain needs it, the gate of module   *)
(* ChainMatcher decides, and a chain that runs may print the mail.  Other  *)
(* clients read, mark and remove mails, and the API moves the account to   *)
(* another folder, between any two of these.                               *)
(*                                                                         *)
(* The account lock makes the polls of an account follow one another       *)
(* (Poller!LockHeldInside), so there is one poll here.  Chains are neither *)
(* edited nor deleted (Poller, ChainExecution), each has one print step.   *)
(***************************************************************************)
EXTENDS ChainMatcher, FiniteSets, Sequences

CONSTANTS
    Folders,
    Content,        \* bound: the mails that ever arrive in each folder, in order
    Chains,
    ChainRows       \* the rows of action_chains the API may have stored

Mail == [sender : Texts, subject : Texts, body : Texts]

ASSUME ContentAssumption == Content \in [Folders -> Seq(Mail)]
ASSUME NoneIsNoFolder == None \notin Folders

INSTANCE TriggerDetector    \* TriggerType, DetectTransitions

ASSUME RowAssumption == ChainRows \subseteq [trigger_type : TriggerType, gate : GateColumns]

VARIABLES
    (* the database *)
    folder,         \* accounts.folder
    lastUnread,     \* account_state.last_unread_count
    chain,          \* the rows of action_chains, all of this account and active
    (* the IMAP server *)
    box,            \* the state of each mail of each folder
    (* the poll *)
    pc,
    conn,           \* the folder of the account as the session has it
    previous,       \* previous_count
    count,          \* snapshot.unread_count
    latest,         \* snapshot.latest_uid
    header,         \* snapshot.latest_sender and latest_subject, or None
    body,           \* of _load_body_if_needed
    minute,         \* now, in the handler
    todo,           \* matching_chains not handled yet
    (* the threads of the chains *)
    thread,
    (* history *)
    seen,           \* the unseen mails of the latest search
    lastSeen,       \* those behind lastUnread
    moved,          \* the folder was changed since the poll began
    verdict,        \* what the gate decided in this poll
    printed         \* the mail each thread printed

rowVars == <<folder, lastUnread, chain>>
snapshotVars == <<previous, count, latest, header, seen>>
handlerVars == <<body, minute, todo, verdict>>
threadVars == <<thread, printed>>
pollVars == <<pc, conn, snapshotVars, handlerVars>>
vars == <<rowVars, box, pollVars, threadVars, lastSeen, moved>>

\* A UID is the rank of the mail's arrival; it is never used again.
Uids(f) == DOMAIN Content[f]
Uid == UNION {Uids(f) : f \in Folders}
MailIds == Folders \X Uid
Search == [folder : Folders, uids : SUBSET Uid]

\* A thread remembers the UID it was given, the folder its session loaded,
\* and (history) the mail that triggered it and whether the folder changed.
Thread == [stage : {"none", "load", "print", "end"}, uid : Uid \cup {None},
           folder : Folders \cup {None}, mail : MailIds \cup {None}, moved : BOOLEAN]
NoThread == [stage |-> "none", uid |-> None, folder |-> None, mail |-> None, moved |-> FALSE]

Label == {"idle", "search", "header", "commit", "handler", "body", "dispatch"}

TypeOK ==
    /\ folder \in Folders
    /\ lastUnread \in Nat \cup {None}
    /\ chain \in [Chains -> ChainRows]
    /\ \A f \in Folders : box[f] \in [Uids(f) -> {"absent", "unread", "read", "gone"}]
    /\ pc \in Label
    /\ conn \in Folders \cup {None}
    /\ previous \in Nat \cup {None}
    /\ count \in Nat
    /\ latest \in Uid \cup {None}
    /\ header \in [sender : Texts, subject : Texts] \cup {None}
    /\ body \in Texts \cup {None}
    /\ minute \in Minutes
    /\ todo \in SUBSET Chains
    /\ thread \in [Chains -> Thread]
    /\ seen \in Search \cup {None}
    /\ lastSeen \in Search \cup {None}
    /\ moved \in BOOLEAN
    /\ verdict \in [Chains -> {"none", "run", "skip"}]
    /\ printed \in [Chains -> MailIds \cup {None}]
-----------------------------------------------------------------------------
Init ==
    /\ folder \in Folders
    /\ lastUnread = None
    /\ chain \in [Chains -> ChainRows]
    /\ box = [f \in Folders |-> [u \in Uids(f) |-> "absent"]]
    /\ pc = "idle"
    /\ conn = None
    /\ previous = None
    /\ count = 0
    /\ latest = None
    /\ header = None
    /\ body = None
    /\ minute = 0
    /\ todo = {}
    /\ thread = [c \in Chains |-> NoThread]
    /\ seen = None
    /\ lastSeen = None
    /\ moved = FALSE
    /\ verdict = [c \in Chains |-> "none"]
    /\ printed = [c \in Chains |-> None]

Fired == DetectTransitions(previous, count)
Present(f, u) == u \in Uids(f) /\ box[f][u] \in {"unread", "read"}

\* Variant of Newest: the number of the mail among the unseen ones.
NewestNumber(uids) == Cardinality(uids)

\* unseen_uids[-1].
Newest(uids) == IF uids = {} THEN None ELSE CHOOSE u \in uids : \A v \in uids : v <= u

\* poll_account returns; its locals are gone.
Return ==
    /\ pc' = "idle"
    /\ conn' = None
    /\ previous' = None
    /\ count' = 0
    /\ latest' = None
    /\ header' = None
    /\ seen' = None
    /\ body' = None
    /\ minute' = 0
    /\ todo' = {}
    /\ verdict' = [c \in Chains |-> "none"]
-----------------------------------------------------------------------------
(* The poll *)

\* poll_account with the account as the session has loaded it.
BeginPoll ==
    /\ pc = "idle"
    /\ pc' = "search"
    /\ conn' = folder
    /\ previous' = lastUnread
    /\ moved' = FALSE
    /\ UNCHANGED <<rowVars, box, count, latest, header, seen, handlerVars,
                   threadVars, lastSeen>>

\* Variant of SearchUnseen: UID SEARCH ALL.
SearchAll ==
    /\ pc = "search"
    /\ LET uids == {u \in Uids(conn) : Present(conn, u)}
       IN  /\ seen' = [folder |-> conn, uids |-> {u \in uids : box[conn][u] = "unread"}]
           /\ count' = Cardinality(uids)
           /\ latest' = Newest(uids)
           /\ pc' = IF uids = {} THEN "commit" ELSE "header"
    /\ UNCHANGED <<rowVars, box, conn, previous, header, handlerVars,
                   threadVars, lastSeen, moved>>

\* UID SEARCH UNSEEN: the server lists UIDs in ascending order, the last one
\* is the newest mail that is unread.
SearchUnseen ==
    /\ pc = "search"
    /\ LET uids == {u \in Uids(conn) : box[conn][u] = "unread"}
       IN  /\ seen' = [folder |-> conn, uids |-> uids]
           /\ count' = Cardinality(uids)
           /\ latest' = Newest(uids)
           /\ pc' = IF uids = {} THEN "commit" ELSE "header"
    /\ UNCHANGED <<rowVars, box, conn, previous, header, handlerVars,
                   threadVars, lastSeen, moved>>

\* UID FETCH RFC822.HEADER; of a mail removed meanwhile nothing comes back.
FetchHeader ==
    /\ pc = "header"
    /\ header' = IF Present(conn, latest)
                 THEN [sender |-> Content[conn][latest].sender,
                       subject |-> Content[conn][latest].subject]
                 ELSE None
    /\ pc' = "commit"
    /\ UNCHANGED <<rowVars, box, conn, previous, count, latest, seen, handlerVars,
                   threadVars, lastSeen, moved>>

\* Any ImapConnectionError of fetch_snapshot; the baseline stays.
SnapshotFails ==
    /\ pc \in {"search", "header"}
    /\ Return
    /\ UNCHANGED <<rowVars, box, threadVars, lastSeen, moved>>

\* The count of the snapshot becomes the baseline.
Commit ==
    /\ pc = "commit"
    /\ lastUnread' = count
    /\ lastSeen' = seen
    /\ IF Fired = {}
       THEN Return
       ELSE pc' = "handler" /\ UNCHANGED <<conn, snapshotVars, handlerVars>>
    /\ UNCHANGED <<folder, chain, box, threadVars, moved>>

\* _default_trigger_handler: the chains that answer to the trigger.  The
\* commit has expired the account, whose row is loaded again.
QueryChains ==
    /\ pc = "handler"
    /\ conn' = folder
    /\ todo' = {c \in Chains : chain[c].trigger_type \in Fired}
    /\ minute' \in Minutes
    /\ pc' = IF latest # None /\ \E c \in todo' : ChainNeedsBody(chain[c].gate)
             THEN "body" ELSE "dispatch"
    /\ UNCHANGED <<rowVars, box, snapshotVars, body, verdict, threadVars,
                   lastSeen, moved>>

\* _load_body_if_needed: no body if the mail is gone or the connection fails.
LoadBody ==
    /\ pc = "body"
    /\ body' \in {Content[conn][latest].body : u \in {v \in {latest} : Present(conn, v)}}
                 \cup {None}
    /\ pc' = "dispatch"
    /\ UNCHANGED <<rowVars, box, conn, snapshotVars, minute, todo, verdict,
                   threadVars, lastSeen, moved>>

\* Any other error of the handler: the chains not handled yet are lost.
HandlerRaises ==
    /\ pc \in {"handler", "body", "dispatch"}
    /\ Return
    /\ UNCHANGED <<rowVars, box, threadVars, lastSeen, moved>>

\* The gate, with what the snapshot knows of the mail.
Passes(c) ==
    /\ IsWithinTimeWindow(chain[c].gate, minute)
    /\ MatchesConditions(chain[c].gate,
            IF header = None THEN EmptyText ELSE header.sender,
            IF header = None THEN EmptyText ELSE header.subject, body)

SkipChain(c) ==
    /\ pc = "dispatch"
    /\ c \in todo
    /\ ~Passes(c)
    /\ todo' = todo \ {c}
    /\ verdict' = [verdict EXCEPT ![c] = "skip"]
    /\ UNCHANGED <<rowVars, box, pc, conn, snapshotVars, body, minute,
                   threadVars, lastSeen, moved>>

\* _run_chain_in_background: a thread with the UID, unless the chain runs.
StartChain(c) ==
    /\ pc = "dispatch"
    /\ c \in todo
    /\ Passes(c)
    /\ todo' = todo \ {c}
    /\ verdict' = [verdict EXCEPT ![c] = "run"]
    /\ IF thread[c].stage # "none"
       THEN UNCHANGED thread
       ELSE thread' = [thread EXCEPT ![c] =
                    [stage |-> "load", uid |-> latest, folder |-> None,
                     mail |-> IF latest = None THEN None ELSE <<seen.folder, latest>>,
                     moved |-> moved]]
    /\ UNCHANGED <<rowVars, box, pc, conn, snapshotVars, body, minute,
                   printed, lastSeen, moved>>

DispatchDone ==
    /\ pc = "dispatch"
    /\ todo = {}
    /\ Return
    /\ UNCHANGED <<rowVars, box, threadVars, lastSeen, moved>>

Poll ==
    \/ BeginPoll \/ SearchUnseen \/ FetchHeader \/ SnapshotFails \/ Commit
    \/ QueryChains \/ LoadBody \/ HandlerRaises \/ DispatchDone
    \/ \E c \in Chains : SkipChain(c) \/ StartChain(c)
-----------------------------------------------------------------------------
(* The thread of a chain *)

\* The session of the thread loads the account.
LoadAccount(c) ==
    /\ thread[c].stage = "load"
    /\ thread' = [thread EXCEPT ![c].stage = "print", ![c].folder = folder]
    /\ UNCHANGED <<rowVars, box, pollVars, printed, lastSeen, moved>>

\* Variant of PrintStep: the newest mail is printed.
PrintNewest(c) ==
    /\ thread[c].stage = "print"
    /\ \E u \in {Newest({v \in Uids(thread[c].folder) : Present(thread[c].folder, v)})} \ {None} :
            printed' = [printed EXCEPT ![c] = <<thread[c].folder, u>>]
    /\ thread' = [thread EXCEPT ![c].stage = "end"]
    /\ UNCHANGED <<rowVars, box, pollVars, lastSeen, moved>>

\* _execute_print_step: the mail is fetched by its UID from the account's
\* folder and printed; fails without a UID or a mail.
PrintStep(c) ==
    /\ thread[c].stage = "print"
    /\ thread[c].uid # None
    /\ Present(thread[c].folder, thread[c].uid)
    /\ printed' = [printed EXCEPT ![c] = <<thread[c].folder, thread[c].uid>>]
    /\ thread' = [thread EXCEPT ![c].stage = "end"]
    /\ UNCHANGED <<rowVars, box, pollVars, lastSeen, moved>>

\* The thread ends; before it has printed if there is no mail, no printer,
\* nothing to print, or an error of IMAP or CUPS.
ThreadExit(c) ==
    /\ thread[c].stage # "none"
    /\ thread' = [thread EXCEPT ![c] = NoThread]
    /\ printed' = [printed EXCEPT ![c] = None]
    /\ UNCHANGED <<rowVars, box, pollVars, lastSeen, moved>>

ThreadStep(c) == LoadAccount(c) \/ PrintStep(c) \/ ThreadExit(c)
-----------------------------------------------------------------------------
(* The rest of the system *)

\* PATCH /accounts/{id} with a folder; the state row is not touched.
UpdateFolder(f) ==
    /\ f # folder
    /\ folder' = f
    /\ moved' = TRUE
    /\ thread' = [c \in Chains |-> IF thread[c].stage = "none" THEN thread[c]
                                   ELSE [thread[c] EXCEPT !.moved = TRUE]]
    /\ UNCHANGED <<lastUnread, chain, box, pollVars, printed, lastSeen>>

\* A mail arrives with the next UID of its folder.
Arrive(f, u) ==
    /\ box[f][u] = "absent"
    /\ \A v \in 1 .. u - 1 : box[f][v] # "absent"
    /\ box' = [box EXCEPT ![f][u] = "unread"]
    /\ UNCHANGED <<rowVars, pollVars, threadVars, lastSeen, moved>>

\* A mail is read, marked unread again, or removed for good.
Change(f, u, state) ==
    /\ Present(f, u)
    /\ box' = [box EXCEPT ![f][u] = state]
    /\ UNCHANGED <<rowVars, pollVars, threadVars, lastSeen, moved>>

Mailbox ==
    \E f \in Folders : \E u \in Uids(f) :
        Arrive(f, u) \/ \E state \in {"unread", "read", "gone"} : Change(f, u, state)

Next ==
    \/ Poll
    \/ \E c \in Chains : ThreadStep(c)
    \/ \E f \in Folders : UpdateFolder(f)
    \/ Mailbox

Spec == Init /\ [][Next]_vars
-----------------------------------------------------------------------------
(* Properties *)

\* The counts stand for mails as long as the folder is the same: a poll that
\* fires unread_new has seen a mail which was not unread at the last poll, one
\* that fires inbox_zero has seen the last unread mail go, and a mail that
\* comes to be unread beside those that stay so is never missed.
TriggersAreReal ==
    pc = "commit" /\ lastSeen # None /\ lastSeen.folder = seen.folder =>
        /\ "unread_new" \in Fired => seen.uids \ lastSeen.uids # {}
        /\ "inbox_zero" \in Fired <=> lastSeen.uids # {} /\ seen.uids = {}
        /\ lastSeen.uids \subseteq seen.uids /\ lastSeen.uids # seen.uids
                => "unread_new" \in Fired

\* The gate decides about one mail: unless the folder was changed during the
\* poll, a chain is started exactly if the minute lies in its window and the
\* newest unread mail satisfies its conditions, header and body of the same
\* mail, whatever happened to the mailbox between the fetches; provided that
\* the fetches succeeded.
VerdictIsMails ==
    \A c \in Chains : LET gate == chain[c].gate IN
        pc = "dispatch" /\ verdict[c] # "none" /\ ~moved /\ header # None
            /\ (ChainNeedsBody(gate) => body # None) =>
        (verdict[c] = "run" <=> /\ minute \in Allowed(gate)
                                /\ Accepts(gate, Content[seen.folder][latest]))

\* The mail that is printed is the one that triggered the chain, however late
\* its thread comes to it and whatever mails arrived or were removed; unless
\* the account was moved to another folder since the poll began.
PrintsTriggeringMail ==
    \A c \in Chains :
        printed[c] # None /\ ~thread[c].moved => printed[c] = thread[c].mail
=============================================================================
