------------------------------- MODULE Poller -------------------------------
(***************************************************************************)
(* worker/worker/poller.py: what happens when several threads of the       *)
(* worker poll the same accounts.  A poller is a thread that may call      *)
(* poll_account: the tick loop's to_thread threads and the IDLE watchers.  *)
(* Each poll takes the lock of its account, reads the last known count,    *)
(* asks the IMAP server, commits the new baseline with the detection rows, *)
(* and dispatches the matching chains before it releases the lock.         *)
(*                                                                         *)
(* Left out: log text, mail subjects and bodies, the time window and the   *)
(* conditions of a chain (any chain may be skipped: SkipChain), and what a *)
(* chain does once its thread runs (module ChainExecution).                *)
(***************************************************************************)
EXTENDS TriggerDetector     \* None, TriggerType, DetectTransitions

CONSTANTS
    Accounts,
    Chains,
    Pollers,        \* threads that may call poll_account
    ChainAccount,   \* the account each chain belongs to (never updated)
    MaxUnread,      \* bound: unread mails in a mailbox
    CountWindow     \* bound: detections are counted modulo CountWindow

ASSUME ChainAssumption == ChainAccount \in [Chains -> Accounts]
ASSUME NoneOutside == None \notin Pollers \cup Accounts
ASSUME BoundAssumption == MaxUnread \in Nat /\ CountWindow \in Nat \ {0, 1}

VARIABLES
    (* the database *)
    accountRow,     \* is_active of the account's row, or no row any more
    lastUnread,     \* account_state.last_unread_count
    lastError,      \* account_state.last_error is set
    chainRow,       \* the trigger an active chain answers to, or its absence
    triggerLog,     \* TRIGGER_DETECTED rows of the account's latest detection
    triggerCount,   \* detections of the account, modulo CountWindow
    (* the IMAP server *)
    unread,
    (* memory of the worker process *)
    accountLock,    \* _account_locks: the holder, or None
    runningChainIds,    \* _running_chain_ids
    chainThreads,   \* threads inside _run, per chain
    (* the call poll_account(db, account) of each poller *)
    pc, account, previousCount, snapshot,
    todo,           \* matching_chains not handled yet
    expired         \* a commit of this handler expired its ORM objects

dbVars == <<accountRow, lastUnread, lastError, chainRow, triggerLog, triggerCount>>
threadVars == <<runningChainIds, chainThreads>>
localVars == <<previousCount, snapshot, todo, expired>>
vars == <<dbVars, unread, accountLock, threadVars, pc, account, localVars>>

Counts == 0 .. MaxUnread
Inside == {"read", "fetch", "commit", "handler", "dispatch", "leave"}
Raising == Inside \ {"leave"}

TypeOK ==
    /\ accountRow \in [Accounts -> {"active", "inactive", "deleted"}]
    /\ lastUnread \in [Accounts -> Counts \cup {None}]
    /\ lastError \in [Accounts -> BOOLEAN]
    /\ chainRow \in [Chains -> TriggerType \cup {"inactive", "deleted"}]
    /\ triggerLog \in [Accounts -> SUBSET
            [trigger : TriggerType, previous : Counts, current : Counts]]
    /\ triggerCount \in [Accounts -> 0 .. CountWindow - 1]
    /\ unread \in [Accounts -> Counts]
    /\ accountLock \in [Accounts -> Pollers \cup {None}]
    /\ runningChainIds \in SUBSET Chains
    /\ chainThreads \in [Chains -> Nat]
    /\ pc \in [Pollers -> {"idle", "lock"} \cup Inside]
    /\ account \in [Pollers -> Accounts \cup {None}]
    /\ previousCount \in [Pollers -> Counts \cup {None}]
    /\ snapshot \in [Pollers -> Counts \cup {None}]
    /\ todo \in [Pollers -> SUBSET Chains]
    /\ expired \in [Pollers -> BOOLEAN]
-----------------------------------------------------------------------------
\* A worker process that has just started: no lock, no thread, no call.
MemoryEmpty ==
    /\ accountLock = [a \in Accounts |-> None]
    /\ runningChainIds = {}
    /\ chainThreads = [c \in Chains |-> 0]
    /\ pc = [p \in Pollers |-> "idle"]
    /\ account = [p \in Pollers |-> None]
    /\ previousCount = [p \in Pollers |-> None]
    /\ snapshot = [p \in Pollers |-> None]
    /\ todo = [p \in Pollers |-> {}]
    /\ expired = [p \in Pollers |-> FALSE]

\* Freshly created accounts; an inactive row also stands for one that is
\* created later, since neither the worker nor its queries see either.
Init ==
    /\ accountRow \in [Accounts -> {"active", "inactive"}]
    /\ lastUnread = [a \in Accounts |-> None]
    /\ lastError = [a \in Accounts |-> FALSE]
    /\ chainRow \in [Chains -> TriggerType \cup {"inactive"}]
    /\ triggerLog = [a \in Accounts |-> {}]
    /\ triggerCount = [a \in Accounts |-> 0]
    /\ unread \in [Accounts -> Counts]
    /\ MemoryEmpty

Goto(p, label) == pc' = [pc EXCEPT ![p] = label]
Exists(a) == accountRow[a] # "deleted"
Detected(p) == DetectTransitions(previousCount[p], snapshot[p])
-----------------------------------------------------------------------------
(* poll_account *)

\* main._poll_if_due / IdleWatcher._poll_once: the active account was loaded
\* and poll_account is called with it.
BeginPoll(p, a) ==
    /\ pc[p] = "idle"
    /\ accountRow[a] = "active"
    /\ account' = [account EXCEPT ![p] = a]
    /\ Goto(p, "lock")
    /\ UNCHANGED <<dbVars, unread, accountLock, threadVars, localVars>>

\* Variant of Acquire: poll_account without the with block.
AcquireUnlocked(p) ==
    /\ pc[p] = "lock"
    /\ accountLock' = [accountLock EXCEPT ![account[p]] = p]
    /\ Goto(p, "read")
    /\ UNCHANGED <<dbVars, unread, threadVars, account, localVars>>

\* with _account_lock(account.id): entered once the lock is free.
Acquire(p) ==
    /\ pc[p] = "lock"
    /\ accountLock[account[p]] = None
    /\ accountLock' = [accountLock EXCEPT ![account[p]] = p]
    /\ Goto(p, "read")
    /\ UNCHANGED <<dbVars, unread, threadVars, account, localVars>>

\* db.get(AccountState, account.id), or a new row without a count.
ReadState(p) ==
    /\ pc[p] = "read"
    /\ previousCount' = [previousCount EXCEPT ![p] = lastUnread[account[p]]]
    /\ Goto(p, "fetch")
    /\ UNCHANGED <<dbVars, unread, accountLock, threadVars, account, snapshot, todo, expired>>

\* Variant of FetchOk: off by one.
FetchOffByOne(p) ==
    /\ pc[p] = "fetch"
    /\ snapshot' = [snapshot EXCEPT ![p] = unread[account[p]] + 1]
    /\ Goto(p, "commit")
    /\ UNCHANGED <<dbVars, unread, accountLock, threadVars, account, previousCount, todo, expired>>

\* fetch_snapshot: the server counts the unseen mails of the folder.
FetchOk(p) ==
    /\ pc[p] = "fetch"
    /\ snapshot' = [snapshot EXCEPT ![p] = unread[account[p]]]
    /\ Goto(p, "commit")
    /\ UNCHANGED <<dbVars, unread, accountLock, threadVars, account, previousCount, todo, expired>>

\* except ImapConnectionError: the error is stored, the baseline is not touched.
FetchFailed(p) ==
    /\ pc[p] = "fetch"
    /\ Exists(account[p])
    /\ lastError' = [lastError EXCEPT ![account[p]] = TRUE]
    /\ Goto(p, "leave")
    /\ UNCHANGED <<accountRow, lastUnread, chainRow, triggerLog, triggerCount,
                   unread, accountLock, threadVars, account, localVars>>

\* Variant of CommitSnapshot: the detection rows are forgotten.
CommitWithoutRows(p) ==
    /\ pc[p] = "commit"
    /\ Exists(account[p])
    /\ lastUnread' = [lastUnread EXCEPT ![account[p]] = snapshot[p]]
    /\ lastError' = [lastError EXCEPT ![account[p]] = FALSE]
    /\ Goto(p, IF Detected(p) = {} THEN "leave" ELSE "handler")
    /\ UNCHANGED <<accountRow, chainRow, triggerLog, triggerCount, unread,
                   accountLock, threadVars, account, localVars>>

\* Variant of CommitSnapshot: a poll that detects nothing stores nothing.
CommitOnDetection(p) ==
    /\ Detected(p) = {} => Goto(p, "leave") /\ UNCHANGED dbVars
    /\ Detected(p) # {} => CommitWithoutRows(p)
    /\ pc[p] = "commit"
    /\ UNCHANGED <<unread, accountLock, threadVars, account, localVars>>

\* detect_transitions, the new baseline and the TRIGGER_DETECTED rows in one
\* commit.  The commit of a deleted account's state raises (PollRaises).
CommitSnapshot(p) ==
    LET a == account[p]
    IN  /\ pc[p] = "commit"
        /\ Exists(a)
        /\ lastUnread' = [lastUnread EXCEPT ![a] = snapshot[p]]
        /\ lastError' = [lastError EXCEPT ![a] = FALSE]
        /\ IF Detected(p) = {}
           THEN /\ Goto(p, "leave")
                /\ UNCHANGED <<triggerLog, triggerCount>>
           ELSE /\ Goto(p, "handler")
                /\ triggerLog' = [triggerLog EXCEPT ![a] =
                        {[trigger |-> t, previous |-> previousCount[p],
                          current |-> snapshot[p]] : t \in Detected(p)}]
                /\ triggerCount' = [triggerCount EXCEPT ![a] =
                        IF @ + 1 = CountWindow THEN 0 ELSE @ + 1]
        /\ UNCHANGED <<accountRow, chainRow, unread, accountLock, threadVars, account, localVars>>

-----------------------------------------------------------------------------
(* _default_trigger_handler *)

\* The commit expired the account: a deleted one raises on account.id.
QueryChains(p) ==
    /\ pc[p] = "handler"
    /\ Exists(account[p])
    /\ todo' = [todo EXCEPT ![p] =
            {c \in Chains : ChainAccount[c] = account[p] /\ chainRow[c] \in Detected(p)}]
    /\ Goto(p, "dispatch")
    /\ UNCHANGED <<dbVars, unread, accountLock, threadVars, account,
                   previousCount, snapshot, expired>>

\* Outside the time window or conditions not met: _skip_chain commits a row
\* that refers to the chain, and the commit expires the remaining chains.
SkipChain(p, c) ==
    /\ pc[p] = "dispatch"
    /\ c \in todo[p]
    /\ chainRow[c] # "deleted"
    /\ todo' = [todo EXCEPT ![p] = @ \ {c}]
    /\ expired' = [expired EXCEPT ![p] = TRUE]
    /\ UNCHANGED <<dbVars, unread, accountLock, threadVars, pc, account,
                   previousCount, snapshot>>

\* The chain's attributes are still in the session, or can be loaded again.
Readable(p, c) == expired[p] => chainRow[c] # "deleted"

\* Variant of StartChain: the running chains are not looked at.
StartChainAgain(p, c) ==
    /\ pc[p] = "dispatch"
    /\ c \in todo[p]
    /\ Readable(p, c)
    /\ todo' = [todo EXCEPT ![p] = @ \ {c}]
    /\ runningChainIds' = runningChainIds \cup {c}
    /\ chainThreads' = [chainThreads EXCEPT ![c] = @ + 1]
    /\ UNCHANGED <<dbVars, unread, accountLock, pc, account,
                   previousCount, snapshot, expired>>

\* _run_chain_in_background: a thread is started unless the chain runs.
StartChain(p, c) ==
    /\ pc[p] = "dispatch"
    /\ c \in todo[p]
    /\ Readable(p, c)
    /\ todo' = [todo EXCEPT ![p] = @ \ {c}]
    /\ IF c \in runningChainIds
       THEN UNCHANGED threadVars
       ELSE /\ runningChainIds' = runningChainIds \cup {c}
            /\ chainThreads' = [chainThreads EXCEPT ![c] = @ + 1]
    /\ UNCHANGED <<dbVars, unread, accountLock, pc, account,
                   previousCount, snapshot, expired>>

\* Thread.start() raises after the id was added; the handler's exception is
\* swallowed by _poll_account_locked and the other chains are not handled.
StartThreadFails(p, c) ==
    /\ pc[p] = "dispatch"
    /\ c \in todo[p]
    /\ Readable(p, c)
    /\ c \notin runningChainIds
    /\ runningChainIds' = runningChainIds \cup {c}
    /\ Goto(p, "leave")
    /\ UNCHANGED <<dbVars, unread, accountLock, chainThreads, account, localVars>>

DispatchDone(p) ==
    /\ pc[p] = "dispatch"
    /\ todo[p] = {}
    /\ Goto(p, "leave")
    /\ UNCHANGED <<dbVars, unread, accountLock, threadVars, account, localVars>>

-----------------------------------------------------------------------------
\* Variant of PollRaises: the lock is released on the normal path only.
RaiseKeepsLock(p) ==
    /\ pc[p] \in Raising
    /\ account' = [account EXCEPT ![p] = None]
    /\ previousCount' = [previousCount EXCEPT ![p] = None]
    /\ snapshot' = [snapshot EXCEPT ![p] = None]
    /\ todo' = [todo EXCEPT ![p] = {}]
    /\ expired' = [expired EXCEPT ![p] = FALSE]
    /\ Goto(p, "idle")
    /\ UNCHANGED <<dbVars, unread, accountLock, threadVars>>

\* Any statement of the poll may raise: an error of imaplib that is no
\* ImapConnectionError, a failed decrypt, a database error, an object deleted
\* meanwhile.  The transaction is rolled back and the with block is left.
PollRaises(p) ==
    /\ pc[p] \in Raising
    /\ Goto(p, "leave")
    /\ UNCHANGED <<dbVars, unread, accountLock, threadVars, account, localVars>>

\* The with block releases the lock, the call's locals are gone.
Leave(p) ==
    /\ pc[p] = "leave"
    /\ accountLock' = [accountLock EXCEPT ![account[p]] = None]
    /\ account' = [account EXCEPT ![p] = None]
    /\ previousCount' = [previousCount EXCEPT ![p] = None]
    /\ snapshot' = [snapshot EXCEPT ![p] = None]
    /\ todo' = [todo EXCEPT ![p] = {}]
    /\ expired' = [expired EXCEPT ![p] = FALSE]
    /\ Goto(p, "idle")
    /\ UNCHANGED <<dbVars, unread, threadVars>>

Dispatch(p) ==
    \/ \E c \in Chains : SkipChain(p, c) \/ StartChain(p, c) \/ StartThreadFails(p, c)
    \/ DispatchDone(p)

PollStep(p) ==
    \/ Acquire(p) \/ ReadState(p) \/ FetchOk(p) \/ FetchFailed(p)
    \/ CommitSnapshot(p) \/ QueryChains(p) \/ Dispatch(p)
    \/ PollRaises(p) \/ Leave(p)
-----------------------------------------------------------------------------
(* The rest of the system *)

\* _run ends, whatever execute_chain did: the finally clause discards the id.
ThreadExit(c) ==
    /\ chainThreads[c] > 0
    /\ chainThreads' = [chainThreads EXCEPT ![c] = @ - 1]
    /\ runningChainIds' = runningChainIds \ {c}
    /\ UNCHANGED <<dbVars, unread, accountLock, pc, account, localVars>>

\* The worker dies and is started again: its memory is empty, the database stays.
WorkerRestart ==
    /\ accountLock' = [a \in Accounts |-> None]
    /\ runningChainIds' = {}
    /\ chainThreads' = [c \in Chains |-> 0]
    /\ pc' = [p \in Pollers |-> "idle"]
    /\ account' = [p \in Pollers |-> None]
    /\ previousCount' = [p \in Pollers |-> None]
    /\ snapshot' = [p \in Pollers |-> None]
    /\ todo' = [p \in Pollers |-> {}]
    /\ expired' = [p \in Pollers |-> FALSE]
    /\ UNCHANGED <<dbVars, unread>>

\* PATCH /accounts/{id}: is_active is set.
UpdateAccount(a, state) ==
    /\ Exists(a)
    /\ accountRow' = [accountRow EXCEPT ![a] = state]
    /\ UNCHANGED <<lastUnread, lastError, chainRow, triggerLog, triggerCount,
                   unread, accountLock, threadVars, pc, account, localVars>>

\* DELETE /accounts/{id}: its state and its chains are deleted with it.
DeleteAccount(a) ==
    /\ Exists(a)
    /\ accountRow' = [accountRow EXCEPT ![a] = "deleted"]
    /\ lastUnread' = [lastUnread EXCEPT ![a] = None]
    /\ lastError' = [lastError EXCEPT ![a] = FALSE]
    /\ chainRow' = [c \in Chains |-> IF ChainAccount[c] = a THEN "deleted" ELSE chainRow[c]]
    /\ UNCHANGED <<triggerLog, triggerCount, unread, accountLock, threadVars,
                   pc, account, localVars>>

\* PATCH /action-chains/{id}: is_active or trigger_type is set.
UpdateChain(c, state) ==
    /\ chainRow[c] # "deleted"
    /\ chainRow' = [chainRow EXCEPT ![c] = state]
    /\ UNCHANGED <<accountRow, lastUnread, lastError, triggerLog, triggerCount,
                   unread, accountLock, threadVars, pc, account, localVars>>

\* DELETE /action-chains/{id}.
DeleteChain(c) ==
    /\ chainRow[c] # "deleted"
    /\ chainRow' = [chainRow EXCEPT ![c] = "deleted"]
    /\ UNCHANGED <<accountRow, lastUnread, lastError, triggerLog, triggerCount,
                   unread, accountLock, threadVars, pc, account, localVars>>

\* The mailbox: mails arrive, are read, or are marked unread again.
MailboxChanges(a, n) ==
    /\ unread' = [unread EXCEPT ![a] = n]
    /\ UNCHANGED <<dbVars, accountLock, threadVars, pc, account, localVars>>

Api ==
    \/ \E a \in Accounts : \/ \E s \in {"active", "inactive"} : UpdateAccount(a, s)
                           \/ DeleteAccount(a)
    \/ \E c \in Chains : \/ \E s \in TriggerType \cup {"inactive"} : UpdateChain(c, s)
                         \/ DeleteChain(c)

Next ==
    \/ \E p \in Pollers : PollStep(p) \/ \E a \in Accounts : BeginPoll(p, a)
    \/ \E c \in Chains : ThreadExit(c)
    \/ WorkerRestart
    \/ Api
    \/ \E a \in Accounts, n \in Counts : MailboxChanges(a, n)

Spec == Init /\ [][Next]_vars
-----------------------------------------------------------------------------
(* Properties *)

\* A poll is inside the section of its account exactly while it holds the
\* lock: no path out of poll_account, an exception included, keeps the lock or
\* gives back that of another poll.
LockHeldInside ==
    \A p \in Pollers, a \in Accounts :
        accountLock[a] = p <=> (account[p] = a /\ pc[p] \in Inside)

\* Between the read of the state row and its commit the count that was read is
\* the one stored (an IDLE poll and the safety poll do not both compare with
\* the same old count), and while the chains are dispatched the stored count
\* is the one that fired them; unless the account was deleted meanwhile.
BaselineCurrent ==
    \A p \in Pollers :
        \/ pc[p] \in {"fetch", "commit"} /\ lastUnread[account[p]] = previousCount[p]
        \/ pc[p] \in {"handler", "dispatch"} /\ lastUnread[account[p]] = snapshot[p]
        \/ pc[p] \in {"idle", "lock", "read", "leave"}
        \/ ~Exists(account[p])

\* Chains are dispatched only for a transition that is in the log as the
\* latest detection of the account: a crash may lose a dispatch that was
\* logged, never the log row of a dispatch.
DispatchIsLogged ==
    \A p \in Pollers : pc[p] \in {"handler", "dispatch"} =>
        /\ Detected(p) # {}
        /\ \A t \in Detected(p) :
            [trigger |-> t, previous |-> previousCount[p], current |-> snapshot[p]]
                \in triggerLog[account[p]]

\* A chain never runs on two threads, and a running one is in
\* _running_chain_ids, whatever triggers fire while it runs.
SingleExecution ==
    \A c \in Chains : /\ chainThreads[c] <= 1
                      /\ chainThreads[c] = 1 => c \in runningChainIds

\* The poller keeps the ledger of module AccountTriggers: all polls of an
\* account, from whatever thread, form one history of counts in which every
\* two consecutive counts are compared exactly once, across failed polls,
\* concurrent polls, deletions and restarts of the worker.
Ledger == INSTANCE AccountTriggers WITH
    baseline <- lastUnread, detection <- triggerLog, detected <- triggerCount

LedgerSpec == Ledger!Spec
-----------------------------------------------------------------------------
(* Fairness and liveness *)

\* Every statement of a poll ends: the thread is scheduled, the IMAP server
\* answers or the connection breaks, the database answers.  A thread waiting
\* for a lock that is released again and again gets it at some time.
PollsProgress ==
    \A p \in Pollers : WF_vars(PollStep(p)) /\ SF_vars(Acquire(p))

\* The tick loop polls every active account again and again, and errors pass:
\* what is tried infinitely often succeeds infinitely often.
PollsRecur ==
    /\ \A a \in Accounts : SF_vars(\E p \in Pollers : BeginPoll(p, a))
    /\ SF_vars(\E p \in Pollers : ReadState(p))
    /\ SF_vars(\E p \in Pollers : FetchOk(p))
    /\ SF_vars(\E p \in Pollers : CommitSnapshot(p))

FairSpec == Spec /\ PollsProgress /\ PollsRecur

\* No poll is stuck: neither an exception nor a poll of another thread leaves
\* it waiting for a lock nobody releases.
PollTerminates == \A p \in Pollers : pc[p] # "idle" ~> pc[p] = "idle"

\* Once the mailbox of an active account is quiet and the worker no longer
\* restarts, the stored count becomes the true one and stays it: no stale
\* snapshot of a slow poll overwrites a newer one for good.
Quiet(a, n) == accountRow[a] = "active" /\ unread[a] = n

BaselineConverges ==
    <>[][~WorkerRestart]_vars =>
        \A a \in Accounts, n \in Counts :
            <>[]Quiet(a, n) => <>[](lastUnread[a] = n)
=============================================================================
