--------------------------- MODULE ChainExecution ---------------------------
(***************************************************************************)
(* worker/worker/chain_executor.py: the background thread that runs one    *)
(* chain (poller._run, execute_chain), beside the API that edits or        *)
(* deletes the chain, its account and its steps while the thread runs.     *)
(*                                                                         *)
(* The thread works on ORM objects.  Its session expires them at every     *)
(* commit (the sessionmaker's default), so that an attribute is loaded     *)
(* again when it is read next; what is not expired is read from memory,    *)
(* however old.  chainCache and accountCache are these copies.             *)
(*                                                                         *)
(* A step is its rank in the order of positions, which the thread sorts    *)
(* once.  What a step does is left out: it takes effect and succeeds, or   *)
(* it fails.  on_error may be edited at any time, so a failed step may be  *)
(* of either kind.                                                         *)
(***************************************************************************)
EXTENDS Naturals

CONSTANTS
    Steps,          \* the steps the chain may have, by rank
    None,           \* Python's None
    RoundLimit,     \* bound of loop_max_iterations (1000 in the schema)
    MaxUnread       \* bound: unread mails in the mailbox

ASSUME StepsAssumption == Steps \subseteq Nat
ASSUME NoneAssumption == None \notin Nat \cup BOOLEAN \cup [loop : BOOLEAN, active : BOOLEAN]
ASSUME LimitAssumption == RoundLimit \in Nat \ {0} /\ MaxUnread \in Nat

VARIABLES
    (* the database *)
    chainRow,       \* is_active of the chain's row, or no row any more
    loopEnabled, loopInfinite, loopMax,     \* the chain's loop settings
    stepRows,       \* the steps that exist
    accountRow,     \* is_active of the account's row, or no row any more
    (* the IMAP server *)
    unread,
    (* the thread *)
    pc,
    steps, infinite, iterations,    \* execute_chain's locals, read once
    iteration,
    remaining,      \* the steps of this round not done yet
    fresh,          \* nothing was committed yet: the steps are still loaded
    chainCache,     \* loop_enabled and is_active in the session, or None: expired
    accountCache,   \* the account's is_active in the session, or None: expired
    (* history *)
    roundsSinceStop,    \* rounds begun since chain and account were both active
    unlogged,       \* steps of this run that took effect and are not in the log
    closings        \* CHAIN_COMPLETED and CHAIN_ABORTED rows of this run

chainVars == <<chainRow, loopEnabled, loopInfinite, loopMax, stepRows>>
rowVars == <<chainVars, accountRow>>
captured == <<steps, infinite, iterations>>
caches == <<fresh, chainCache, accountCache>>
runVars == <<captured, iteration, remaining, caches>>
reportVars == <<unlogged, closings>>
history == <<roundsSinceStop, reportVars>>
vars == <<rowVars, unread, pc, runVars, history>>

Row == {"active", "inactive", "deleted"}
InRound == {"steps", "logOk", "logFailed", "onError"}
Working == InRound \cup {"load", "top", "logAborted", "recheck", "stillActive", "completed"}
Label == Working \cup {"idle", "closed", "broken"}

TypeOK ==
    /\ chainRow \in Row /\ accountRow \in Row
    /\ loopEnabled \in BOOLEAN /\ loopInfinite \in BOOLEAN
    /\ loopMax \in 1 .. RoundLimit
    /\ stepRows \in SUBSET Steps
    /\ unread \in 0 .. MaxUnread
    /\ pc \in Label
    /\ steps \in SUBSET Steps
    /\ infinite \in BOOLEAN
    /\ iterations \in 1 .. RoundLimit \cup {None}
    /\ iteration \in 0 .. RoundLimit + 1
    /\ remaining \in SUBSET Steps
    /\ fresh \in BOOLEAN
    /\ chainCache \in [loop : BOOLEAN, active : BOOLEAN] \cup {None}
    /\ accountCache \in BOOLEAN \cup {None}
    /\ roundsSinceStop \in 0 .. 2
    /\ unlogged \in 0 .. 1 /\ closings \in 0 .. 1
-----------------------------------------------------------------------------
NoRun ==
    /\ pc = "idle"
    /\ steps = {} /\ infinite = FALSE /\ iterations = None
    /\ iteration = 0
    /\ remaining = {}
    /\ fresh = FALSE /\ chainCache = None /\ accountCache = None
    /\ roundsSinceStop = 0 /\ unlogged = 0 /\ closings = 0

Init ==
    /\ chainRow \in {"active", "inactive"}
    /\ accountRow \in {"active", "inactive"}
    /\ loopEnabled \in BOOLEAN /\ loopInfinite \in BOOLEAN
    /\ loopMax \in 1 .. RoundLimit
    /\ stepRows \in SUBSET Steps
    /\ unread \in 0 .. MaxUnread
    /\ NoRun

\* Both rows are there: an execution_logs row may refer to them, an expired
\* object may be loaded again.
RowsExist == chainRow # "deleted" /\ accountRow # "deleted"
BothActive == chainRow = "active" /\ accountRow = "active"

ChainLoaded == [loop |-> loopEnabled, active |-> chainRow = "active"]
ReadChain == IF chainCache = None THEN ChainLoaded ELSE chainCache
FirstOf(S) == CHOOSE s \in S : \A t \in S : s <= t
-----------------------------------------------------------------------------
(* poller._run *)

\* The chain matched a trigger and a thread was started for it.
Start ==
    /\ pc = "idle"
    /\ pc' = "load"
    /\ UNCHANGED <<rowVars, unread, runVars, history>>

\* Variant of Load: the cap counts the repetitions after the first round.
LoadCapPlusOne ==
    /\ pc = "load"
    /\ RowsExist
    /\ steps' = stepRows
    /\ infinite' = (loopEnabled /\ loopInfinite)
    /\ iterations' = IF loopEnabled /\ ~loopInfinite THEN loopMax + 1 ELSE None
    /\ fresh' = TRUE
    /\ chainCache' = ChainLoaded
    /\ accountCache' = (accountRow = "active")
    /\ pc' = "top"
    /\ UNCHANGED <<rowVars, unread, iteration, remaining, history>>

\* db.get of the chain with its steps and of the account; is_active is not
\* looked at.  execute_chain captures the steps and the kind of the loop.
Load ==
    /\ pc = "load"
    /\ RowsExist
    /\ steps' = stepRows
    /\ infinite' = (loopEnabled /\ loopInfinite)
    /\ iterations' = IF loopEnabled /\ ~loopInfinite THEN loopMax ELSE None
    /\ fresh' = TRUE
    /\ chainCache' = ChainLoaded
    /\ accountCache' = (accountRow = "active")
    /\ pc' = "top"
    /\ UNCHANGED <<rowVars, unread, iteration, remaining, history>>

\* The chain or its account is gone: nothing is executed, nothing is logged.
LoadNothing ==
    /\ pc = "load"
    /\ ~RowsExist
    /\ pc' = "broken"
    /\ UNCHANGED <<rowVars, unread, runVars, history>>

-----------------------------------------------------------------------------
(* execute_chain *)

\* Variant of CapReached: off by one.
CapExceeded == iterations # None /\ iteration > iterations

CapReached == iterations # None /\ iteration >= iterations

BeginRound ==
    /\ pc = "top"
    /\ ~CapReached
    /\ remaining' = steps
    /\ pc' = "steps"
    /\ roundsSinceStop' = IF BothActive THEN 0
                          ELSE IF roundsSinceStop = 2 THEN 2 ELSE roundsSinceStop + 1
    /\ UNCHANGED <<rowVars, unread, captured, iteration, caches, reportVars>>

StopAtCap ==
    /\ pc = "top"
    /\ CapReached
    /\ pc' = "completed"
    /\ UNCHANGED <<rowVars, unread, runVars, history>>

\* _execute_step of the next step, which is in memory or loaded again; it
\* succeeds, or an exception is caught.
ExecuteStep ==
    /\ pc = "steps"
    /\ remaining # {}
    /\ fresh \/ FirstOf(remaining) \in stepRows
    /\ pc' \in {"logOk", "logFailed"}
    /\ unlogged' = unlogged + 1
    /\ UNCHANGED <<rowVars, unread, runVars, roundsSinceStop, closings>>

\* _log of the step: the row refers to account, chain and step.
LogStep ==
    /\ pc \in {"logOk", "logFailed"}
    /\ RowsExist
    /\ FirstOf(remaining) \in stepRows
    /\ IF pc = "logOk"
       THEN /\ pc' = "steps"
            /\ remaining' = remaining \ {FirstOf(remaining)}
       ELSE /\ pc' = "onError"
            /\ UNCHANGED remaining
    /\ fresh' = FALSE /\ chainCache' = None /\ accountCache' = None
    /\ unlogged' = unlogged - 1
    /\ UNCHANGED <<rowVars, unread, captured, iteration, roundsSinceStop, closings>>

\* Variant of ContinueOnError: the failed step is tried again.
RetryOnError ==
    /\ pc = "onError"
    /\ FirstOf(remaining) \in stepRows
    /\ pc' = "steps"
    /\ UNCHANGED <<rowVars, unread, runVars, history>>

\* step.on_error is loaded again, and is what it was edited to meanwhile.
ContinueOnError ==
    /\ pc = "onError"
    /\ FirstOf(remaining) \in stepRows
    /\ remaining' = remaining \ {FirstOf(remaining)}
    /\ pc' = "steps"
    /\ UNCHANGED <<rowVars, unread, captured, iteration, caches, history>>

AbortOnError ==
    /\ pc = "onError"
    /\ FirstOf(remaining) \in stepRows
    /\ pc' = "logAborted"
    /\ UNCHANGED <<rowVars, unread, runVars, history>>

\* Variant of LogAborted: the steps after the failed one are still executed.
LogAbortedContinues ==
    /\ pc = "logAborted"
    /\ RowsExist
    /\ fresh' = FALSE /\ chainCache' = None /\ accountCache' = None
    /\ pc' = "steps"
    /\ closings' = closings + 1
    /\ UNCHANGED <<rowVars, unread, captured, iteration, remaining, roundsSinceStop, unlogged>>

\* CHAIN_ABORTED is logged and execute_chain returns.
LogAborted ==
    /\ pc = "logAborted"
    /\ RowsExist
    /\ fresh' = FALSE /\ chainCache' = None /\ accountCache' = None
    /\ pc' = "closed"
    /\ closings' = closings + 1
    /\ UNCHANGED <<rowVars, unread, captured, iteration, remaining, roundsSinceStop, unlogged>>

\* Variant of EndRound: the rounds are not counted.
EndRoundUncounted ==
    /\ pc = "steps"
    /\ remaining = {}
    /\ chainCache # None \/ chainRow # "deleted"
    /\ chainCache' = ReadChain
    /\ pc' = IF ReadChain.loop THEN "recheck" ELSE "completed"
    /\ UNCHANGED <<rowVars, unread, captured, iteration, remaining, fresh, accountCache, history>>

\* The round is counted and chain.loop_enabled read: from memory if nothing
\* was committed since it was loaded.  Unlike infinite and iterations it is
\* the value of now.  The counter of an uncapped run stops above RoundLimit.
EndRound ==
    /\ pc = "steps"
    /\ remaining = {}
    /\ chainCache # None \/ chainRow # "deleted"
    /\ iteration' = IF iterations = None /\ iteration > RoundLimit
                    THEN iteration ELSE iteration + 1
    /\ chainCache' = ReadChain
    /\ LET isLast == iterations # None /\ iteration + 1 >= iterations
       IN  pc' = IF ~ReadChain.loop THEN "completed"
                 ELSE IF isLast THEN "top" ELSE "recheck"
    /\ UNCHANGED <<rowVars, unread, captured, remaining, fresh, accountCache, history>>

\* Variant of Recheck: zero unread mails are not looked at.
RecheckIgnored(zero) ==
    /\ pc = "recheck"
    /\ pc' = IF infinite THEN "stillActive" ELSE "top"
    /\ UNCHANGED <<rowVars, unread, runVars, history>>

\* After loop_pause_seconds, _recheck_unread_count asks the mailbox; without
\* an answer (None) the loop goes on.  Only an infinite run asks whether it is
\* still active.
Recheck(zero) ==
    /\ pc = "recheck"
    /\ accountCache # None \/ accountRow # "deleted"
    /\ accountCache' = IF accountCache = None THEN accountRow = "active" ELSE accountCache
    /\ pc' = IF zero THEN "completed" ELSE IF infinite THEN "stillActive" ELSE "top"
    /\ UNCHANGED <<rowVars, unread, captured, iteration, remaining, fresh, chainCache, history>>

RecheckCount == Recheck(unread = 0)
RecheckFails == Recheck(FALSE)

\* Variant of CheckActive: the flags are read without being expired.
CheckActiveCached ==
    /\ pc = "stillActive"
    /\ pc' = IF chainCache.active /\ accountCache THEN "top" ELSE "completed"
    /\ UNCHANGED <<rowVars, unread, runVars, history>>

\* Variant of CheckActive: the flag of the account alone is read again.
CheckAccountOnly ==
    /\ pc = "stillActive"
    /\ accountRow # "deleted"
    /\ accountCache' = (accountRow = "active")
    /\ pc' = IF accountCache' THEN "top" ELSE "completed"
    /\ UNCHANGED <<rowVars, unread, captured, iteration, remaining, fresh, chainCache, history>>

\* _still_active expires both flags and reads them again.
CheckActive ==
    /\ pc = "stillActive"
    /\ RowsExist
    /\ chainCache' = [chainCache EXCEPT !.active = (chainRow = "active")]
    /\ accountCache' = (accountRow = "active")
    /\ pc' = IF chainCache'.active /\ accountCache' THEN "top" ELSE "completed"
    /\ UNCHANGED <<rowVars, unread, captured, iteration, remaining, fresh, history>>

\* CHAIN_COMPLETED is logged.
LogCompleted ==
    /\ pc = "completed"
    /\ RowsExist
    /\ fresh' = FALSE /\ chainCache' = None /\ accountCache' = None
    /\ pc' = "closed"
    /\ closings' = closings + 1
    /\ UNCHANGED <<rowVars, unread, captured, iteration, remaining, roundsSinceStop, unlogged>>

\* An exception leaves execute_chain: a row it refers to is gone, the database
\* is away, or the recheck failed with another error than ImapConnectionError.
RunRaises ==
    /\ pc \in Working \ {"top"}
    /\ pc' = "broken"
    /\ UNCHANGED <<rowVars, unread, runVars, history>>

\* The finally clause of _run; the thread ends.
Finish ==
    /\ pc \in {"closed", "broken"}
    /\ pc' = "idle"
    /\ steps' = {} /\ infinite' = FALSE /\ iterations' = None
    /\ iteration' = 0
    /\ remaining' = {}
    /\ fresh' = FALSE /\ chainCache' = None /\ accountCache' = None
    /\ roundsSinceStop' = 0 /\ unlogged' = 0 /\ closings' = 0
    /\ UNCHANGED <<rowVars, unread>>

\* The worker dies; its threads are gone.
WorkerRestart ==
    /\ pc # "idle"
    /\ pc' = "idle"
    /\ steps' = {} /\ infinite' = FALSE /\ iterations' = None
    /\ iteration' = 0
    /\ remaining' = {}
    /\ fresh' = FALSE /\ chainCache' = None /\ accountCache' = None
    /\ roundsSinceStop' = 0 /\ unlogged' = 0 /\ closings' = 0
    /\ UNCHANGED <<rowVars, unread>>

RunStep ==
    \/ Load \/ LoadNothing \/ BeginRound \/ StopAtCap
    \/ ExecuteStep \/ LogStep \/ ContinueOnError \/ AbortOnError \/ LogAborted
    \/ EndRound \/ RecheckCount \/ RecheckFails \/ CheckActive
    \/ LogCompleted \/ RunRaises \/ Finish
-----------------------------------------------------------------------------
(* The API and the mailbox *)

CountAgain(active) == roundsSinceStop' = IF active THEN 0 ELSE roundsSinceStop

\* PATCH /action-chains/{id}.
UpdateChain(state, enabled, forever, max) ==
    /\ chainRow # "deleted"
    /\ chainRow' = state
    /\ loopEnabled' = enabled
    /\ loopInfinite' = forever
    /\ loopMax' = max
    /\ CountAgain(state = "active" /\ accountRow = "active")
    /\ UNCHANGED <<stepRows, accountRow, unread, pc, runVars, reportVars>>

\* DELETE /action-chains/{id}: its steps go with it.
DeleteChain ==
    /\ chainRow # "deleted"
    /\ chainRow' = "deleted"
    /\ stepRows' = {}
    /\ UNCHANGED <<loopEnabled, loopInfinite, loopMax, accountRow, unread, pc, runVars, history>>

\* POST and DELETE of a step.
CreateStep(s) ==
    /\ chainRow # "deleted"
    /\ s \notin stepRows \cup steps
    /\ \A t \in stepRows : t < s
    /\ stepRows' = stepRows \cup {s}
    /\ UNCHANGED <<chainRow, loopEnabled, loopInfinite, loopMax, accountRow, unread, pc,
                   runVars, history>>

DeleteStep(s) ==
    /\ s \in stepRows
    /\ stepRows' = stepRows \ {s}
    /\ UNCHANGED <<chainRow, loopEnabled, loopInfinite, loopMax, accountRow, unread, pc,
                   runVars, history>>

\* PATCH /accounts/{id}.
UpdateAccount(state) ==
    /\ accountRow # "deleted"
    /\ accountRow' = state
    /\ CountAgain(state = "active" /\ chainRow = "active")
    /\ UNCHANGED <<chainVars, unread, pc, runVars, reportVars>>

\* DELETE /accounts/{id}: its chains and their steps go with it.
DeleteAccount ==
    /\ accountRow # "deleted"
    /\ accountRow' = "deleted"
    /\ chainRow' = "deleted"
    /\ stepRows' = {}
    /\ UNCHANGED <<loopEnabled, loopInfinite, loopMax, unread, pc, runVars, history>>

MailboxChanges(n) ==
    /\ unread' = n
    /\ UNCHANGED <<rowVars, pc, runVars, history>>

Api ==
    \/ \E state \in {"active", "inactive"}, enabled, forever \in BOOLEAN, max \in 1 .. RoundLimit :
            UpdateChain(state, enabled, forever, max)
    \/ DeleteChain
    \/ \E s \in Steps : CreateStep(s) \/ DeleteStep(s)
    \/ \E state \in {"active", "inactive"} : UpdateAccount(state)
    \/ DeleteAccount

Next ==
    \/ Start \/ RunStep \/ WorkerRestart
    \/ Api
    \/ \E n \in 0 .. MaxUnread : MailboxChanges(n)

Spec == Init /\ [][Next]_vars
-----------------------------------------------------------------------------
(* Properties *)

\* A run that was started with a cap begins no round beyond it, whatever is
\* done to the loop settings meanwhile.
IterationCap ==
    iterations # None =>
        /\ iteration <= iterations
        /\ pc \in InRound => iteration < iterations

\* A running infinite loop is stopped by deactivating the chain or its
\* account: at most one round begins after that, although the flags are read
\* through a session that keeps old copies.
StopsAfterOneRound == infinite => roundsSinceStop <= 1

\* How far a run with a cap is from its end: the rounds left, the stage of the
\* round, the steps left, the statement for this step.
RoundsLeft == iterations - iteration

Stage ==
    IF pc \in InRound THEN 1
    ELSE IF pc = "top" THEN 2
    ELSE IF pc \in {"recheck", "stillActive"} THEN 3
    ELSE 0

Statement ==
    IF pc = "steps" THEN 3
    ELSE IF pc \in {"logOk", "logFailed", "completed", "logAborted"} THEN 2
    ELSE 1

\* Each statement of a capped run brings it nearer to its end, in the
\* lexicographic order of the four, whatever steps fail and whatever is edited
\* meanwhile: the run has only so many statements.
CappedRunDescends ==
    [][iterations # None /\ pc' \notin {pc, "idle"} =>
        \/ RoundsLeft' < RoundsLeft
        \/ RoundsLeft' = RoundsLeft /\ Stage' < Stage
        \/ RoundsLeft' = RoundsLeft /\ Stage' = Stage
            /\ remaining' \subseteq remaining /\ remaining' # remaining
        \/ RoundsLeft' = RoundsLeft /\ Stage' = Stage
            /\ remaining' = remaining /\ Statement' < Statement]_vars

\* The run keeps the promise of module RunReport.
Report == INSTANCE RunReport WITH
    running <- pc # "idle", unreported <- unlogged, closed <- closings

ReportSpec == Report!Spec
-----------------------------------------------------------------------------
(* Fairness and liveness *)

\* The thread is scheduled; steps, pauses and the server's answers end.
\* An inbox that is asked again and again is reached at some time.
Fairness == WF_vars(RunStep) /\ SF_vars(RecheckCount)

FairSpec == Spec /\ Fairness

\* A run with a cap ends.
CappedRunEnds == (pc # "idle" /\ iterations # None) ~> pc = "idle"

\* An infinite run ends once its chain or account stays deactivated.
DeactivationEndsLoop ==
    <>[]~BothActive => [](pc # "idle" /\ infinite => <>(pc = "idle"))

\* Every run ends once the inbox stays at zero unread mails.
InboxZeroEndsLoop == <>[](unread = 0) => []<>(pc = "idle")

\* README: the chain is repeated with a fixed upper limit or, as an infinite
\* loop, until it is deactivated.  A run that is not infinite, by the setting
\* it started with or by the one of now, has no more than RoundLimit rounds.
RepeatsHaveLimit ==
    infinite \/ (loopEnabled /\ loopInfinite) \/ iteration <= RoundLimit
=============================================================================
