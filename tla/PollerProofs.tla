---------------------------- MODULE PollerProofs ----------------------------
(***************************************************************************)
(* Poller for any number of accounts, chains and polling threads: its      *)
(* safety invariants, that it keeps the ledger of AccountTriggers, and the *)
(* descent of a poll to its end.                                           *)
(***************************************************************************)
EXTENDS Poller, TLAPS

\* A call that has begun knows its account, and its snapshot once it has one.
AccountOfPoll ==
    \A p \in Pollers :
        /\ pc[p] # "idle" => account[p] \in Accounts
        /\ pc[p] \in {"commit", "handler", "dispatch"} => snapshot[p] \in Counts

IInv ==
    /\ TypeOK
    /\ AccountOfPoll
    /\ LockHeldInside
    /\ BaselineCurrent
    /\ DispatchIsLogged
    /\ SingleExecution

\* The types hold when the worker starts.
LEMMA TypeInit == Init => TypeOK
BY ChainAssumption, BoundAssumption DEF Init, TypeOK, MemoryEmpty, Counts, TriggerType, Inside

\* Every step keeps the types.
LEMMA TypeStep == IInv /\ [Next]_vars => TypeOK'
<1> SUFFICES ASSUME TypeOK, AccountOfPoll, SingleExecution, [Next]_vars PROVE TypeOK'
  BY DEF IInv
<1> USE ChainAssumption, BoundAssumption DEF TypeOK, Inside, Goto, dbVars, threadVars, localVars, Exists
<1>1. ASSUME NEW p \in Pollers, NEW a \in Accounts, BeginPoll(p, a) PROVE TypeOK'
  BY <1>1 DEF BeginPoll
<1>2. ASSUME NEW p \in Pollers, Acquire(p) PROVE TypeOK'
  BY <1>2 DEF Acquire, AccountOfPoll
<1>3. ASSUME NEW p \in Pollers, ReadState(p) PROVE TypeOK'
  BY <1>3 DEF ReadState, AccountOfPoll
<1>4. ASSUME NEW p \in Pollers, FetchOk(p) PROVE TypeOK'
  BY <1>4 DEF FetchOk, AccountOfPoll
<1>5. ASSUME NEW p \in Pollers, FetchFailed(p) PROVE TypeOK'
  BY <1>5 DEF FetchFailed, AccountOfPoll
<1>6. ASSUME NEW p \in Pollers, CommitSnapshot(p) PROVE TypeOK'
  <2>1. /\ account[p] \in Accounts
        /\ snapshot[p] \in Counts
        /\ pc[p] = "commit"
    BY <1>6 DEF CommitSnapshot, AccountOfPoll
  <2>2. ASSUME Detected(p) = {} PROVE TypeOK'
    BY <1>6, <2>1, <2>2 DEF CommitSnapshot
  <2>3. ASSUME Detected(p) # {} PROVE TypeOK'
    <3>1. previousCount[p] \in Counts
      BY <2>3 DEF Detected, DetectTransitions
    <3> DEFINE rows == {[trigger |-> t, previous |-> previousCount[p],
                         current |-> snapshot[p]] : t \in Detected(p)}
    <3>2. rows \in SUBSET [trigger : TriggerType, previous : Counts, current : Counts]
      BY <2>1, <3>1 DEF Detected, DetectTransitions
    <3>3. triggerLog' = [triggerLog EXCEPT ![account[p]] = rows]
      BY <1>6, <2>3 DEF CommitSnapshot
    <3> HIDE DEF rows
    <3>4. triggerLog' \in [Accounts -> SUBSET
              [trigger : TriggerType, previous : Counts, current : Counts]]
      BY <2>1, <3>2, <3>3
    <3>5. triggerCount' \in [Accounts -> 0 .. CountWindow - 1]
      BY <1>6, <2>1, <2>3 DEF CommitSnapshot
    <3> QED
      BY <1>6, <2>1, <2>3, <3>4, <3>5 DEF CommitSnapshot
  <2> QED
    BY <2>2, <2>3
<1>7. ASSUME NEW p \in Pollers, QueryChains(p) PROVE TypeOK'
  BY <1>7 DEF QueryChains
<1>8. ASSUME NEW p \in Pollers, NEW c \in Chains, SkipChain(p, c) PROVE TypeOK'
  BY <1>8 DEF SkipChain
<1>9. ASSUME NEW p \in Pollers, NEW c \in Chains, StartChain(p, c) PROVE TypeOK'
  BY <1>9 DEF StartChain
<1>10. ASSUME NEW p \in Pollers, NEW c \in Chains, StartThreadFails(p, c) PROVE TypeOK'
  BY <1>10 DEF StartThreadFails
<1>11. ASSUME NEW p \in Pollers, DispatchDone(p) \/ PollRaises(p) PROVE TypeOK'
  BY <1>11 DEF DispatchDone, PollRaises
<1>12. ASSUME NEW p \in Pollers, Leave(p) PROVE TypeOK'
  BY <1>12 DEF Leave, AccountOfPoll
<1>13. ASSUME NEW c \in Chains, ThreadExit(c) PROVE TypeOK'
  BY <1>13 DEF ThreadExit
<1>14. ASSUME WorkerRestart PROVE TypeOK'
  BY <1>14 DEF WorkerRestart
<1>15. ASSUME Api PROVE TypeOK'
  <2>1. ASSUME NEW a \in Accounts, NEW s \in {"active", "inactive"}, UpdateAccount(a, s)
        PROVE TypeOK'
    BY <2>1 DEF UpdateAccount
  <2>2. ASSUME NEW a \in Accounts, DeleteAccount(a) PROVE TypeOK'
    BY <2>2 DEF DeleteAccount
  <2>3. ASSUME NEW c \in Chains, NEW s \in TriggerType \cup {"inactive"}, UpdateChain(c, s)
        PROVE TypeOK'
    BY <2>3 DEF UpdateChain
  <2>4. ASSUME NEW c \in Chains, DeleteChain(c) PROVE TypeOK'
    BY <2>4 DEF DeleteChain
  <2> QED
    BY <1>15, <2>1, <2>2, <2>3, <2>4 DEF Api
<1>16. ASSUME NEW a \in Accounts, NEW n \in Counts, MailboxChanges(a, n) PROVE TypeOK'
  BY <1>16 DEF MailboxChanges
<1>17. ASSUME UNCHANGED vars PROVE TypeOK'
  BY <1>17 DEF vars
<1> QED
  BY <1>1, <1>2, <1>3, <1>4, <1>5, <1>6, <1>7, <1>8, <1>9, <1>10, <1>11, <1>12,
     <1>13, <1>14, <1>15, <1>16, <1>17 DEF Next, PollStep, Dispatch

\* Every step keeps the lock discipline.
LEMMA ControlStep == IInv /\ [Next]_vars => AccountOfPoll' /\ LockHeldInside'
<1> SUFFICES ASSUME TypeOK, AccountOfPoll, LockHeldInside, [Next]_vars
             PROVE AccountOfPoll' /\ LockHeldInside'
  BY DEF IInv
<1> USE NoneOutside DEF TypeOK, AccountOfPoll, LockHeldInside, Inside, Goto
<1>1. ASSUME NEW p \in Pollers, NEW a \in Accounts, BeginPoll(p, a)
      PROVE AccountOfPoll' /\ LockHeldInside'
  BY <1>1 DEF BeginPoll, localVars
<1>2. ASSUME NEW p \in Pollers, Acquire(p) PROVE AccountOfPoll' /\ LockHeldInside'
  BY <1>2 DEF Acquire, localVars
<1>3. ASSUME NEW p \in Pollers, FetchOk(p) PROVE AccountOfPoll' /\ LockHeldInside'
  BY <1>3 DEF FetchOk
<1>4. ASSUME NEW p \in Pollers, FetchFailed(p) \/ CommitSnapshot(p) \/ DispatchDone(p) \/ PollRaises(p)
      PROVE AccountOfPoll' /\ LockHeldInside'
  BY <1>4 DEF FetchFailed, CommitSnapshot, DispatchDone, PollRaises, Raising, localVars
<1>5. ASSUME NEW p \in Pollers, ReadState(p) \/ QueryChains(p)
      PROVE AccountOfPoll' /\ LockHeldInside'
  BY <1>5 DEF ReadState, QueryChains
<1>6. ASSUME NEW p \in Pollers, NEW c \in Chains, StartThreadFails(p, c)
      PROVE AccountOfPoll' /\ LockHeldInside'
  BY <1>6 DEF StartThreadFails, localVars
<1>7. ASSUME NEW p \in Pollers, Leave(p) PROVE AccountOfPoll' /\ LockHeldInside'
  BY <1>7 DEF Leave
<1>8. ASSUME WorkerRestart PROVE AccountOfPoll' /\ LockHeldInside'
  BY <1>8 DEF WorkerRestart
<1>9. ASSUME UNCHANGED <<accountLock, pc, account, snapshot>>
      PROVE AccountOfPoll' /\ LockHeldInside'
  BY <1>9
<1>10. ASSUME NEW p \in Pollers, NEW c \in Chains, SkipChain(p, c) \/ StartChain(p, c)
       PROVE UNCHANGED <<accountLock, pc, account, snapshot>>
  BY <1>10 DEF SkipChain, StartChain
<1>11. ASSUME NEW c \in Chains, ThreadExit(c)
       PROVE UNCHANGED <<accountLock, pc, account, snapshot>>
  BY <1>11 DEF ThreadExit, localVars
<1>12. ASSUME Api PROVE UNCHANGED <<accountLock, pc, account, snapshot>>
  BY <1>12 DEF Api, UpdateAccount, DeleteAccount, UpdateChain, DeleteChain, localVars
<1>13. ASSUME NEW a \in Accounts, NEW n \in Counts, MailboxChanges(a, n)
       PROVE UNCHANGED <<accountLock, pc, account, snapshot>>
  BY <1>13 DEF MailboxChanges, localVars
<1>14. ASSUME UNCHANGED vars PROVE UNCHANGED <<accountLock, pc, account, snapshot>>
  BY <1>14 DEF vars, localVars
<1> QED
  BY <1>1, <1>2, <1>3, <1>4, <1>5, <1>6, <1>7, <1>8, <1>9, <1>10, <1>11, <1>12,
     <1>13, <1>14 DEF Next, PollStep, Dispatch

\* Every step keeps the chains on one thread each.
LEMMA ExecutionStep == IInv /\ [Next]_vars => SingleExecution'
<1> SUFFICES ASSUME TypeOK, SingleExecution, [Next]_vars PROVE SingleExecution'
  BY DEF IInv
<1> USE DEF TypeOK, SingleExecution
<1>1. ASSUME NEW p \in Pollers, NEW c \in Chains, StartChain(p, c) PROVE SingleExecution'
  BY <1>1 DEF StartChain, threadVars
<1>2. ASSUME NEW p \in Pollers, NEW c \in Chains, StartThreadFails(p, c) PROVE SingleExecution'
  BY <1>2 DEF StartThreadFails
<1>3. ASSUME NEW c \in Chains, ThreadExit(c) PROVE SingleExecution'
  BY <1>3 DEF ThreadExit
<1>4. ASSUME WorkerRestart PROVE SingleExecution'
  BY <1>4 DEF WorkerRestart
<1>5. ASSUME UNCHANGED threadVars PROVE SingleExecution'
  BY <1>5 DEF threadVars
<1>6. ASSUME NEW p \in Pollers,
             \/ \E a \in Accounts : BeginPoll(p, a)
             \/ Acquire(p) \/ ReadState(p) \/ FetchOk(p) \/ FetchFailed(p)
             \/ CommitSnapshot(p) \/ QueryChains(p) \/ DispatchDone(p)
             \/ PollRaises(p) \/ Leave(p) \/ \E c \in Chains : SkipChain(p, c)
      PROVE UNCHANGED threadVars
  BY <1>6 DEF BeginPoll, Acquire, ReadState, FetchOk, FetchFailed, CommitSnapshot,
              QueryChains, DispatchDone, PollRaises, Leave, SkipChain
<1>7. ASSUME \/ Api
             \/ \E a \in Accounts, n \in Counts : MailboxChanges(a, n)
             \/ UNCHANGED vars
      PROVE UNCHANGED threadVars
  BY <1>7 DEF Api, UpdateAccount, DeleteAccount, UpdateChain, DeleteChain,
              MailboxChanges, vars
<1> QED
  BY <1>1, <1>2, <1>3, <1>4, <1>5, <1>6, <1>7 DEF Next, PollStep, Dispatch

\* Every step keeps the counts that were read current: a commit of another poll
\* is a commit of another account, because of the lock.
LEMMA BaselineStep == IInv /\ [Next]_vars => BaselineCurrent'
<1> SUFFICES ASSUME TypeOK, AccountOfPoll, LockHeldInside, BaselineCurrent, [Next]_vars
             PROVE BaselineCurrent'
  BY DEF IInv
<1> USE DEF TypeOK, AccountOfPoll, BaselineCurrent, Inside, Goto, Exists
<1> DEFINE touched == <<pc, account, previousCount, snapshot, lastUnread, accountRow>>
<1>1. ASSUME NEW p \in Pollers, NEW a \in Accounts, BeginPoll(p, a) PROVE BaselineCurrent'
  BY <1>1 DEF BeginPoll, localVars, dbVars
<1>2. ASSUME NEW p \in Pollers, Acquire(p) PROVE BaselineCurrent'
  BY <1>2 DEF Acquire, localVars, dbVars
<1>3. ASSUME NEW p \in Pollers, ReadState(p) PROVE BaselineCurrent'
  BY <1>3 DEF ReadState, dbVars
<1>4. ASSUME NEW p \in Pollers, FetchOk(p) PROVE BaselineCurrent'
  BY <1>4 DEF FetchOk, dbVars
<1>5. ASSUME NEW p \in Pollers, FetchFailed(p) PROVE BaselineCurrent'
  BY <1>5 DEF FetchFailed, localVars
<1>6. ASSUME NEW p \in Pollers, CommitSnapshot(p) PROVE BaselineCurrent'
  <2> SUFFICES ASSUME NEW q \in Pollers PROVE BaselineCurrent!(q)'
    OBVIOUS
  <2>1. CASE q = p
    BY <1>6, <2>1 DEF CommitSnapshot, localVars
  <2>2. CASE q # p
    <3>1. pc[q] \in Inside => account[q] # account[p]
      BY <1>6, <2>2 DEF CommitSnapshot, LockHeldInside
    <3> QED
      BY <1>6, <2>2, <3>1 DEF CommitSnapshot, localVars
  <2> QED
    BY <2>1, <2>2
<1>7. ASSUME NEW p \in Pollers, QueryChains(p) PROVE BaselineCurrent'
  BY <1>7 DEF QueryChains, dbVars
<1>8. ASSUME NEW p \in Pollers, NEW c \in Chains, StartThreadFails(p, c) PROVE BaselineCurrent'
  BY <1>8 DEF StartThreadFails, localVars, dbVars
<1>9. ASSUME NEW p \in Pollers, DispatchDone(p) \/ PollRaises(p) PROVE BaselineCurrent'
  BY <1>9 DEF DispatchDone, PollRaises, localVars, dbVars
<1>10. ASSUME NEW p \in Pollers, Leave(p) PROVE BaselineCurrent'
  BY <1>10 DEF Leave, dbVars
<1>11. ASSUME WorkerRestart PROVE BaselineCurrent'
  BY <1>11 DEF WorkerRestart
<1>12. ASSUME NEW a \in Accounts, NEW s \in {"active", "inactive"}, UpdateAccount(a, s)
       PROVE BaselineCurrent'
  BY <1>12 DEF UpdateAccount, localVars
<1>13. ASSUME NEW a \in Accounts, DeleteAccount(a) PROVE BaselineCurrent'
  BY <1>13 DEF DeleteAccount, localVars
<1>14. ASSUME UNCHANGED touched PROVE BaselineCurrent'
  BY <1>14
<1>15. ASSUME NEW p \in Pollers, NEW c \in Chains, SkipChain(p, c) \/ StartChain(p, c)
       PROVE UNCHANGED touched
  BY <1>15 DEF SkipChain, StartChain, dbVars
<1>16. ASSUME NEW c \in Chains,
              \/ ThreadExit(c) \/ DeleteChain(c)
              \/ \E s \in TriggerType \cup {"inactive"} : UpdateChain(c, s)
       PROVE UNCHANGED touched
  BY <1>16 DEF ThreadExit, UpdateChain, DeleteChain, dbVars, localVars
<1>17. ASSUME NEW a \in Accounts, NEW n \in Counts, MailboxChanges(a, n)
       PROVE UNCHANGED touched
  BY <1>17 DEF MailboxChanges, dbVars, localVars
<1>18. ASSUME UNCHANGED vars PROVE UNCHANGED touched
  BY <1>18 DEF vars, dbVars, localVars
<1> QED
  BY <1>1, <1>2, <1>3, <1>4, <1>5, <1>6, <1>7, <1>8, <1>9, <1>10, <1>11, <1>12, <1>13,
     <1>14, <1>15, <1>16, <1>17, <1>18 DEF Next, PollStep, Dispatch, Api

\* Every step keeps the log rows of the dispatching polls.
LEMMA LoggedStep == IInv /\ [Next]_vars => DispatchIsLogged'
<1> SUFFICES ASSUME TypeOK, AccountOfPoll, LockHeldInside, DispatchIsLogged, [Next]_vars
             PROVE DispatchIsLogged'
  BY DEF IInv
<1> USE DEF TypeOK, AccountOfPoll, DispatchIsLogged, Inside, Goto, Detected
<1> DEFINE touched == <<pc, account, previousCount, snapshot, triggerLog>>
<1>1. ASSUME NEW p \in Pollers, NEW a \in Accounts, BeginPoll(p, a) PROVE DispatchIsLogged'
  BY <1>1 DEF BeginPoll, localVars, dbVars
<1>2. ASSUME NEW p \in Pollers, Acquire(p) \/ DispatchDone(p) \/ PollRaises(p) \/ FetchFailed(p)
      PROVE DispatchIsLogged'
  BY <1>2 DEF Acquire, DispatchDone, PollRaises, FetchFailed, localVars, dbVars
<1>3. ASSUME NEW p \in Pollers, ReadState(p) \/ FetchOk(p) PROVE DispatchIsLogged'
  BY <1>3 DEF ReadState, FetchOk, dbVars
<1>4. ASSUME NEW p \in Pollers, CommitSnapshot(p) PROVE DispatchIsLogged'
  <2> SUFFICES ASSUME NEW q \in Pollers, pc'[q] \in {"handler", "dispatch"}
               PROVE DispatchIsLogged!(q)'
    OBVIOUS
  <2>1. CASE q = p
    BY <1>4, <2>1 DEF CommitSnapshot, localVars
  <2>2. CASE q # p
    <3>1. pc'[q] = pc[q] /\ pc[q] \in {"handler", "dispatch"}
      BY <1>4, <2>2 DEF CommitSnapshot
    <3>2. account[q] # account[p]
      BY <1>4, <2>2, <3>1 DEF CommitSnapshot, LockHeldInside
    <3> QED
      BY <1>4, <2>2, <3>1, <3>2 DEF CommitSnapshot, localVars
  <2> QED
    BY <2>1, <2>2
<1>5. ASSUME NEW p \in Pollers, QueryChains(p) PROVE DispatchIsLogged'
  BY <1>5 DEF QueryChains, dbVars
<1>6. ASSUME NEW p \in Pollers, NEW c \in Chains, StartThreadFails(p, c) PROVE DispatchIsLogged'
  BY <1>6 DEF StartThreadFails, localVars, dbVars
<1>7. ASSUME NEW p \in Pollers, Leave(p) PROVE DispatchIsLogged'
  BY <1>7 DEF Leave, dbVars
<1>8. ASSUME WorkerRestart PROVE DispatchIsLogged'
  BY <1>8 DEF WorkerRestart
<1>9. ASSUME UNCHANGED touched PROVE DispatchIsLogged'
  BY <1>9
<1>10. ASSUME NEW p \in Pollers, NEW c \in Chains, SkipChain(p, c) \/ StartChain(p, c)
       PROVE UNCHANGED touched
  BY <1>10 DEF SkipChain, StartChain, dbVars
<1>11. ASSUME NEW c \in Chains, ThreadExit(c) PROVE UNCHANGED touched
  BY <1>11 DEF ThreadExit, dbVars, localVars
<1>12. ASSUME Api PROVE UNCHANGED touched
  BY <1>12 DEF Api, UpdateAccount, DeleteAccount, UpdateChain, DeleteChain, localVars
<1>13. ASSUME NEW a \in Accounts, NEW n \in Counts, MailboxChanges(a, n)
       PROVE UNCHANGED touched
  BY <1>13 DEF MailboxChanges, dbVars, localVars
<1>14. ASSUME UNCHANGED vars PROVE UNCHANGED touched
  BY <1>14 DEF vars, dbVars, localVars
<1> QED
  BY <1>1, <1>2, <1>3, <1>4, <1>5, <1>6, <1>7, <1>8, <1>9, <1>10, <1>11, <1>12, <1>13,
     <1>14 DEF Next, PollStep, Dispatch

\* The invariant holds when the worker starts.
LEMMA InvInit == Init => IInv
<1> SUFFICES ASSUME Init PROVE IInv
  OBVIOUS
<1>1. TypeOK
  BY TypeInit
<1>2. AccountOfPoll /\ BaselineCurrent /\ DispatchIsLogged
  BY DEF Init, MemoryEmpty, AccountOfPoll, BaselineCurrent, DispatchIsLogged
<1>3. LockHeldInside /\ SingleExecution
  BY NoneOutside DEF Init, MemoryEmpty, LockHeldInside, SingleExecution, Inside
<1> QED
  BY <1>1, <1>2, <1>3 DEF IInv

\* The strengthened invariant holds always.
THEOREM Invariance == Spec => []IInv
<1>1. IInv /\ [Next]_vars => IInv'
  BY TypeStep, ControlStep, BaselineStep, LoggedStep, ExecutionStep DEF IInv
<1> QED
  BY <1>1, InvInit, PTL DEF Spec

\* Every variable keeps its type.
THEOREM TypeCorrect == Spec => []TypeOK
BY Invariance, PTL DEF IInv

\* Exactly the polls inside poll_account hold the locks of their accounts.
THEOREM LockDiscipline == Spec => []LockHeldInside
BY Invariance, PTL DEF IInv

\* No poll compares with, or overwrites, a count older than the one stored.
THEOREM BaselineIsCurrent == Spec => []BaselineCurrent
BY Invariance, PTL DEF IInv

\* Chains are dispatched for detections that are in the log.
THEOREM DispatchAfterLog == Spec => []DispatchIsLogged
BY Invariance, PTL DEF IInv

\* A chain never runs twice at the same time.
THEOREM OneThreadPerChain == Spec => []SingleExecution
BY Invariance, PTL DEF IInv
-----------------------------------------------------------------------------
\* detect_transitions finds the event of the ledger, and at most one.
LEMMA DetectionIsEvent ==
    ASSUME NEW m \in Counts \cup {None}, NEW n \in Counts
    PROVE  DetectTransitions(m, n) =
             IF Ledger!Rises(m, n) \/ Ledger!EmptiesInbox(m, n)
             THEN {Ledger!Event(m, n)} ELSE {}
<1>1. None \notin Nat /\ Counts \subseteq Nat
  BY NoneAssumption, BoundAssumption DEF Counts
<1>2. CASE m = None
  BY <1>2 DEF DetectTransitions, Ledger!Rises, Ledger!EmptiesInbox
<1>3. CASE m # None
  <2>1. m \in Nat /\ n \in Nat
    BY <1>1, <1>3
  <2>2. \A t : t \in DetectTransitions(m, n) <=>
          \/ t = "unread_new" /\ m < n
          \/ t = "inbox_zero" /\ m > n /\ n = 0
    BY <1>3, <2>1 DEF DetectTransitions, TriggerType
  <2> QED
    BY <1>3, <2>1, <2>2 DEF Ledger!Rises, Ledger!EmptiesInbox, Ledger!Event
<1> QED
  BY <1>2, <1>3

\* A commit extends the ledger by the count it saw, a deletion forgets the
\* account, and nothing else touches it.
LEMMA LedgerStep == IInv /\ [Next]_vars => [Ledger!Next]_(Ledger!vars)
<1> SUFFICES ASSUME IInv, [Next]_vars PROVE [Ledger!Next]_(Ledger!vars)
  OBVIOUS
<1>1. ASSUME NEW p \in Pollers, CommitSnapshot(p) PROVE Ledger!Next
  <2> DEFINE a == account[p]
             m == previousCount[p]
             n == snapshot[p]
             fires == Ledger!Rises(m, n) \/ Ledger!EmptiesInbox(m, n)
  <2>1. /\ a \in Accounts
        /\ m \in Counts \cup {None}
        /\ n \in Counts
        /\ lastUnread[a] = m
    BY <1>1 DEF IInv, TypeOK, AccountOfPoll, BaselineCurrent, CommitSnapshot
  <2>2. Detected(p) = IF fires THEN {Ledger!Event(m, n)} ELSE {}
    BY <2>1, DetectionIsEvent DEF Detected
  <2>3. lastUnread' = [lastUnread EXCEPT ![a] = n]
    BY <1>1 DEF CommitSnapshot
  <2>4. CASE fires
    <3>1. Detected(p) = {Ledger!Event(m, n)}
      BY <2>2, <2>4
    <3>2. /\ triggerLog' = [triggerLog EXCEPT ![a] =
                 {[trigger |-> t, previous |-> m, current |-> n] : t \in Detected(p)}]
          /\ triggerCount' = [triggerCount EXCEPT ![a] =
                 IF @ + 1 = CountWindow THEN 0 ELSE @ + 1]
      BY <1>1, <3>1 DEF CommitSnapshot
    <3>3. {[trigger |-> t, previous |-> m, current |-> n] : t \in Detected(p)}
            = {[trigger |-> Ledger!Event(m, n), previous |-> m, current |-> n]}
      BY <3>1
    <3>4. Ledger!Observe(a, n)
      BY <2>1, <2>3, <2>4, <3>2, <3>3 DEF Ledger!Observe
    <3> QED
      BY <2>1, <3>4 DEF Ledger!Next
  <2>5. CASE ~fires
    <3>1. UNCHANGED <<triggerLog, triggerCount>>
      BY <1>1, <2>2, <2>5 DEF CommitSnapshot
    <3>2. Ledger!Observe(a, n)
      BY <2>1, <2>3, <2>5, <3>1 DEF Ledger!Observe
    <3> QED
      BY <2>1, <3>2 DEF Ledger!Next
  <2> QED
    BY <2>4, <2>5
<1>2. ASSUME NEW a \in Accounts, DeleteAccount(a) PROVE Ledger!Next
  BY <1>2 DEF DeleteAccount, Ledger!Next, Ledger!Forget
<1>3. ASSUME NEW p \in Pollers,
             \/ \E a \in Accounts : BeginPoll(p, a)
             \/ Acquire(p) \/ ReadState(p) \/ FetchOk(p) \/ FetchFailed(p)
             \/ QueryChains(p) \/ Dispatch(p) \/ PollRaises(p) \/ Leave(p)
      PROVE UNCHANGED Ledger!vars
  BY <1>3 DEF BeginPoll, Acquire, ReadState, FetchOk, FetchFailed, QueryChains, Dispatch,
              SkipChain, StartChain, StartThreadFails, DispatchDone, PollRaises, Leave,
              dbVars, Ledger!vars
<1>4. ASSUME \/ \E c \in Chains : ThreadExit(c) \/ DeleteChain(c)
             \/ \E c \in Chains, s \in TriggerType \cup {"inactive"} : UpdateChain(c, s)
             \/ \E a \in Accounts, s \in {"active", "inactive"} : UpdateAccount(a, s)
             \/ \E a \in Accounts, n \in Counts : MailboxChanges(a, n)
             \/ WorkerRestart
             \/ UNCHANGED vars
      PROVE UNCHANGED Ledger!vars
  BY <1>4 DEF ThreadExit, DeleteChain, UpdateChain, UpdateAccount, MailboxChanges,
              WorkerRestart, vars, dbVars, Ledger!vars
<1> QED
  BY <1>1, <1>2, <1>3, <1>4 DEF Next, PollStep, Api

\* All polls of an account form one history of counts: every two consecutive
\* counts are compared once, whichever threads saw them.
THEOREM KeepsLedger == Spec => LedgerSpec
<1>1. Init => Ledger!Init
  BY DEF Init, Ledger!Init
<1> QED
  BY <1>1, LedgerStep, Invariance, PTL DEF Spec, LedgerSpec, Ledger!Spec
-----------------------------------------------------------------------------
(* Why a poll ends *)

\* The places of poll_account, by what is still before the poll.
PlacesLeft == [idle |-> 0, leave |-> 1, dispatch |-> 2, handler |-> 3, commit |-> 4,
               fetch |-> 5, read |-> 6, lock |-> 7]

\* A step that moves the poll of p brings it to a later place, or leaves it
\* with fewer of its chains to handle.
PollComesNearer(p) ==
    pc[p] # "idle" =>
        \/ pc'[p] = pc[p] /\ todo'[p] = todo[p]
        \/ PlacesLeft[pc'[p]] < PlacesLeft[pc[p]]
        \/ pc'[p] = pc[p] /\ todo'[p] \subseteq todo[p] /\ todo'[p] # todo[p]

PollDescends == [][\A p \in Pollers : PollComesNearer(p)]_vars

\* A poll that waits for the lock of its account waits for another poll, which
\* is past its own lock and waits for nobody: it has only its own statements
\* left.
WaitsForNoWaiter ==
    \A p, q \in Pollers :
        pc[p] = "lock" /\ accountLock[account[p]] = q =>
            q # p /\ pc[q] \in Inside /\ account[q] = account[p]

\* Every step descends.
LEMMA PollStepDescends ==
    ASSUME TypeOK, [Next]_vars, NEW p \in Pollers
    PROVE  PollComesNearer(p)
<1> USE DEF TypeOK, PollComesNearer, Goto, PlacesLeft
<1>1. ASSUME NEW q \in Pollers,
             \/ \E a \in Accounts : BeginPoll(q, a)
             \/ Acquire(q) \/ ReadState(q) \/ FetchOk(q) \/ FetchFailed(q)
      PROVE  PollComesNearer(p)
  BY <1>1 DEF BeginPoll, Acquire, ReadState, FetchOk, FetchFailed, localVars
<1>2. ASSUME NEW q \in Pollers, CommitSnapshot(q) \/ QueryChains(q) PROVE PollComesNearer(p)
  BY <1>2 DEF CommitSnapshot, QueryChains, localVars
<1>3. ASSUME NEW q \in Pollers, NEW c \in Chains, SkipChain(q, c) \/ StartChain(q, c)
      PROVE  PollComesNearer(p)
  <2>1. pc' = pc /\ c \in todo[q] /\ todo' = [todo EXCEPT ![q] = @ \ {c}]
    BY <1>3 DEF SkipChain, StartChain
  <2>2. CASE p = q
    BY <2>1, <2>2
  <2>3. CASE p # q
    BY <2>1, <2>3
  <2> QED
    BY <2>2, <2>3
<1>4. ASSUME NEW q \in Pollers, NEW c \in Chains, StartThreadFails(q, c)
      PROVE  PollComesNearer(p)
  BY <1>4 DEF StartThreadFails, localVars
<1>5. ASSUME NEW q \in Pollers, DispatchDone(q) \/ PollRaises(q) \/ Leave(q)
      PROVE  PollComesNearer(p)
  BY <1>5 DEF DispatchDone, PollRaises, Leave, Raising, Inside, localVars
<1>6. ASSUME WorkerRestart PROVE PollComesNearer(p)
  BY <1>6 DEF WorkerRestart, Inside
<1>7. ASSUME UNCHANGED <<pc, todo>> PROVE PollComesNearer(p)
  BY <1>7
<1>8. ASSUME \/ \E c \in Chains : ThreadExit(c)
             \/ Api
             \/ \E a \in Accounts, n \in Counts : MailboxChanges(a, n)
             \/ UNCHANGED vars
      PROVE  UNCHANGED <<pc, todo>>
  BY <1>8 DEF ThreadExit, Api, UpdateAccount, DeleteAccount, UpdateChain, DeleteChain,
              MailboxChanges, vars, localVars
<1> QED
  BY <1>1, <1>2, <1>3, <1>4, <1>5, <1>6, <1>7, <1>8 DEF Next, PollStep, Dispatch

\* Every statement of a poll brings it nearer to its end, exceptions, deletions
\* and the polls of other threads included: poll_account has no way back.  It
\* is the measure behind PollTerminates.
THEOREM PollsComeNearer == Spec => PollDescends
<1>1. IInv /\ [Next]_vars => [\A p \in Pollers : PollComesNearer(p)]_vars
  BY PollStepDescends DEF IInv
<1> QED
  BY <1>1, Invariance, PTL DEF Spec, PollDescends

\* The waiting of the polls has no cycle, and not even a chain of two: the
\* account locks cannot deadlock.
THEOREM LocksCannotDeadlock == Spec => []WaitsForNoWaiter
<1>1. IInv => WaitsForNoWaiter
  <2> SUFFICES ASSUME IInv, NEW p \in Pollers, NEW q \in Pollers,
                      pc[p] = "lock", accountLock[account[p]] = q
               PROVE  q # p /\ pc[q] \in Inside /\ account[q] = account[p]
    BY DEF WaitsForNoWaiter
  <2>1. account[p] \in Accounts
    BY DEF IInv, AccountOfPoll
  <2>2. account[q] = account[p] /\ pc[q] \in Inside
    BY <2>1 DEF IInv, LockHeldInside
  <2> QED
    BY <2>2 DEF Inside
<1> QED
  BY <1>1, Invariance, PTL
=============================================================================
