----------------------- MODULE IdleSupervisionProofs -----------------------
(***************************************************************************)
(* Theorems about IdleSupervision, for any accounts and watchers.          *)
(***************************************************************************)
EXTENDS IdleSupervision, TLAPS

\* The supervisor's map and the watchers agree; an account that is still to be
\* visited has a watcher, and the one that stop() works on is in the map.
MapOK ==
    /\ tick = "shutdown" <=> target # None
    /\ todo \subseteq Watched
    /\ \A a \in Accounts : watcherOf[a] # None => account[watcherOf[a]] = a
    /\ target # None => /\ stop[target]
                        /\ account[target] \in todo
                        /\ watcherOf[account[target]] = target

IInv == TypeOK /\ MapOK /\ UnstoppedIsKept /\ StopReachesIdle

\* The worker starts with no watcher.
LEMMA InitInv == Init => IInv
<1> SUFFICES ASSUME Init PROVE IInv
  OBVIOUS
<1> USE NoneAssumption DEF Init, NoWatchers
<1>1. ending \in BOOLEAN /\ installed \in BOOLEAN
  BY Zenon
<1>2. TypeOK
  BY <1>1 DEF TypeOK, Label, Network, Connected, Selected
<1>3. MapOK
  BY DEF MapOK, Watched
<1>4. UnstoppedIsKept /\ StopReachesIdle
  BY DEF UnstoppedIsKept, StopReachesIdle, Alive
<1> QED
  BY <1>2, <1>3, <1>4 DEF IInv

\* Every step of the supervisor keeps the invariant.
LEMMA TickInv == IInv /\ (TickStep \/ StopAll) => IInv'
<1> SUFFICES ASSUME IInv, TickStep \/ StopAll PROVE IInv'
  OBVIOUS
<1> USE NoneAssumption
    DEF IInv, TypeOK, MapOK, UnstoppedIsKept, StopReachesIdle, Alive, Watched, loopVars, mailVars
<1>1. CASE QueryAccounts
  BY <1>1 DEF QueryAccounts, IdleAccounts
<1>2. CASE ShutClient
  <2> DEFINE a == account[target]
  <2>1. /\ target \in Watchers /\ a \in todo /\ a \in Accounts
        /\ watcherOf[a] = target /\ stop[target]
    BY <1>2 DEF ShutClient
  <2>2. /\ client' = [client EXCEPT ![target] = IF client[target] = "none" THEN "none" ELSE "shut"]
        /\ watcherOf' = [watcherOf EXCEPT ![a] = None]
        /\ todo' = todo \ {a} /\ target' = None /\ tick' = "visit"
        /\ UNCHANGED <<mode, installed, ending, desired, account, pc, stop, gaveUp, heard, mailVars>>
    BY <1>2, Zenon DEF ShutClient
  <2> HIDE DEF a
  <2>3. TypeOK'
    BY <2>1, <2>2
  <2>4. MapOK'
    BY <2>1, <2>2
  <2>5. UnstoppedIsKept'
    BY <2>1, <2>2
  <2>6. StopReachesIdle'
    BY <2>1, <2>2 DEF Connected, Selected
  <2> QED
    BY <2>3, <2>4, <2>5, <2>6
<1>3. CASE VisitDone
  BY <1>3 DEF VisitDone
<1>4. CASE SpawnDone
  BY <1>4 DEF SpawnDone
<1>5. CASE Sleep
  BY <1>5 DEF Sleep
<1>6. CASE StopAll
  BY <1>6 DEF StopAll
<1>7. ASSUME NEW a \in Accounts, StopWatcher(a) PROVE IInv'
  BY <1>7 DEF StopWatcher
<1>8. ASSUME NEW a \in Accounts, VisitWatcher(a) PROVE IInv'
  BY <1>8 DEF VisitWatcher
<1>9. ASSUME NEW a \in Accounts, NEW w \in Watchers, Spawn(a, w) PROVE IInv'
  <2>1. watcherOf[a] = None /\ pc[w] = "dead" /\ \A b \in Accounts : watcherOf[b] # w
    BY <1>9 DEF Spawn
  <2>2. TypeOK'
    BY <1>9, <2>1 DEF Spawn, Label, Connected, Selected
  <2>3. MapOK'
    BY <1>9, <2>1 DEF Spawn
  <2>4. UnstoppedIsKept'
    BY <1>9, <2>1 DEF Spawn
  <2>5. StopReachesIdle'
    BY <1>9, <2>1 DEF Spawn
  <2> QED
    BY <2>2, <2>3, <2>4, <2>5
<1> QED
  BY <1>1, <1>2, <1>3, <1>4, <1>5, <1>6, <1>7, <1>8, <1>9 DEF TickStep

\* Every step of a watcher keeps the invariant.
LEMMA WatcherInv == ASSUME NEW w \in Watchers, IInv, WatcherStep(w) PROVE IInv'
<1> USE NoneAssumption
    DEF IInv, TypeOK, MapOK, UnstoppedIsKept, StopReachesIdle, Alive, Watched, superVars, mailVars,
        Goto, Label, Network, Connected, Selected
<1>1. CASE Begin(w)
  BY <1>1 DEF Begin
<1>2. CASE Top(w)
  BY <1>2 DEF Top
<1>3. CASE LoadParams(w) \/ LoadRaises(w)
  BY <1>3 DEF LoadParams, LoadRaises
<1>4. CASE Construct(w)
  BY <1>4 DEF Construct
<1>5. CASE Login(w)
  BY <1>5 DEF Login
<1>6. CASE GiveUp(w)
  BY <1>6 DEF GiveUp
<1>7. CASE PollOnce(w)
  BY <1>7 DEF PollOnce
<1>8. CASE CheckStop(w)
  BY <1>8 DEF CheckStop
<1>9. CASE EnterIdle(w)
  BY <1>9 DEF EnterIdle
<1>10. CASE Wake(w)
  BY <1>10 DEF Wake
<1>11. CASE Refresh(w)
  BY <1>11 DEF Refresh
<1>12. CASE LeaveIdle(w)
  BY <1>12 DEF LeaveIdle
<1>13. CASE Raise(w)
  BY <1>13 DEF Raise
<1>14. CASE Failed(w)
  BY <1>14 DEF Failed, Disconnect
<1>15. CASE Backoff(w)
  BY <1>15 DEF Backoff
<1>16. CASE Close(w)
  BY <1>16 DEF Close, Disconnect
<1> QED
  BY <1>1, <1>2, <1>3, <1>4, <1>5, <1>6, <1>7, <1>8, <1>9, <1>10, <1>11, <1>12, <1>13, <1>14,
     <1>15, <1>16 DEF WatcherStep

\* The API, the mailbox and a restart keep the invariant.
LEMMA OutsideInv ==
    ASSUME IInv,
           \/ \E a \in Accounts : \/ \E m \in {"idle", "timed", "inactive", "deleted"} :
                                        UpdateAccount(a, m)
                                  \/ MailboxChanges(a)
           \/ WorkerRestart
    PROVE  IInv'
<1> USE NoneAssumption
    DEF IInv, TypeOK, MapOK, UnstoppedIsKept, StopReachesIdle, Alive, Watched, superVars, loopVars,
        mailVars
<1>1. ASSUME NEW a \in Accounts, NEW m \in {"idle", "timed", "inactive", "deleted"},
             UpdateAccount(a, m)
      PROVE IInv'
  BY <1>1 DEF UpdateAccount
<1>2. ASSUME NEW a \in Accounts, MailboxChanges(a) PROVE IInv'
  BY <1>2 DEF MailboxChanges
<1>3. CASE WorkerRestart
  BY <1>3 DEF WorkerRestart, Label, Network, Connected, Selected
<1> QED
  BY <1>1, <1>2, <1>3

\* The inductive invariant holds in every reachable state.
THEOREM Invariance == Spec => []IInv
<1>1. Init => IInv
  BY InitInv
<1>2. IInv /\ [Next]_vars => IInv'
  <2> SUFFICES ASSUME IInv, [Next]_vars PROVE IInv'
    OBVIOUS
  <2>1. CASE Next
    BY <2>1, TickInv, WatcherInv, OutsideInv DEF Next
  <2>2. CASE UNCHANGED vars
    BY <2>2 DEF vars, superVars, loopVars, mailVars, IInv, TypeOK, MapOK, UnstoppedIsKept,
       StopReachesIdle, Alive, Watched
  <2> QED
    BY <2>1, <2>2
<1> QED
  BY <1>1, <1>2, PTL DEF Spec

\* Every variable keeps its type, and a watcher has a client from the
\* constructor to the finally clause of _connect_and_idle and no longer.
THEOREM TypeCorrect == Spec => []TypeOK
<1>1. IInv => TypeOK
  BY DEF IInv
<1> QED
  BY Invariance, <1>1, PTL

\* A watcher that was not told to stop is the one in _watchers.
THEOREM WatcherIsKept == Spec => []UnstoppedIsKept
<1>1. IInv => UnstoppedIsKept
  BY DEF IInv
<1> QED
  BY Invariance, <1>1, PTL

\* An account has at most one watcher that was not told to stop, however often
\* it enters and leaves IDLE mode while earlier watchers are still ending.
OneWatcher ==
    \A v, w \in Watchers :
        Alive(v) /\ ~stop[v] /\ Alive(w) /\ ~stop[w] /\ account[v] = account[w] => v = w

THEOREM OneWatcherPerAccount == Spec => []OneWatcher
<1>1. IInv => OneWatcher
  BY DEF IInv, UnstoppedIsKept, OneWatcher
<1> QED
  BY Invariance, <1>1, PTL

\* When stop() has returned, the watcher does not wait in IDLE on an open
\* connection.
THEOREM StopReaches == Spec => []StopReachesIdle
<1>1. IInv => StopReachesIdle
  BY DEF IInv
<1> QED
  BY Invariance, <1>1, PTL
-----------------------------------------------------------------------------
\* The steps of the tick loop take no watcher that was told to stop further:
\* only a watcher whose thread has ended is started again.
LEMMA TickKeepsStopped ==
    ASSUME IInv, TickStep \/ StopAll, NEW w \in Watchers, stop[w], stop'[w]
    PROVE  pc'[w] = pc[w]
<1> USE DEF IInv, TypeOK, loopVars
<1>1. CASE QueryAccounts \/ VisitDone \/ SpawnDone \/ Sleep \/ StopAll
  BY <1>1 DEF QueryAccounts, VisitDone, SpawnDone, Sleep, StopAll
<1>2. CASE ShutClient
  BY <1>2 DEF ShutClient
<1>3. ASSUME NEW a \in Accounts, StopWatcher(a) \/ VisitWatcher(a) PROVE pc'[w] = pc[w]
  BY <1>3 DEF StopWatcher, VisitWatcher
<1>4. ASSUME NEW a \in Accounts, NEW v \in Watchers, Spawn(a, v) PROVE pc'[w] = pc[w]
  BY <1>4 DEF Spawn
<1> QED
  BY <1>1, <1>2, <1>3, <1>4 DEF TickStep

\* A step of a watcher moves no other one.
LEMMA OneMoves ==
    ASSUME IInv, NEW v \in Watchers, WatcherStep(v), NEW w \in Watchers, pc'[w] # pc[w]
    PROVE  v = w
<1> USE DEF IInv, TypeOK, Goto
<1>1. CASE Begin(v) \/ Top(v) \/ LoadParams(v) \/ LoadRaises(v) \/ Construct(v)
  BY <1>1 DEF Begin, Top, LoadParams, LoadRaises, Construct
<1>2. CASE Login(v) \/ GiveUp(v) \/ PollOnce(v) \/ CheckStop(v) \/ EnterIdle(v)
  BY <1>2 DEF Login, GiveUp, PollOnce, CheckStop, EnterIdle
<1>3. CASE Wake(v) \/ Refresh(v) \/ LeaveIdle(v)
  BY <1>3 DEF Wake, Refresh, LeaveIdle
<1>4. CASE Raise(v) \/ Failed(v) \/ Backoff(v) \/ Close(v)
  BY <1>4 DEF Raise, Failed, Backoff, Close
<1> QED
  BY <1>1, <1>2, <1>3, <1>4 DEF WatcherStep

\* Each statement of a watcher that was told to stop leaves fewer before it.
LEMMA WatcherDescends ==
    ASSUME IInv, NEW w \in Watchers, WatcherStep(w), stop[w]
    PROVE  StepsLeft(pc'[w]) < StepsLeft(pc[w])
<1> USE DEF IInv, TypeOK, Goto, StepsLeft
<1>1. CASE Begin(w) \/ Top(w) \/ Backoff(w)
  BY <1>1 DEF Begin, Top, Backoff
<1>2. CASE LoadParams(w) \/ LoadRaises(w) \/ Construct(w)
  BY <1>2 DEF LoadParams, LoadRaises, Construct
<1>3. CASE Login(w) \/ GiveUp(w) \/ EnterIdle(w)
  BY <1>3 DEF Login, GiveUp, EnterIdle
<1>4. CASE PollOnce(w) \/ CheckStop(w)
  BY <1>4 DEF PollOnce, CheckStop
<1>5. CASE Wake(w) \/ Refresh(w) \/ LeaveIdle(w)
  BY <1>5 DEF Wake, Refresh, LeaveIdle
<1>6. CASE Raise(w)
  BY <1>6 DEF Raise, Network, Connected, Selected
<1>7. CASE Failed(w) \/ Close(w)
  BY <1>7 DEF Failed, Close
<1> QED
  BY <1>1, <1>2, <1>3, <1>4, <1>5, <1>6, <1>7 DEF WatcherStep

\* A watcher that was told to stop has at most six statements before it and
\* comes nearer to its end with each: what StoppedWatcherEnds needs beside the
\* fairness of its thread.
THEOREM StoppedComesNearer == Spec => StoppedDescends
<1>1. IInv /\ [Next]_vars =>
        [\A w \in Watchers : stop[w] /\ stop'[w] /\ pc'[w] # pc[w]
            => StepsLeft(pc'[w]) < StepsLeft(pc[w])]_vars
  <2> SUFFICES ASSUME IInv, Next,
                      NEW w \in Watchers, stop[w], stop'[w], pc'[w] # pc[w]
               PROVE  StepsLeft(pc'[w]) < StepsLeft(pc[w])
    OBVIOUS
  <2>1. CASE TickStep \/ StopAll
    BY <2>1, TickKeepsStopped
  <2>2. ASSUME NEW v \in Watchers, WatcherStep(v)
        PROVE  StepsLeft(pc'[w]) < StepsLeft(pc[w])
    BY <2>2, OneMoves, WatcherDescends
  <2>3. ASSUME NEW a \in Accounts, NEW m \in {"idle", "timed", "inactive", "deleted"},
               UpdateAccount(a, m) \/ MailboxChanges(a)
        PROVE  pc' = pc
    BY <2>3 DEF UpdateAccount, MailboxChanges, loopVars
  <2>4. ~WorkerRestart
    BY DEF WorkerRestart
  <2> QED
    BY <2>1, <2>2, <2>3, <2>4 DEF Next
<1> QED
  BY Invariance, <1>1, PTL DEF Spec, StoppedDescends
-----------------------------------------------------------------------------
\* Outside stop() the map holds no watcher that was told to stop; a shutdown of
\* the worker wants no account and empties the map; a thread has an account.
MapUnstopped ==
    /\ \A a \in Accounts : watcherOf[a] # None /\ watcherOf[a] # target => ~stop[watcherOf[a]]
    /\ ending => desired = {} /\ tick \in {"visit", "shutdown", "ended"} /\ Watched \subseteq todo
    /\ tick = "ended" => ending /\ todo = {}
    /\ \A w \in Watchers : Alive(w) => account[w] \in Accounts

THEOREM MapInvariance == Spec => []MapUnstopped
<1>1. Init => MapUnstopped
  BY NoneAssumption DEF Init, NoWatchers, MapUnstopped, Alive
<1>2. IInv /\ MapUnstopped /\ [Next]_vars => MapUnstopped'
  <2> SUFFICES ASSUME IInv, MapUnstopped, [Next]_vars PROVE MapUnstopped'
    OBVIOUS
  <2> USE NoneAssumption
      DEF IInv, TypeOK, MapOK, MapUnstopped, Watched, Alive, superVars, loopVars, mailVars
  <2>1. CASE QueryAccounts \/ VisitDone \/ SpawnDone \/ Sleep \/ StopAll
    BY <2>1 DEF QueryAccounts, VisitDone, SpawnDone, Sleep, StopAll
  <2>2. CASE ShutClient
    BY <2>2 DEF ShutClient
  <2>3. ASSUME NEW a \in Accounts, StopWatcher(a) PROVE MapUnstopped'
    BY <2>3 DEF StopWatcher
  <2>4. ASSUME NEW a \in Accounts, VisitWatcher(a) PROVE MapUnstopped'
    BY <2>4 DEF VisitWatcher
  <2>5. ASSUME NEW a \in Accounts, NEW w \in Watchers, Spawn(a, w) PROVE MapUnstopped'
    BY <2>5 DEF Spawn
  <2>6. ASSUME NEW w \in Watchers, WatcherStep(w) PROVE MapUnstopped'
    <3>1. UNCHANGED <<superVars, stop, account>>
      BY <2>6 DEF WatcherStep, Begin, Top, LoadParams, LoadRaises, Construct, Login, GiveUp,
         PollOnce, CheckStop, EnterIdle, Wake, Refresh, LeaveIdle, Raise, Failed, Backoff, Close
    <3>2. pc[w] # "dead"
      BY <2>6 DEF WatcherStep, Begin, Top, LoadParams, LoadRaises, Construct, Login, GiveUp,
         PollOnce, CheckStop, EnterIdle, Wake, Refresh, LeaveIdle, Raise, Failed, Backoff, Close,
         Network, Connected, Selected
    <3>3. \A v \in Watchers : pc'[v] # pc[v] => v = w
      BY <2>6, OneMoves
    <3> QED
      BY <3>1, <3>2, <3>3
  <2>7. ASSUME NEW a \in Accounts, NEW m \in {"idle", "timed", "inactive", "deleted"},
               UpdateAccount(a, m) \/ MailboxChanges(a)
        PROVE  MapUnstopped'
    BY <2>7 DEF UpdateAccount, MailboxChanges
  <2>8. CASE WorkerRestart
    BY <2>8 DEF WorkerRestart
  <2>9. CASE UNCHANGED vars
    BY <2>9 DEF vars
  <2> QED
    BY <2>1, <2>2, <2>3, <2>4, <2>5, <2>6, <2>7, <2>8, <2>9 DEF Next, TickStep
<1> QED
  BY Invariance, <1>1, <1>2, PTL DEF Spec

\* What is_watching is worth (WatchingMeansConnected asks for more than the code
\* gives): when the tick loop asks, the account has a thread of its own that was
\* not told to stop.
WatchingMeansUnstopped ==
    \A a \in Accounts : tick = "sleep" /\ IsWatching(a) =>
        /\ Alive(watcherOf[a]) /\ ~stop[watcherOf[a]]
        /\ account[watcherOf[a]] = a

THEOREM WatchingIsUnstopped == Spec => []WatchingMeansUnstopped
<1>1. IInv /\ MapUnstopped => WatchingMeansUnstopped
  BY DEF IInv, TypeOK, MapOK, MapUnstopped, WatchingMeansUnstopped, IsWatching
<1> QED
  BY Invariance, MapInvariance, <1>1, PTL

\* stop_all forgets no watcher: when the loop has ended, every thread that still
\* runs was told to stop.
NoneLeftRunning == tick = "ended" => \A w \in Watchers : Alive(w) => stop[w]

THEOREM ShutdownStopsAll == Spec => []NoneLeftRunning
<1>1. IInv /\ MapUnstopped => NoneLeftRunning
  <2> SUFFICES ASSUME IInv, MapUnstopped, tick = "ended", NEW w \in Watchers, Alive(w), ~stop[w]
               PROVE  FALSE
    BY DEF NoneLeftRunning
  <2>1. watcherOf[account[w]] = w
    BY DEF IInv, UnstoppedIsKept
  <2>2. account[w] \in Accounts /\ \A a \in Accounts : watcherOf[a] = None
    BY DEF MapUnstopped, Watched
  <2> QED
    BY <2>1, <2>2, NoneAssumption DEF IInv, TypeOK
<1> QED
  BY Invariance, MapInvariance, <1>1, PTL
-----------------------------------------------------------------------------
\* A watcher with a change it has not polled for has the push still to read, or
\* is on its way to a poll.
PushInv ==
    \A w \in Watchers : unanswered[w] =>
        \/ pending[w]
        \/ pc[w] = "done" /\ heard[w]
        \/ pc[w] \in {"firstPoll", "poll"}
        \/ pc[w] \notin Selected

\* idle_done() finds nothing after an idle_check that timed out.
NothingAfterTimeout == \A w \in Watchers : LeaveIdle(w) /\ ~heard[w] => ~pending[w]

\* A push is lost at idle_watcher.py:150 and nowhere else: as long as idle_done
\* never finds a response after a time-out of idle_check, every change that a
\* waiting watcher has not polled for can still be read by it, whatever the
\* mailbox, the connection, the supervisor and the API do meanwhile.
THEOREM PushLostInDoneOnly == Spec /\ [][NothingAfterTimeout]_vars => []PushIsAnswered
<1>1. Init => PushInv
  BY DEF Init, NoWatchers, PushInv
<1>2. IInv /\ PushInv /\ [Next]_vars /\ [NothingAfterTimeout]_vars => PushInv'
  <2> SUFFICES ASSUME IInv, PushInv, [Next]_vars, [NothingAfterTimeout]_vars PROVE PushInv'
    OBVIOUS
  <2> USE DEF IInv, TypeOK, PushInv, Selected, superVars, loopVars, mailVars
  <2>1. CASE TickStep \/ StopAll
    <3>1. CASE QueryAccounts \/ ShutClient \/ VisitDone \/ SpawnDone \/ Sleep \/ StopAll
      BY <3>1 DEF QueryAccounts, ShutClient, VisitDone, SpawnDone, Sleep, StopAll
    <3>2. ASSUME NEW a \in Accounts, StopWatcher(a) \/ VisitWatcher(a) PROVE PushInv'
      BY <3>2 DEF StopWatcher, VisitWatcher
    <3>3. ASSUME NEW a \in Accounts, NEW w \in Watchers, Spawn(a, w) PROVE PushInv'
      BY <3>3 DEF Spawn
    <3> QED
      BY <2>1, <3>1, <3>2, <3>3 DEF TickStep
  <2>2. ASSUME NEW w \in Watchers, WatcherStep(w) PROVE PushInv'
    <3> USE DEF Goto
    <3>1. CASE LeaveIdle(w)
      <4>1. heard[w] \/ ~pending[w]
        BY <3>1 DEF NothingAfterTimeout, vars, LeaveIdle
      <4> QED
        BY <3>1, <4>1 DEF LeaveIdle
    <3>2. CASE Begin(w) \/ Top(w) \/ LoadParams(w) \/ LoadRaises(w) \/ Construct(w)
      BY <3>2 DEF Begin, Top, LoadParams, LoadRaises, Construct
    <3>3. CASE Login(w) \/ GiveUp(w) \/ CheckStop(w) \/ EnterIdle(w)
      BY <3>3 DEF Login, GiveUp, CheckStop, EnterIdle
    <3>4. CASE PollOnce(w)
      BY <3>4 DEF PollOnce
    <3>5. CASE Wake(w) \/ Refresh(w)
      BY <3>5 DEF Wake, Refresh
    <3>6. CASE Raise(w) \/ Backoff(w)
      BY <3>6 DEF Raise, Backoff
    <3>7. CASE Failed(w) \/ Close(w)
      BY <3>7 DEF Failed, Close, Disconnect
    <3> QED
      BY <2>2, <3>1, <3>2, <3>3, <3>4, <3>5, <3>6, <3>7 DEF WatcherStep
  <2>3. ASSUME NEW a \in Accounts, NEW m \in {"idle", "timed", "inactive", "deleted"},
               UpdateAccount(a, m)
        PROVE  PushInv'
    BY <2>3 DEF UpdateAccount
  <2>4. ASSUME NEW a \in Accounts, MailboxChanges(a) PROVE PushInv'
    BY <2>4 DEF MailboxChanges
  <2>5. CASE WorkerRestart
    BY <2>5 DEF WorkerRestart
  <2>6. CASE UNCHANGED vars
    BY <2>6 DEF vars
  <2> QED
    BY <2>1, <2>2, <2>3, <2>4, <2>5, <2>6 DEF Next
<1>3. PushInv => PushIsAnswered
  BY DEF PushInv, PushIsAnswered, Selected
<1> QED
  BY Invariance, <1>1, <1>2, <1>3, PTL DEF Spec
=============================================================================
