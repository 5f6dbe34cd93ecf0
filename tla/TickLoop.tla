------------------------------ MODULE TickLoop ------------------------------
(***************************************************************************)
(* worker/worker/main.py: the asyncio loop that finds the accounts that    *)
(* are due at every tick and waits until all their polls have ended.  The  *)
(* loop runs in one thread and takes no time itself; a poll (Poller) runs  *)
(* in a thread of its own and takes at most PollTime, the wait for one of  *)
(* the executor's threads included.                                        *)
(*                                                                         *)
(* Points of time are kept as the time that is left until then; Pass       *)
(* changes all timers at once.  Left out: the supervisor's reconcile,      *)
(* which touches none of this (IdleSupervision), and the wait for a free   *)
(* connection of the pool, which counts as trouble when it times out.      *)
(***************************************************************************)
EXTENDS Naturals

CONSTANTS
    Accounts,
    Interval,           \* poll_interval_seconds of an account, or the default
    SafetyInterval,     \* idle_safety_poll_seconds
    TickSeconds,
    PollTime,           \* bound: the longest poll, and wait for its thread
    None

ASSUME TimesAssumption ==
    /\ Interval \in Nat \ {0} /\ SafetyInterval \in Nat \ {0}
    /\ TickSeconds \in Nat /\ PollTime \in Nat
ASSUME NoneAssumption == None \notin Nat

VARIABLES
    active,         \* the accounts with is_active
    pushing,        \* those in IDLE mode that the supervisor says it watches
    trouble,        \* statements fail: no database, or no connection is free
    loop, slept,
    todo,           \* accounts of this gather whose _poll_if_due has not begun
    polling,        \* accounts with a poll_account under way
    elapsed,        \* how long it has taken
    chosen,         \* time left until now + interval, locals of _poll_if_due
    nextDue,        \* next_due: time left, None without an entry
    (* history *)
    pace,           \* the interval chosen for the last poll, None for a fresh start
    since,          \* time since that poll began, up to Enough
    excused         \* accounts that may be polled late

env == <<active, pushing, trouble>>
timers == <<slept, elapsed, chosen, nextDue, since>>
vars == <<env, loop, todo, polling, timers, pace, excused>>

Larger(m, n) == IF m > n THEN m ELSE n
Enough == Larger(Interval, SafetyInterval) + PollTime + TickSeconds + 1
Times == 0 .. Larger(Interval, SafetyInterval)

\* The types; only accounts that are due are polled.
TypeOK ==
    /\ \A a \in polling : nextDue[a] \in {None, 0}
    /\ active \in SUBSET Accounts /\ pushing \in SUBSET Accounts
    /\ trouble \in BOOLEAN
    /\ loop \in {"query", "gather", "sleep", "ending"}
    /\ slept \in 0 .. TickSeconds
    /\ todo \in SUBSET Accounts
    /\ polling \in SUBSET (Accounts \ todo)
    /\ elapsed \in [Accounts -> 0 .. PollTime]
    /\ chosen \in [Accounts -> Times]
    /\ nextDue \in [Accounts -> Times \cup {None}]
    /\ pace \in [Accounts -> {Interval, SafetyInterval, None}]
    /\ since \in [Accounts -> 0 .. Enough]
    /\ excused \in SUBSET Accounts
-----------------------------------------------------------------------------
\* A process that starts, with an empty next_due.
Fresh ==
    /\ loop' = "query" /\ slept' = 0 /\ todo' = {} /\ polling' = {}
    /\ elapsed' = [a \in Accounts |-> 0]
    /\ chosen' = [a \in Accounts |-> 0]
    /\ nextDue' = [a \in Accounts |-> None]
    /\ pace' = [a \in Accounts |-> None]
    /\ since' = [a \in Accounts |-> 0]
    /\ excused' = Accounts

Init ==
    /\ active \in SUBSET Accounts /\ pushing \in SUBSET Accounts
    /\ trouble \in BOOLEAN
    /\ loop = "query" /\ slept = 0 /\ todo = {} /\ polling = {}
    /\ elapsed = [a \in Accounts |-> 0]
    /\ chosen = [a \in Accounts |-> 0]
    /\ nextDue = [a \in Accounts |-> None]
    /\ pace = [a \in Accounts |-> None]
    /\ since = [a \in Accounts |-> 0]
    /\ excused = Accounts

\* The active accounts are selected, and a task is made for each.
Query ==
    /\ loop = "query"
    /\ ~trouble
    /\ todo' = active
    /\ loop' = "gather"
    /\ UNCHANGED <<env, polling, timers, pace, excused>>

\* Log and retry next tick.
QueryFails ==
    /\ loop = "query"
    /\ trouble
    /\ loop' = "sleep"
    /\ slept' = 0
    /\ excused' = Accounts
    /\ UNCHANGED <<env, todo, polling, elapsed, chosen, nextDue, pace, since>>

\* The account was deactivated or deleted after the query.
Gone(a) ==
    /\ a \in todo \ active
    /\ ~trouble
    /\ nextDue' = [nextDue EXCEPT ![a] = None]
    /\ pace' = [pace EXCEPT ![a] = None]
    /\ todo' = todo \ {a}
    /\ UNCHANGED <<env, loop, polling, slept, elapsed, chosen, since, excused>>

Due(a) == nextDue[a] \in {None, 0}

ResolveInterval(a) == IF a \in pushing THEN SafetyInterval ELSE Interval

\* Variant of NotDue: an account with a live IDLE connection is left to it.
NotDueIfPushing(a) ==
    /\ a \in todo \cap active
    /\ ~trouble
    /\ ~Due(a) \/ a \in pushing
    /\ todo' = todo \ {a}
    /\ UNCHANGED <<env, loop, polling, timers, pace, excused>>

NotDue(a) ==
    /\ a \in todo \cap active
    /\ ~trouble
    /\ ~Due(a)
    /\ todo' = todo \ {a}
    /\ UNCHANGED <<env, loop, polling, timers, pace, excused>>

\* Variant of BeginPoll: next_due is not looked at.
BeginPollAlways(a) ==
    /\ a \in todo \cap active
    /\ ~trouble
    /\ todo' = todo \ {a}
    /\ polling' = polling \cup {a}
    /\ elapsed' = [elapsed EXCEPT ![a] = 0]
    /\ chosen' = [chosen EXCEPT ![a] = ResolveInterval(a)]
    /\ pace' = [pace EXCEPT ![a] = ResolveInterval(a)]
    /\ since' = [since EXCEPT ![a] = 0]
    /\ excused' = excused \ {a}
    /\ UNCHANGED <<env, loop, slept, nextDue>>

\* now and interval are taken, poll_account goes to a thread.
BeginPoll(a) ==
    /\ a \in todo \cap active
    /\ ~trouble
    /\ Due(a)
    /\ todo' = todo \ {a}
    /\ polling' = polling \cup {a}
    /\ elapsed' = [elapsed EXCEPT ![a] = 0]
    /\ chosen' = [chosen EXCEPT ![a] = ResolveInterval(a)]
    /\ pace' = [pace EXCEPT ![a] = ResolveInterval(a)]
    /\ since' = [since EXCEPT ![a] = 0]
    /\ excused' = excused \ {a}
    /\ UNCHANGED <<env, loop, slept, nextDue>>

\* db.get raises outside the inner try: gather raises too, main's loop ends,
\* and asyncio.run waits for the threads.
GetFails ==
    /\ todo # {}
    /\ trouble
    /\ loop' = "ending"
    /\ todo' = {}
    /\ excused' = Accounts
    /\ UNCHANGED <<env, polling, timers, pace>>

\* Variant of EndPoll: next_due is set only after a poll that did not raise.
EndPollUnlessRaised(a) ==
    /\ a \in polling
    /\ todo = {}
    /\ \E raised \in BOOLEAN :
            nextDue' = [nextDue EXCEPT ![a] = IF raised THEN @ ELSE chosen[a]]
    /\ chosen' = [chosen EXCEPT ![a] = 0]
    /\ elapsed' = [elapsed EXCEPT ![a] = 0]
    /\ polling' = polling \ {a}
    /\ UNCHANGED <<env, loop, slept, todo, pace, since, excused>>

\* Variant of EndPoll: the interval is counted from the end of the poll.
EndPollFromNow(a) ==
    /\ a \in polling
    /\ todo = {}
    /\ nextDue' = [nextDue EXCEPT ![a] = pace[a]]
    /\ chosen' = [chosen EXCEPT ![a] = 0]
    /\ elapsed' = [elapsed EXCEPT ![a] = 0]
    /\ polling' = polling \ {a}
    /\ UNCHANGED <<env, loop, slept, todo, pace, since, excused>>

\* The poll returns or raises, and the loop, which is free, runs the finally.
EndPoll(a) ==
    /\ a \in polling
    /\ todo = {}
    /\ nextDue' = [nextDue EXCEPT ![a] = chosen[a]]
    /\ chosen' = [chosen EXCEPT ![a] = 0]
    /\ elapsed' = [elapsed EXCEPT ![a] = 0]
    /\ polling' = polling \ {a}
    /\ UNCHANGED <<env, loop, slept, todo, pace, since, excused>>

\* gather returns when the last task has ended.
GatherReturns ==
    /\ loop = "gather"
    /\ todo = {}
    /\ polling = {}
    /\ loop' = "sleep"
    /\ slept' = 0
    /\ UNCHANGED <<env, todo, polling, elapsed, chosen, nextDue, since, pace, excused>>

Wake ==
    /\ loop = "sleep"
    /\ slept = TickSeconds
    /\ loop' = "query"
    /\ UNCHANGED <<env, todo, polling, timers, pace, excused>>

\* The process has ended; the container is started again.
Exit ==
    /\ loop = "ending"
    /\ polling = {}
    /\ Fresh
    /\ UNCHANGED env

\* Or it is killed.
WorkerRestart == Fresh /\ UNCHANGED env

\* Time passes while the loop sleeps or waits for polls.
Pass ==
    /\ \/ loop = "sleep" /\ slept < TickSeconds
       \/ loop \in {"gather", "ending"} /\ todo = {} /\ polling # {}
    /\ \A a \in polling : elapsed[a] < PollTime
    /\ slept' = IF loop = "sleep" THEN slept + 1 ELSE slept
    /\ elapsed' = [a \in Accounts |-> IF a \in polling THEN elapsed[a] + 1 ELSE 0]
    /\ chosen' = [a \in Accounts |-> IF chosen[a] = 0 THEN 0 ELSE chosen[a] - 1]
    /\ nextDue' = [a \in Accounts |-> IF Due(a) THEN nextDue[a] ELSE nextDue[a] - 1]
    /\ since' = [a \in Accounts |-> IF since[a] = Enough THEN Enough ELSE since[a] + 1]
    /\ UNCHANGED <<env, loop, todo, polling, pace, excused>>

\* The API, the IDLE watchers and the database.
SetActive(a, on) ==
    /\ active' = IF on THEN active \cup {a} ELSE active \ {a}
    /\ excused' = excused \cup {a}
    /\ UNCHANGED <<pushing, trouble, loop, todo, polling, timers, pace>>

SetPushing(a, on) ==
    /\ pushing' = IF on THEN pushing \cup {a} ELSE pushing \ {a}
    /\ UNCHANGED <<active, trouble, loop, todo, polling, timers, pace, excused>>

SetTrouble ==
    /\ trouble' = ~trouble
    /\ UNCHANGED <<active, pushing, loop, todo, polling, timers, pace, excused>>

LoopStep ==
    \/ Query \/ QueryFails \/ GetFails \/ GatherReturns \/ Wake \/ Exit
    \/ \E a \in Accounts : Gone(a) \/ NotDue(a) \/ BeginPoll(a)

Next ==
    \/ LoopStep \/ WorkerRestart \/ Pass \/ SetTrouble
    \/ \E a \in Accounts :
        EndPoll(a) \/ \E on \in BOOLEAN : SetActive(a, on) \/ SetPushing(a, on)

Spec == Init /\ [][Next]_vars

\* The loop goes on, polls end, time passes.
Fairness ==
    WF_vars(LoopStep) /\ WF_vars(Pass) /\ \A a \in Accounts : WF_vars(EndPoll(a))

FairSpec == Spec /\ Fairness
-----------------------------------------------------------------------------
(* Properties *)

\* The tick loop leaves a mailbox alone for the interval it chose at its last
\* poll, also when that poll raised, was slow, or the account was deactivated
\* and activated again meanwhile; only a new process forgets it, or the loop
\* itself when it met the account inactive.
KeepsInterval ==
    [][\A a \in Accounts :
        a \in polling' \ polling /\ pace[a] # None => since[a] >= pace[a]]_vars

\* main.py:4-6: the slow polls of others put off a poll by less than the
\* longest of them and one tick, unless the database is in trouble.
NeverLate ==
    \A a \in active \ excused : since[a] < pace[a] + PollTime + TickSeconds

\* An account that stays active is polled again and again once the database is
\* there for good, whatever crashes and failing queries came before.
PolledAgain ==
    <>[][~WorkerRestart]_vars =>
        \A a \in Accounts : <>[](a \in active /\ ~trouble) => []<>(a \in polling)
=============================================================================
