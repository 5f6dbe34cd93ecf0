--------------------------- MODULE TickLoopProofs ---------------------------
(***************************************************************************)
(* Proofs about TickLoop: its types and the two bounds on the time between *)
(* two polls of an account, for any number of accounts and any intervals.  *)
(***************************************************************************)
EXTENDS TickLoop, TLAPS

\* Tasks exist in a gather, polls there or while the process ends.
Phases ==
    /\ loop # "gather" => todo = {}
    /\ loop \in {"query", "sleep"} => polling = {}
    /\ todo # {} => \A a \in polling : elapsed[a] = 0
    /\ \A a, b \in polling : elapsed[a] = elapsed[b]

\* An entry of next_due, or the local that becomes one, and the time since the
\* poll add up to the interval until it has run down.
Running(a) ==
    /\ pace[a] # None
    /\ since[a] = elapsed[a]
    /\ since[a] + chosen[a] >= pace[a]
    /\ chosen[a] # 0 => since[a] + chosen[a] = pace[a]

Waiting(a) ==
    IF pace[a] = None THEN nextDue[a] = None
    ELSE /\ nextDue[a] # None
         /\ since[a] + nextDue[a] >= pace[a]
         /\ nextDue[a] # 0 => since[a] + nextDue[a] = pace[a]

Entries == \A a \in Accounts : IF a \in polling THEN Running(a) ELSE Waiting(a)

\* How late an account may be in each phase of the loop.
Tracked == Accounts \ excused
Lateness ==
    /\ loop = "ending" => Tracked = {}
    /\ \A a \in Tracked :
        /\ a \in active /\ pace[a] # None
        /\ loop = "gather" /\ a \in todo => since[a] < pace[a] + PollTime + TickSeconds
        /\ loop = "gather" /\ a \notin todo \cup polling =>
            IF todo # {} THEN since[a] < pace[a]
            ELSE /\ since[a] < pace[a] + PollTime
                 /\ \A b \in polling : since[a] < pace[a] + elapsed[b]
        /\ loop = "sleep" => since[a] < pace[a] + PollTime + slept
        /\ loop = "query" => since[a] < pace[a] + PollTime + TickSeconds

IInv == TypeOK /\ Phases /\ Entries /\ Lateness
-----------------------------------------------------------------------------
\* The largest interval is one of the two.
LEMMA Bounds ==
    /\ Larger(Interval, SafetyInterval) \in Nat
    /\ Interval \in Times \ {0} /\ SafetyInterval \in Times \ {0}
    /\ Enough \in Nat
    /\ 0 \in Times /\ 0 \in 0 .. Enough /\ 0 \in 0 .. PollTime /\ 0 \in 0 .. TickSeconds
    /\ \A t \in Times \ {0} : t - 1 \in Times
    /\ Times \subseteq Nat
    /\ PollTime < Enough
    /\ \A t \in Times : t < Enough
    BY TimesAssumption DEF Larger, Enough, Times

LEMMA InitInv == Init => IInv
<1> SUFFICES ASSUME Init PROVE IInv
    OBVIOUS
<1> USE TimesAssumption, NoneAssumption, Bounds
<1>1. TypeOK
    BY DEF Init, TypeOK
<1>2. Phases
    BY DEF Init, Phases
<1>3. Entries
    BY DEF Init, Entries, Waiting
<1>4. Lateness
    BY DEF Init, Lateness, Tracked
<1> QED
    BY <1>1, <1>2, <1>3, <1>4 DEF IInv

\* Every step keeps the invariant: one step of the proof per action.
LEMMA StepInv == IInv /\ [Next]_vars => IInv'
<1> SUFFICES ASSUME IInv, [Next]_vars PROVE IInv'
    OBVIOUS
<1> USE TimesAssumption, NoneAssumption, Bounds
<1>i. TypeOK /\ Phases /\ Entries /\ Lateness
    BY DEF IInv
<1>1. ASSUME Query PROVE IInv'
    <2>1. TypeOK'
        BY <1>i, <1>1 DEF Query, env, timers, TypeOK, Phases, Due, ResolveInterval
    <2>2. Phases'
        BY <1>i, <1>1 DEF Query, env, timers, TypeOK, Phases
    <2>3. Entries'
        BY <1>i, <1>1 DEF Query, env, timers, TypeOK, Phases, Entries, Running, Waiting, Due, ResolveInterval, Times
    <2>4. Lateness'
        BY <1>i, <1>1 DEF Query, env, timers, TypeOK, Phases, Entries, Running, Waiting, Lateness, Tracked, Due, ResolveInterval, Times
    <2> QED
        BY <2>1, <2>2, <2>3, <2>4 DEF IInv
<1>2. ASSUME QueryFails PROVE IInv'
    <2>1. TypeOK'
        BY <1>i, <1>2 DEF QueryFails, env, timers, TypeOK, Due, ResolveInterval
    <2>2. Phases'
        BY <1>i, <1>2 DEF QueryFails, env, timers, TypeOK, Phases
    <2>3. Entries'
        BY <1>i, <1>2 DEF QueryFails, env, timers, TypeOK, Phases, Entries, Running, Waiting, Due, ResolveInterval, Times
    <2>4. Lateness'
        BY <1>i, <1>2 DEF QueryFails, env, timers, TypeOK, Phases, Entries, Running, Waiting, Lateness, Tracked, Due, ResolveInterval, Times
    <2> QED
        BY <2>1, <2>2, <2>3, <2>4 DEF IInv
<1>3. ASSUME GetFails PROVE IInv'
    <2>1. TypeOK'
        BY <1>i, <1>3 DEF GetFails, env, timers, TypeOK, Due, ResolveInterval
    <2>2. Phases'
        BY <1>i, <1>3 DEF GetFails, env, timers, TypeOK, Phases
    <2>3. Entries'
        BY <1>i, <1>3 DEF GetFails, env, timers, TypeOK, Phases, Entries, Running, Waiting, Due, ResolveInterval, Times
    <2>4. Lateness'
        BY <1>i, <1>3 DEF GetFails, env, timers, TypeOK, Phases, Entries, Running, Waiting, Lateness, Tracked, Due, ResolveInterval, Times
    <2> QED
        BY <2>1, <2>2, <2>3, <2>4 DEF IInv
<1>4. ASSUME GatherReturns PROVE IInv'
    <2>1. TypeOK'
        BY <1>i, <1>4 DEF GatherReturns, env, timers, TypeOK, Due, ResolveInterval
    <2>2. Phases'
        BY <1>i, <1>4 DEF GatherReturns, env, timers, TypeOK, Phases
    <2>3. Entries'
        BY <1>i, <1>4 DEF GatherReturns, env, timers, TypeOK, Phases, Entries, Running, Waiting, Due, ResolveInterval, Times
    <2>4. Lateness'
        BY <1>i, <1>4 DEF GatherReturns, env, timers, TypeOK, Phases, Entries, Running, Waiting, Lateness, Tracked, Due, ResolveInterval, Times
    <2> QED
        BY <2>1, <2>2, <2>3, <2>4 DEF IInv
<1>5. ASSUME Wake PROVE IInv'
    <2>1. TypeOK'
        BY <1>i, <1>5 DEF Wake, env, timers, TypeOK, Due, ResolveInterval
    <2>2. Phases'
        BY <1>i, <1>5 DEF Wake, env, timers, TypeOK, Phases
    <2>3. Entries'
        BY <1>i, <1>5 DEF Wake, env, timers, TypeOK, Phases, Entries, Running, Waiting, Due, ResolveInterval, Times
    <2>4. Lateness'
        BY <1>i, <1>5 DEF Wake, env, timers, TypeOK, Phases, Entries, Running, Waiting, Lateness, Tracked, Due, ResolveInterval, Times
    <2> QED
        BY <2>1, <2>2, <2>3, <2>4 DEF IInv
<1>6. ASSUME Exit PROVE IInv'
    <2>1. TypeOK'
        BY <1>i, <1>6 DEF Exit, Fresh, env, timers, TypeOK, Due, ResolveInterval
    <2>2. Phases'
        BY <1>i, <1>6 DEF Exit, Fresh, env, timers, TypeOK, Phases
    <2>3. Entries'
        BY <1>i, <1>6 DEF Exit, Fresh, env, timers, TypeOK, Phases, Entries, Running, Waiting, Due, ResolveInterval, Times
    <2>4. Lateness'
        BY <1>i, <1>6 DEF Exit, Fresh, env, timers, TypeOK, Phases, Entries, Running, Waiting, Lateness, Tracked, Due, ResolveInterval, Times
    <2> QED
        BY <2>1, <2>2, <2>3, <2>4 DEF IInv
<1>7. ASSUME WorkerRestart PROVE IInv'
    <2>1. TypeOK'
        BY <1>i, <1>7 DEF WorkerRestart, Fresh, env, timers, TypeOK, Due, ResolveInterval
    <2>2. Phases'
        BY <1>i, <1>7 DEF WorkerRestart, Fresh, env, timers, TypeOK, Phases
    <2>3. Entries'
        BY <1>i, <1>7 DEF WorkerRestart, Fresh, env, timers, TypeOK, Phases, Entries, Running, Waiting, Due, ResolveInterval, Times
    <2>4. Lateness'
        BY <1>i, <1>7 DEF WorkerRestart, Fresh, env, timers, TypeOK, Phases, Entries, Running, Waiting, Lateness, Tracked, Due, ResolveInterval, Times
    <2> QED
        BY <2>1, <2>2, <2>3, <2>4 DEF IInv
<1>8. ASSUME Pass PROVE IInv'
    <2>1. TypeOK'
        <3>1. slept' \in 0 .. TickSeconds
            BY <1>i, <1>8 DEF Pass, TypeOK
        <3>2. elapsed' \in [Accounts -> 0 .. PollTime]
            BY <1>i, <1>8 DEF Pass, TypeOK
        <3>3. chosen' \in [Accounts -> Times]
            BY <1>i, <1>8 DEF Pass, TypeOK
        <3>4. nextDue' \in [Accounts -> Times \cup {None}]
            <4> SUFFICES ASSUME NEW a \in Accounts
                         PROVE  (IF Due(a) THEN nextDue[a] ELSE nextDue[a] - 1) \in Times \cup {None}
                BY <1>8 DEF Pass
            <4>1. nextDue[a] \in Times \cup {None}
                BY <1>i DEF TypeOK
            <4> QED
                BY <4>1 DEF Due
        <3>5. since' \in [Accounts -> 0 .. Enough]
            BY <1>i, <1>8 DEF Pass, TypeOK
        <3>6. \A a \in polling' : nextDue'[a] \in {None, 0}
            BY <1>i, <1>8 DEF Pass, TypeOK, Due
        <3> QED
            BY <3>1, <3>2, <3>3, <3>4, <3>5, <3>6, <1>i, <1>8 DEF Pass, env, TypeOK
    <2>2. Phases'
        BY <1>i, <1>8 DEF Pass, env, timers, TypeOK, Phases
    <2>3. Entries'
        <3> SUFFICES ASSUME NEW a \in Accounts
                     PROVE  IF a \in polling THEN Running(a)' ELSE Waiting(a)'
            BY <1>8 DEF Pass, Entries
        <3>1. /\ nextDue[a] \in Times \cup {None} /\ chosen[a] \in Times
              /\ pace[a] \in {Interval, SafetyInterval, None}
              /\ since[a] \in 0 .. Enough /\ elapsed[a] \in 0 .. PollTime
            BY <1>i DEF TypeOK
        <3>2. /\ since'[a] = IF since[a] = Enough THEN Enough ELSE since[a] + 1
              /\ chosen'[a] = IF chosen[a] = 0 THEN 0 ELSE chosen[a] - 1
              /\ nextDue'[a] = IF nextDue[a] \in {None, 0} THEN nextDue[a] ELSE nextDue[a] - 1
              /\ a \in polling => elapsed'[a] = elapsed[a] + 1 /\ elapsed[a] < PollTime
              /\ pace' = pace
            BY <1>i, <1>8 DEF Pass, TypeOK, Due
        <3>3. CASE a \in polling
            <4>1. Running(a)
                BY <1>i, <3>3 DEF Entries
            <4>2. /\ PollTime < Enough /\ pace[a] \in Times /\ pace[a] \in Nat
                  /\ chosen[a] \in Nat /\ since[a] \in Nat /\ elapsed[a] \in Nat
                <5>1. pace[a] \in Times
                    BY <3>1, <4>1 DEF Running
                <5> QED
                    <6>1. /\ pace[a] \in Nat /\ chosen[a] \in Nat
                        BY <3>1, <5>1
                    <6>2. since[a] \in Nat /\ elapsed[a] \in Nat
                        BY <3>1
                    <6> QED
                        BY <5>1, <6>1, <6>2
            <4>3. since'[a] = since[a] + 1 /\ elapsed'[a] = since'[a]
                BY <3>2, <3>3, <4>1, <4>2 DEF Running
            <4>4. Running(a)'
                BY <3>2, <4>1, <4>2, <4>3 DEF Running
            <4> QED
                BY <3>3, <4>4
        <3>4. CASE a \notin polling
            <4>1. Waiting(a)
                BY <1>i, <3>4 DEF Entries
            <4>2. CASE pace[a] = None
                BY <3>2, <3>4, <4>1, <4>2 DEF Waiting
            <4>3. CASE pace[a] # None
                <5>1. /\ pace[a] \in Times /\ nextDue[a] \in Times
                      /\ pace[a] < Enough /\ pace[a] \in Nat /\ nextDue[a] \in Nat
                      /\ since[a] \in Nat
                    <6>1. pace[a] \in Times /\ nextDue[a] \in Times
                        BY <3>1, <4>1, <4>3 DEF Waiting
                    <6> QED
                        <7>1. pace[a] \in Nat /\ nextDue[a] \in Nat /\ pace[a] < Enough
                            BY <6>1
                        <7>2. since[a] \in Nat
                            BY <3>1
                        <7> QED
                            BY <6>1, <7>1, <7>2
                <5>2. Waiting(a)'
                    <6>1. CASE nextDue[a] = 0
                        BY <3>2, <4>1, <4>3, <5>1, <6>1 DEF Waiting
                    <6>2. CASE nextDue[a] # 0
                        BY <3>2, <4>1, <4>3, <5>1, <6>2 DEF Waiting
                    <6> QED
                        BY <6>1, <6>2
                <5> QED
                    BY <3>4, <5>2
            <4> QED
                BY <4>2, <4>3
        <3> QED
            BY <3>3, <3>4
    <2>4. Lateness'
        <3> SUFFICES ASSUME NEW a \in Tracked
                     PROVE  /\ loop # "ending" /\ a \in active /\ pace[a] # None
                            /\ loop = "gather" /\ a \notin polling =>
                                /\ since'[a] < pace[a] + PollTime
                                /\ \A b \in polling : since'[a] < pace[a] + elapsed'[b]
                            /\ loop = "sleep" => since'[a] < pace[a] + PollTime + slept'
            BY <1>i, <1>8 DEF Pass, env, Lateness, Tracked, Phases
        <3>1. /\ a \in Accounts /\ a \in active /\ loop # "ending"
              /\ pace[a] \in Times \ {0} /\ pace[a] \in Nat /\ since[a] \in Nat
            <4>1. a \in Accounts /\ a \in active /\ loop # "ending" /\ pace[a] # None
                BY <1>i DEF Lateness, Tracked
            <4>2. pace[a] \in {Interval, SafetyInterval} /\ since[a] \in 0 .. Enough
                BY <1>i, <4>1 DEF TypeOK
            <4> QED
                BY <4>1, <4>2
        <3>2. since'[a] \in Nat /\ since'[a] <= since[a] + 1
            BY <1>i, <1>8, <3>1 DEF Pass, TypeOK
        <3>3. \A b \in polling : elapsed'[b] = elapsed[b] + 1 /\ elapsed[b] \in Nat /\ elapsed[b] < PollTime
            BY <1>i, <1>8 DEF Pass, TypeOK
        <3>4. ASSUME loop = "gather", a \notin polling
              PROVE  since'[a] < pace[a] + PollTime /\ \A b \in polling : since'[a] < pace[a] + elapsed'[b]
            <4>1. PICK c \in polling : TRUE
                BY <1>8, <3>4 DEF Pass
            <4>2. \A b \in polling : since[a] < pace[a] + elapsed[b]
                BY <1>i, <1>8, <3>4 DEF Lateness, Pass
            <4>3. \A b \in polling : since'[a] < pace[a] + elapsed'[b]
                BY <3>1, <3>2, <3>3, <4>2
            <4>4. elapsed'[c] <= PollTime
                BY <3>3, <4>1
            <4> QED
                BY <3>1, <3>2, <3>3, <4>1, <4>3, <4>4
        <3>5. ASSUME loop = "sleep" PROVE since'[a] < pace[a] + PollTime + slept'
            <4>1. slept' = slept + 1 /\ slept \in Nat
                BY <1>i, <1>8, <3>5 DEF Pass, TypeOK
            <4>2. since[a] < pace[a] + PollTime + slept
                BY <1>i, <3>5 DEF Lateness
            <4> QED
                BY <3>1, <3>2, <4>1, <4>2
        <3> QED
            BY <3>1, <3>4, <3>5
    <2> QED
        BY <2>1, <2>2, <2>3, <2>4 DEF IInv
<1>9. ASSUME SetTrouble PROVE IInv'
    <2>1. TypeOK'
        BY <1>i, <1>9 DEF SetTrouble, env, timers, TypeOK, Due, ResolveInterval
    <2>2. Phases'
        BY <1>i, <1>9 DEF SetTrouble, env, timers, TypeOK, Phases
    <2>3. Entries'
        BY <1>i, <1>9 DEF SetTrouble, env, timers, TypeOK, Phases, Entries, Running, Waiting, Due, ResolveInterval, Times
    <2>4. Lateness'
        BY <1>i, <1>9 DEF SetTrouble, env, timers, TypeOK, Phases, Entries, Running, Waiting, Lateness, Tracked, Due, ResolveInterval, Times
    <2> QED
        BY <2>1, <2>2, <2>3, <2>4 DEF IInv
<1>10. ASSUME NEW a \in Accounts, Gone(a) PROVE IInv'
    <2>1. TypeOK'
        BY <1>i, <1>10 DEF Gone, env, timers, TypeOK, Due, ResolveInterval
    <2>2. Phases'
        BY <1>i, <1>10 DEF Gone, env, timers, TypeOK, Phases
    <2>3. Entries'
        BY <1>i, <1>10 DEF Gone, env, timers, TypeOK, Phases, Entries, Running, Waiting, Due, ResolveInterval, Times
    <2>4. Lateness'
        BY <1>i, <1>10 DEF Gone, env, timers, TypeOK, Phases, Entries, Running, Waiting, Lateness, Tracked, Due, ResolveInterval, Times
    <2> QED
        BY <2>1, <2>2, <2>3, <2>4 DEF IInv
<1>11. ASSUME NEW a \in Accounts, NotDue(a) PROVE IInv'
    <2>1. TypeOK'
        BY <1>i, <1>11 DEF NotDue, env, timers, TypeOK, Due, ResolveInterval
    <2>2. Phases'
        BY <1>i, <1>11 DEF NotDue, env, timers, TypeOK, Phases
    <2>3. Entries'
        BY <1>i, <1>11 DEF NotDue, env, timers, TypeOK, Phases, Entries, Running, Waiting, Due, ResolveInterval, Times
    <2>4. Lateness'
        BY <1>i, <1>11 DEF NotDue, env, timers, TypeOK, Phases, Entries, Running, Waiting, Lateness, Tracked, Due, ResolveInterval, Times
    <2> QED
        BY <2>1, <2>2, <2>3, <2>4 DEF IInv
<1>12. ASSUME NEW a \in Accounts, BeginPoll(a) PROVE IInv'
    <2>1. TypeOK'
        BY <1>i, <1>12 DEF BeginPoll, env, timers, TypeOK, Due, ResolveInterval
    <2>2. Phases'
        BY <1>i, <1>12 DEF BeginPoll, env, timers, TypeOK, Phases
    <2>3. Entries'
        BY <1>i, <1>12 DEF BeginPoll, env, timers, TypeOK, Phases, Entries, Running, Waiting, Due, ResolveInterval, Times
    <2>4. Lateness'
        BY <1>i, <1>12 DEF BeginPoll, env, timers, TypeOK, Phases, Entries, Running, Waiting, Lateness, Tracked, Due, ResolveInterval, Times
    <2> QED
        BY <2>1, <2>2, <2>3, <2>4 DEF IInv
<1>13. ASSUME NEW a \in Accounts, EndPoll(a) PROVE IInv'
    <2>1. TypeOK'
        BY <1>i, <1>13 DEF EndPoll, env, timers, TypeOK, Due, ResolveInterval
    <2>2. Phases'
        BY <1>i, <1>13 DEF EndPoll, env, timers, TypeOK, Phases
    <2>3. Entries'
        BY <1>i, <1>13 DEF EndPoll, env, timers, TypeOK, Phases, Entries, Running, Waiting, Due, ResolveInterval, Times
    <2>4. Lateness'
        <3> SUFFICES ASSUME NEW b \in Tracked
                     PROVE  /\ loop # "ending" /\ b \in active /\ pace[b] # None
                            /\ loop = "gather" /\ b \notin polling' =>
                                /\ since[b] < pace[b] + PollTime
                                /\ \A c \in polling' : since[b] < pace[b] + elapsed'[c]
            BY <1>i, <1>13 DEF EndPoll, env, Lateness, Tracked, Phases
        <3>1. /\ a \in polling /\ todo = {} /\ polling' = polling \ {a}
              /\ \A c \in polling' : elapsed'[c] = elapsed[c]
            BY <1>i, <1>13 DEF EndPoll, TypeOK
        <3>2. loop # "ending" /\ b \in active /\ b \in Accounts /\ pace[b] \in Times \ {0}
            BY <1>i DEF Lateness, Tracked, TypeOK
        <3>3. \A c \in polling : elapsed[c] \in 0 .. PollTime /\ elapsed[c] = elapsed[a]
            BY <1>i, <3>1 DEF TypeOK, Phases
        <3>4. since[b] \in Nat
            BY <1>i, <3>2 DEF TypeOK
        <3>5. CASE b = a
            <4>1. since[b] = elapsed[a]
                BY <1>i, <3>1, <3>5 DEF Entries, Running, TypeOK
            <4>2. pace[b] \in Nat \ {0} /\ elapsed[a] \in 0 .. PollTime
                BY <3>1, <3>2, <3>3
            <4>3. since[b] < pace[b] + PollTime
                BY <4>1, <4>2
            <4>4. ASSUME NEW c \in polling' PROVE since[b] < pace[b] + elapsed'[c]
                BY <3>1, <3>3, <4>1, <4>2
            <4> QED
                BY <3>2, <4>2, <4>3, <4>4
        <3>6. CASE b # a
            <4>1. loop = "gather" /\ b \notin polling' =>
                    since[b] < pace[b] + PollTime /\ \A c \in polling : since[b] < pace[b] + elapsed[c]
                BY <1>i, <3>1, <3>2, <3>6 DEF Lateness
            <4> QED
                BY <3>1, <3>2, <4>1
        <3> QED
            BY <3>5, <3>6
    <2> QED
        BY <2>1, <2>2, <2>3, <2>4 DEF IInv
<1>14. ASSUME NEW a \in Accounts, NEW on \in BOOLEAN, SetActive(a, on) PROVE IInv'
    <2>1. TypeOK'
        BY <1>i, <1>14 DEF SetActive, env, timers, TypeOK, Due, ResolveInterval
    <2>2. Phases'
        BY <1>i, <1>14 DEF SetActive, env, timers, TypeOK, Phases
    <2>3. Entries'
        BY <1>i, <1>14 DEF SetActive, env, timers, TypeOK, Phases, Entries, Running, Waiting, Due, ResolveInterval, Times
    <2>4. Lateness'
        BY <1>i, <1>14 DEF SetActive, env, timers, TypeOK, Phases, Entries, Running, Waiting, Lateness, Tracked, Due, ResolveInterval, Times
    <2> QED
        BY <2>1, <2>2, <2>3, <2>4 DEF IInv
<1>15. ASSUME NEW a \in Accounts, NEW on \in BOOLEAN, SetPushing(a, on) PROVE IInv'
    <2>1. TypeOK'
        BY <1>i, <1>15 DEF SetPushing, env, timers, TypeOK, Due, ResolveInterval
    <2>2. Phases'
        BY <1>i, <1>15 DEF SetPushing, env, timers, TypeOK, Phases
    <2>3. Entries'
        BY <1>i, <1>15 DEF SetPushing, env, timers, TypeOK, Phases, Entries, Running, Waiting, Due, ResolveInterval, Times
    <2>4. Lateness'
        BY <1>i, <1>15 DEF SetPushing, env, timers, TypeOK, Phases, Entries, Running, Waiting, Lateness, Tracked, Due, ResolveInterval, Times
    <2> QED
        BY <2>1, <2>2, <2>3, <2>4 DEF IInv
<1>16. CASE UNCHANGED vars
    BY <1>i, <1>16 DEF vars, env, timers, IInv, TypeOK, Phases, Entries, Running, Waiting, Lateness, Tracked, Due
<1> QED
    BY <1>1, <1>2, <1>3, <1>4, <1>5, <1>6, <1>7, <1>8, <1>9, <1>10, <1>11, <1>12, <1>13, <1>14, <1>15, <1>16 DEF Next, LoopStep
-----------------------------------------------------------------------------
\* The invariant holds in every reachable state.
LEMMA Invariant == Spec => []IInv
<1> QED
    BY InitInv, StepInv, PTL DEF Spec

\* The types, and that only accounts that are due are polled.
THEOREM TypeCorrect == Spec => []TypeOK
<1>1. IInv => TypeOK
    BY DEF IInv
<1> QED
    BY <1>1, Invariant, PTL

\* No poll is later than the slowest poll and a tick allow.
THEOREM Punctual == Spec => []NeverLate
<1>1. IInv => NeverLate
    <2> SUFFICES ASSUME IInv, NEW a \in active \ excused
                 PROVE  since[a] < pace[a] + PollTime + TickSeconds
        BY DEF NeverLate
    <2>1. a \in Tracked /\ TypeOK /\ Phases /\ Entries /\ Lateness
        BY DEF IInv, Tracked, TypeOK
    <2> QED
        BY <2>1, TimesAssumption, NoneAssumption, Bounds
        DEF Tracked, TypeOK, Phases, Entries, Running, Waiting, Lateness
<1> QED
    BY <1>1, Invariant, PTL

\* No poll of the loop comes before the interval of the one before has passed.
THEOREM IntervalKept == Spec => KeepsInterval
<1> DEFINE Kept(a) == a \in polling' \ polling /\ pace[a] # None => since[a] >= pace[a]
<1>1. IInv /\ [Next]_vars => [\A a \in Accounts : Kept(a)]_vars
    <2> SUFFICES ASSUME IInv, Next, NEW a \in Accounts, a \in polling' \ polling, pace[a] # None
                 PROVE  since[a] >= pace[a]
        BY DEF Kept
    <2>1. BeginPoll(a)
        BY DEF Next, LoopStep, Query, QueryFails, GetFails, GatherReturns, Wake, Exit, WorkerRestart,
               Fresh, Pass, SetTrouble, Gone, NotDue, BeginPoll, EndPoll, SetActive, SetPushing
    <2> QED
        BY <2>1, TimesAssumption, NoneAssumption, Bounds DEF IInv, TypeOK, Entries, Running, Waiting, BeginPoll, Due, Times
<1> QED
    BY <1>1, Invariant, PTL DEF KeepsInterval, Spec
=============================================================================
