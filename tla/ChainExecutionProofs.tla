------------------------ MODULE ChainExecutionProofs ------------------------
(***************************************************************************)
(* ChainExecution for every set of steps and every RoundLimit: its types,  *)
(* the cap of a run, the stop of an infinite one, and that it keeps the    *)
(* promise of RunReport; that each statement brings a run with a cap       *)
(* nearer to its end, and which runs have no limit at all.                 *)
(***************************************************************************)
EXTENDS ChainExecution, WellFoundedInduction, TLAPS

\* What each place in the code may rely on.
Control ==
    /\ pc \in {"idle", "load"} => iteration = 0 /\ roundsSinceStop = 0
    /\ pc = "stillActive" => infinite
    /\ pc \in {"recheck", "stillActive"} => chainCache # None

\* While both are active nothing is counted; an infinite run comes back to the
\* top of its loop only after it found both active, and it has no cap.
StopControl ==
    /\ BothActive => roundsSinceStop = 0
    /\ infinite => iterations = None
    /\ infinite /\ pc = "top" => roundsSinceStop = 0

\* The report is behind by the step just executed and by nothing else.
ReportControl ==
    /\ pc \in Label \ {"logOk", "logFailed", "broken"} => unlogged = 0
    /\ pc \in {"logOk", "logFailed"} => unlogged = 1
    /\ pc # "closed" => closings = 0

IInv ==
    /\ TypeOK
    /\ Control
    /\ IterationCap
    /\ StopControl
    /\ StopsAfterOneRound
    /\ ReportControl

\* The Boolean part of the types, on its own: no arithmetic is involved.
Flags ==
    /\ loopEnabled \in BOOLEAN /\ loopInfinite \in BOOLEAN
    /\ infinite \in BOOLEAN
    /\ fresh \in BOOLEAN
    /\ chainCache \in [loop : BOOLEAN, active : BOOLEAN] \cup {None}
    /\ accountCache \in BOOLEAN \cup {None}

\* The invariant holds when the worker starts.
LEMMA InvInit == Init => IInv
<1> SUFFICES ASSUME Init PROVE IInv
  OBVIOUS
<1>1. Flags
  BY Zenon DEF Init, NoRun, Flags
<1> QED
  BY <1>1, StepsAssumption, LimitAssumption DEF Flags, Init, NoRun, IInv, TypeOK, Control, IterationCap, StopControl, StopsAfterOneRound,
       ReportControl, BothActive, Row, Label, Working, InRound

\* Every step keeps them.
LEMMA FlagsStep == TypeOK /\ Control /\ [Next]_vars => Flags'
<1> SUFFICES ASSUME Flags, Control, [Next]_vars PROVE Flags'
  BY DEF TypeOK, Flags
<1> USE DEF Flags, captured, caches, rowVars, chainVars, runVars
<1>1. ChainLoaded \in [loop : BOOLEAN, active : BOOLEAN]
  BY DEF ChainLoaded
<1>2. CASE Load
  BY <1>1, <1>2 DEF Load
<1>3. CASE EndRound
  <2>1. ReadChain \in [loop : BOOLEAN, active : BOOLEAN]
    BY <1>1 DEF ReadChain
  <2> QED
    BY <1>3, <2>1, Zenon DEF EndRound
<1>4. CASE RecheckCount \/ RecheckFails
  BY <1>4, Zenon DEF Recheck, RecheckCount, RecheckFails
<1>5. CASE CheckActive
  BY <1>5 DEF CheckActive, Control
<1>6. CASE LogStep \/ LogAborted \/ LogCompleted
  BY <1>6, Zenon DEF LogStep, LogAborted, LogCompleted
<1>7. CASE Finish \/ WorkerRestart
  BY <1>7, Zenon DEF Finish, WorkerRestart
<1>8. CASE Start \/ LoadNothing \/ BeginRound \/ StopAtCap \/ ExecuteStep
  BY <1>8, Zenon DEF Start, LoadNothing, BeginRound, StopAtCap, ExecuteStep
<1>9. CASE ContinueOnError \/ AbortOnError \/ RunRaises
  BY <1>9, Zenon DEF ContinueOnError, AbortOnError, RunRaises
<1>10. CASE Api
  <2>1. ASSUME NEW state \in {"active", "inactive"}, NEW enabled \in BOOLEAN,
               NEW forever \in BOOLEAN, NEW max \in 1 .. RoundLimit,
               UpdateChain(state, enabled, forever, max)
        PROVE Flags'
    BY <2>1, Zenon DEF UpdateChain
  <2>2. CASE DeleteChain \/ DeleteAccount
    BY <2>2, Zenon DEF DeleteChain, DeleteAccount
  <2>3. ASSUME NEW s \in Steps, CreateStep(s) \/ DeleteStep(s) PROVE Flags'
    BY <2>3, Zenon DEF CreateStep, DeleteStep
  <2>4. ASSUME NEW state \in {"active", "inactive"}, UpdateAccount(state) PROVE Flags'
    BY <2>4, Zenon DEF UpdateAccount
  <2> QED
    BY <1>10, <2>1, <2>2, <2>3, <2>4 DEF Api
<1>11. CASE \E n \in 0 .. MaxUnread : MailboxChanges(n)
  BY <1>11, Zenon DEF MailboxChanges
<1>12. CASE UNCHANGED vars
  BY <1>12, Zenon DEF vars
<1> QED
  BY <1>2, <1>3, <1>4, <1>5, <1>6, <1>7, <1>8, <1>9, <1>10, <1>11, <1>12 DEF Next, RunStep

\* Every step of the thread keeps the invariant.
LEMMA RunStepInv == IInv /\ RunStep => IInv'
<1> SUFFICES ASSUME IInv, RunStep, Flags' PROVE IInv'
  BY FlagsStep DEF IInv, Next
<1> USE StepsAssumption, NoneAssumption, LimitAssumption
    DEF Flags, IInv, TypeOK, Control, IterationCap, StopControl, StopsAfterOneRound, ReportControl,
        BothActive, Row, Label, Working, InRound, rowVars, chainVars, captured, caches,
        runVars, reportVars, history
<1>1. CASE Load
  BY <1>1 DEF Load, ChainLoaded
<1>2. CASE LoadNothing
  BY <1>2 DEF LoadNothing
<1>3. CASE BeginRound
  BY <1>3 DEF BeginRound, CapReached
<1>4. CASE StopAtCap
  BY <1>4 DEF StopAtCap
<1>5. CASE ExecuteStep
  BY <1>5 DEF ExecuteStep
<1>6. CASE LogStep
  <2>1. TypeOK'
    <3>1. unlogged' = 0
      BY <1>6 DEF LogStep
    <3>2. remaining' \in SUBSET Steps
      BY <1>6 DEF LogStep
    <3> QED
      BY <1>6, <3>1, <3>2 DEF LogStep
  <2>2. Control' /\ ReportControl'
    BY <1>6 DEF LogStep
  <2>3. IterationCap' /\ StopControl' /\ StopsAfterOneRound'
    BY <1>6 DEF LogStep
  <2> QED
    BY <2>1, <2>2, <2>3
<1>7. CASE ContinueOnError
  BY <1>7 DEF ContinueOnError
<1>8. CASE AbortOnError
  BY <1>8 DEF AbortOnError
<1>9. CASE LogAborted
  BY <1>9 DEF LogAborted
<1>10. CASE EndRound
  <2>1. iteration' \in 0 .. RoundLimit + 1
    BY <1>10 DEF EndRound
  <2>2. TypeOK'
    BY <1>10, <2>1 DEF EndRound
  <2>3. Control'
    <3>1. chainCache' # None
      <4>1. ChainLoaded \in [loop : BOOLEAN, active : BOOLEAN]
        BY DEF ChainLoaded
      <4>2. ChainLoaded # None
        BY <4>1
      <4> QED
        BY <1>10, <4>2, Zenon DEF EndRound, ReadChain
    <3>2. pc' \in {"completed", "top", "recheck"}
      BY <1>10 DEF EndRound
    <3> QED
      BY <3>1, <3>2
  <2>4. IterationCap'
    BY <1>10 DEF EndRound
  <2>5. StopControl' /\ StopsAfterOneRound'
    BY <1>10 DEF EndRound
  <2>6. ReportControl'
    BY <1>10 DEF EndRound
  <2> QED
    BY <2>2, <2>3, <2>4, <2>5, <2>6
<1>11. CASE RecheckCount \/ RecheckFails
  BY <1>11 DEF RecheckCount, RecheckFails, Recheck
<1>12. CASE CheckActive
  BY <1>12 DEF CheckActive, RowsExist
<1>13. CASE LogCompleted
  BY <1>13 DEF LogCompleted
<1>14. CASE RunRaises
  BY <1>14 DEF RunRaises
<1>15. CASE Finish
  BY <1>15 DEF Finish
<1> QED
  BY <1>1, <1>2, <1>3, <1>4, <1>5, <1>6, <1>7, <1>8, <1>9, <1>10, <1>11, <1>12, <1>13,
     <1>14, <1>15 DEF RunStep

\* So does everything around the thread.
LEMMA OtherStepInv ==
    IInv /\ [Start \/ WorkerRestart \/ Api \/ \E n \in 0 .. MaxUnread : MailboxChanges(n)]_vars
        => IInv'
<1> SUFFICES ASSUME IInv,
                    [Start \/ WorkerRestart \/ Api
                        \/ \E n \in 0 .. MaxUnread : MailboxChanges(n)]_vars,
                    Flags'
             PROVE IInv'
  BY FlagsStep DEF IInv, Next
<1> USE StepsAssumption, NoneAssumption, LimitAssumption
    DEF Flags, IInv, TypeOK, Control, IterationCap, StopControl, StopsAfterOneRound, ReportControl,
        BothActive, Row, Label, Working, InRound, rowVars, chainVars, captured, caches,
        runVars, reportVars, history
<1>1. CASE Start
  BY <1>1 DEF Start
<1>2. CASE WorkerRestart
  BY <1>2 DEF WorkerRestart
<1>3. ASSUME NEW state \in {"active", "inactive"}, NEW enabled \in BOOLEAN,
             NEW forever \in BOOLEAN, NEW max \in 1 .. RoundLimit,
             UpdateChain(state, enabled, forever, max)
      PROVE IInv'
  BY <1>3 DEF UpdateChain, CountAgain
<1>4. CASE DeleteChain \/ DeleteAccount
  BY <1>4 DEF DeleteChain, DeleteAccount
<1>5. ASSUME NEW s \in Steps, CreateStep(s) \/ DeleteStep(s) PROVE IInv'
  <2>1. CASE CreateStep(s)
    BY <1>5, <2>1 DEF CreateStep
  <2>2. CASE DeleteStep(s)
    BY <1>5, <2>2 DEF DeleteStep
  <2> QED
    BY <1>5, <2>1, <2>2
<1>6. ASSUME NEW state \in {"active", "inactive"}, UpdateAccount(state) PROVE IInv'
  BY <1>6 DEF UpdateAccount, CountAgain
<1>7. ASSUME NEW n \in 0 .. MaxUnread, MailboxChanges(n) PROVE IInv'
  BY <1>7 DEF MailboxChanges
<1>8. CASE UNCHANGED vars
  BY <1>8 DEF vars
<1> QED
  BY <1>1, <1>2, <1>3, <1>4, <1>5, <1>6, <1>7, <1>8 DEF Api

\* The strengthened invariant holds always.
THEOREM Invariance == Spec => []IInv
<1>1. IInv /\ [Next]_vars => IInv'
  BY RunStepInv, OtherStepInv DEF Next
<1> QED
  BY <1>1, InvInit, PTL DEF Spec

\* Every variable keeps its type: no counter leaves its bounds, no ORM copy is
\* used after it was expired.
THEOREM TypeCorrect == Spec => []TypeOK
BY Invariance, PTL DEF IInv

\* execute_chain begins no round beyond the cap it captured.
THEOREM CapHolds == Spec => []IterationCap
BY Invariance, PTL DEF IInv

\* A deactivated infinite loop begins at most one more round.
THEOREM LoopStops == Spec => []StopsAfterOneRound
BY Invariance, PTL DEF IInv

\* Every step of the run is a step of RunReport, or none.
LEMMA ReportStep == IInv /\ [Next]_vars => [Report!Next]_(Report!vars)
<1> SUFFICES ASSUME IInv, [Next]_vars PROVE [Report!Next]_(Report!vars)
  OBVIOUS
<1> USE DEF IInv, TypeOK, ReportControl, Label, Working, InRound
<1>1. CASE Start
  BY <1>1 DEF Start, history, reportVars, Report!Next, Report!Begin
<1>2. CASE ExecuteStep
  BY <1>2 DEF ExecuteStep, Report!Next, Report!TakeEffect
<1>3. CASE LogStep
  BY <1>3 DEF LogStep, Report!Next, Report!Report
<1>4. CASE LogAborted \/ LogCompleted
  BY <1>4 DEF LogAborted, LogCompleted, Report!Next, Report!Close
<1>5. CASE Finish \/ WorkerRestart
  BY <1>5 DEF Finish, WorkerRestart, Report!Next, Report!End
<1>6. CASE Load \/ LoadNothing \/ BeginRound \/ StopAtCap \/ ContinueOnError \/ AbortOnError
  BY <1>6 DEF Load, LoadNothing, BeginRound, StopAtCap, ContinueOnError, AbortOnError,
              history, reportVars, Report!vars
<1>7. CASE EndRound \/ RecheckCount \/ RecheckFails \/ CheckActive \/ RunRaises
  BY <1>7 DEF EndRound, RecheckCount, RecheckFails, Recheck, CheckActive, RunRaises,
              history, reportVars, Report!vars
<1>8. CASE Api
  BY <1>8 DEF Api, UpdateChain, DeleteChain, CreateStep, DeleteStep, UpdateAccount,
              DeleteAccount, history, reportVars, Report!vars
<1>9. CASE \E n \in 0 .. MaxUnread : MailboxChanges(n)
  BY <1>9 DEF MailboxChanges, history, reportVars, Report!vars
<1>10. CASE UNCHANGED vars
  BY <1>10 DEF vars, history, reportVars, Report!vars
<1> QED
  BY <1>1, <1>2, <1>3, <1>4, <1>5, <1>6, <1>7, <1>8, <1>9, <1>10 DEF Next, RunStep

\* The execution log is behind the effects of a run by at most one step, and
\* the closing report of a run is its last word.
THEOREM KeepsReport == Spec => ReportSpec
<1>1. Init => Report!Init
  BY DEF Init, NoRun, Report!Init
<1> QED
  BY <1>1, ReportStep, Invariance, PTL DEF Spec, ReportSpec, Report!Spec
-----------------------------------------------------------------------------
(* The descent of a run with a cap *)

\* The first of some steps is one of them.
LEMMA FirstIsOne ==
    ASSUME NEW S \in SUBSET Steps, S # {}
    PROVE  FirstOf(S) \in S
<1> DEFINE Less == OpToRel(<, Nat)
<1>1. \A m, n \in Nat : (<<m, n>> \in Less) <=> (m < n)
  BY DEF OpToRel
<1>2. IsWellFoundedOn(Less, Nat)
  BY NatLessThanWellFounded
<1>3. \E s \in S : \A t \in S : ~(<<t, s>> \in Less)
  <2> HIDE DEF Less
  <2> QED
    BY <1>2, StepsAssumption, WFMin
<1>4. \E s \in S : \A t \in S : s <= t
  <2>1. PICK s \in S : \A t \in S : ~(<<t, s>> \in Less)
    BY <1>3
  <2>2. ASSUME NEW t \in S PROVE s <= t
    <3>1. t \in Nat /\ s \in Nat
      BY StepsAssumption
    <3>2. ~(t < s)
      BY <1>1, <2>1, <3>1
    <3> QED
      BY <3>1, <3>2
  <2> QED
    BY <2>2
<1> QED
  BY <1>4 DEF FirstOf

\* A cap is captured when the chain is loaded, and a statement about a step
\* has a step left to be about.
RoundControl ==
    /\ pc \in {"idle", "load"} => iterations = None
    /\ pc \in {"logOk", "logFailed", "onError"} => remaining # {}

\* Every step keeps it.
LEMMA RoundControlStep == RoundControl /\ [Next]_vars => RoundControl'
<1> SUFFICES ASSUME RoundControl, [Next]_vars PROVE RoundControl'
  OBVIOUS
<1> USE DEF RoundControl, rowVars, captured, runVars
<1>1. CASE Start
  BY <1>1 DEF Start
<1>2. CASE Load \/ LoadNothing \/ BeginRound \/ StopAtCap
  BY <1>2 DEF Load, LoadNothing, BeginRound, StopAtCap
<1>3. CASE ExecuteStep \/ LogStep
  BY <1>3 DEF ExecuteStep, LogStep
<1>4. CASE ContinueOnError \/ AbortOnError \/ LogAborted \/ LogCompleted
  BY <1>4 DEF ContinueOnError, AbortOnError, LogAborted, LogCompleted
<1>5. CASE EndRound \/ RecheckCount \/ RecheckFails \/ CheckActive
  BY <1>5 DEF EndRound, RecheckCount, RecheckFails, Recheck, CheckActive
<1>6. CASE RunRaises \/ Finish \/ WorkerRestart
  BY <1>6 DEF RunRaises, Finish, WorkerRestart
<1>7. CASE Api
  BY <1>7 DEF Api, UpdateChain, DeleteChain, CreateStep, DeleteStep, UpdateAccount,
              DeleteAccount
<1>8. CASE \E n \in 0 .. MaxUnread : MailboxChanges(n)
  BY <1>8 DEF MailboxChanges
<1>9. CASE UNCHANGED vars
  BY <1>9 DEF vars
<1> QED
  BY <1>1, <1>2, <1>3, <1>4, <1>5, <1>6, <1>7, <1>8, <1>9 DEF Next, RunStep

\* The order in which a run with a cap descends.
Descends ==
    \/ RoundsLeft' < RoundsLeft
    \/ RoundsLeft' = RoundsLeft /\ Stage' < Stage
    \/ RoundsLeft' = RoundsLeft /\ Stage' = Stage
        /\ remaining' \subseteq remaining /\ remaining' # remaining
    \/ RoundsLeft' = RoundsLeft /\ Stage' = Stage
        /\ remaining' = remaining /\ Statement' < Statement

\* The steps of the thread descend.
LEMMA RunDescends ==
    ASSUME IInv, RoundControl, RunStep, iterations # None, pc' \notin {pc, "idle"}
    PROVE  Descends
<1> USE DEF Descends, InRound, captured, caches, runVars
<1>1. iteration \in Nat /\ iterations \in Nat
  BY LimitAssumption DEF IInv, TypeOK
<1>2. RoundsLeft \in Int
  BY <1>1 DEF RoundsLeft
<1>3. CASE Load \/ LoadNothing
  BY <1>3 DEF Load, LoadNothing, RoundControl
<1>4. CASE BeginRound \/ StopAtCap
  BY <1>2, <1>4 DEF BeginRound, StopAtCap, RoundsLeft, Stage
<1>5. CASE ExecuteStep
  BY <1>2, <1>5 DEF ExecuteStep, RoundsLeft, Stage, Statement
<1>6. CASE LogStep
  <2>1. FirstOf(remaining) \in remaining
    BY <1>6, FirstIsOne DEF LogStep, RoundControl, IInv, TypeOK
  <2>2. RoundsLeft' = RoundsLeft /\ Stage' = Stage
    BY <1>6 DEF LogStep, RoundsLeft, Stage
  <2> QED
    BY <1>6, <2>1, <2>2 DEF LogStep, Statement
<1>7. CASE ContinueOnError
  <2>1. FirstOf(remaining) \in remaining
    BY <1>7, FirstIsOne DEF ContinueOnError, RoundControl, IInv, TypeOK
  <2> QED
    BY <1>7, <2>1 DEF ContinueOnError, RoundsLeft, Stage
<1>8. CASE AbortOnError
  BY <1>2, <1>8 DEF AbortOnError, RoundsLeft, Stage
<1>9. CASE LogAborted \/ LogCompleted
  BY <1>2, <1>9 DEF LogAborted, LogCompleted, RoundsLeft, Stage, Statement
<1>10. CASE EndRound
  BY <1>1, <1>10 DEF EndRound, RoundsLeft
<1>11. CASE RecheckCount \/ RecheckFails
  BY <1>2, <1>11 DEF RecheckCount, RecheckFails, Recheck, RoundsLeft, Stage, IInv, StopControl
<1>12. CASE CheckActive
  BY <1>12 DEF CheckActive, IInv, Control, StopControl
<1>13. CASE RunRaises
  BY <1>2, <1>13 DEF RunRaises, RoundsLeft, Stage, Statement, Working, RoundControl
<1>14. CASE Finish
  BY <1>14 DEF Finish
<1> QED
  BY <1>3, <1>4, <1>5, <1>6, <1>7, <1>8, <1>9, <1>10, <1>11, <1>12, <1>13, <1>14 DEF RunStep

\* Whatever fails and whatever is edited, each statement brings a run with a
\* cap nearer to its end.  The steps of a run are finitely many, so nothing
\* descends for ever: it is the measure behind CappedRunEnds.
THEOREM CappedComesNearer == Spec => CappedRunDescends
<1>1. Init => RoundControl
  BY DEF Init, NoRun, RoundControl
<1>2. IInv /\ RoundControl /\ [Next]_vars
        => [iterations # None /\ pc' \notin {pc, "idle"} => Descends]_vars
  <2> SUFFICES ASSUME IInv, RoundControl, [Next]_vars, iterations # None,
                      pc' \notin {pc, "idle"}
               PROVE  Descends
    OBVIOUS
  <2>1. CASE RunStep
    BY <2>1, RunDescends
  <2>2. CASE Start \/ WorkerRestart
    BY <2>2 DEF Start, WorkerRestart, RoundControl
  <2>3. CASE Api
    BY <2>3 DEF Api, UpdateChain, DeleteChain, CreateStep, DeleteStep, UpdateAccount,
                DeleteAccount
  <2>4. CASE \E n \in 0 .. MaxUnread : MailboxChanges(n)
    BY <2>4 DEF MailboxChanges
  <2>5. CASE UNCHANGED vars
    BY <2>5 DEF vars
  <2> QED
    BY <2>1, <2>2, <2>3, <2>4, <2>5 DEF Next
<1> QED
  BY <1>1, <1>2, Invariance, RoundControlStep, PTL DEF Spec, CappedRunDescends, Descends

-----------------------------------------------------------------------------
(* The runs without a limit *)

\* Nobody switches the loop of a chain on while a run of the chain is going on.
NotSwitchedOn == pc \notin {"idle", "load"} /\ loopEnabled' => loopEnabled

\* A run that started without a loop then has its one round.
PlainRun ==
    ~infinite /\ iterations = None =>
        /\ iteration <= 1
        /\ pc \in InRound \cup {"top"} => iteration = 0
        /\ pc \notin {"idle", "load", "broken"} =>
            /\ ~loopEnabled
            /\ chainCache # None => ~chainCache.loop
            /\ pc \notin {"recheck", "stillActive"}

\* Every step but that one keeps it.
LEMMA PlainRunStep == IInv /\ PlainRun /\ [Next]_vars /\ [NotSwitchedOn]_vars => PlainRun'
<1> SUFFICES ASSUME IInv, PlainRun, [Next]_vars, [NotSwitchedOn]_vars PROVE PlainRun'
  OBVIOUS
<1>1. /\ iteration \in Nat /\ loopEnabled \in BOOLEAN /\ loopInfinite \in BOOLEAN
      /\ loopMax \in Nat
      /\ pc \in {"idle", "load"} => iteration = 0
      /\ pc \in Label
  BY LimitAssumption DEF IInv, TypeOK, Control
<1> USE <1>1, NoneAssumption
    DEF PlainRun, NotSwitchedOn, InRound, Label, Working, rowVars, chainVars, captured, caches,
        runVars
<1>2. CASE Start \/ Load \/ LoadNothing
  BY <1>2 DEF Start, Load, LoadNothing, ChainLoaded
<1>3. CASE BeginRound \/ StopAtCap \/ ExecuteStep
  BY <1>3 DEF BeginRound, StopAtCap, ExecuteStep
<1>4. CASE LogStep
  BY <1>4 DEF LogStep
<1>5. CASE ContinueOnError \/ AbortOnError \/ LogAborted \/ LogCompleted
  BY <1>5 DEF ContinueOnError, AbortOnError, LogAborted, LogCompleted
<1>6. CASE EndRound
  BY <1>6 DEF EndRound, ReadChain, ChainLoaded
<1>7. CASE RecheckCount \/ RecheckFails
  BY <1>7 DEF RecheckCount, RecheckFails, Recheck
<1>8. CASE CheckActive
  BY <1>8 DEF CheckActive, IInv, Control
<1>9. CASE RunRaises
  BY <1>9 DEF RunRaises
<1>10. CASE Finish \/ WorkerRestart
  BY <1>10 DEF Finish, WorkerRestart
<1>11. CASE Api
  <2>1. UNCHANGED <<pc, runVars>> /\ (pc \notin {"idle", "load"} /\ loopEnabled' => loopEnabled)
    BY <1>11 DEF Api, UpdateChain, DeleteChain, CreateStep, DeleteStep, UpdateAccount,
                 DeleteAccount, vars
  <2> QED
    BY <2>1
<1>12. CASE \E n \in 0 .. MaxUnread : MailboxChanges(n)
  BY <1>12 DEF MailboxChanges
<1>13. CASE UNCHANGED vars
  BY <1>13 DEF vars
<1> QED
  BY <1>2, <1>3, <1>4, <1>5, <1>6, <1>7, <1>8, <1>9, <1>10, <1>11, <1>12, <1>13
     DEF Next, RunStep

\* Switching the loop on during a run is the only way to a run without a
\* limit: while nobody does, the limit the README promises holds for every run
\* that is not infinite.
THEOREM LimitUnlessSwitchedOn == Spec /\ [][NotSwitchedOn]_vars => []RepeatsHaveLimit
<1>1. Init => PlainRun
  BY DEF Init, NoRun, PlainRun, InRound
<1>2. IInv /\ PlainRun => RepeatsHaveLimit
  BY LimitAssumption, NoneAssumption
     DEF IInv, TypeOK, IterationCap, PlainRun, RepeatsHaveLimit
<1> QED
  BY <1>1, <1>2, Invariance, PlainRunStep, PTL DEF Spec
=============================================================================
