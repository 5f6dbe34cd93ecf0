---------------------------- MODULE ChainsApiProofs ----------------------------
(***************************************************************************)
(* Proofs about ChainsApi for any steps, orders and patterns: with         *)
(* requests one at a time, and what is left of the patterns with any       *)
(* number of them.                                                         *)
(***************************************************************************)
EXTENDS ChainsApi, FiniteSetTheorems, WellFoundedInduction, TLAPS

\* At most one request is under way.
Serial == \A r, s \in Requests : chainPc[r] # "idle" /\ chainPc[s] # "idle" => r = s

\* The operations a request at a label may belong to.
Operations == [find |-> {"update", "delete", "createStep", "reorder"},
               read |-> {"createStep", "deleteStep", "reorder"},
               commit |-> {"create", "update", "delete", "createStep", "deleteStep", "reorder"}]

\* What a request carries, and that what it has read is still so.
Carries(r) ==
    chainPc[r] # "idle" =>
        /\ chainOp[r] \in Operations[chainPc[r]]
        /\ chainOp[r] \in {"create", "update"} => Valid(payload[r])
        /\ chainOp[r] \in {"createStep", "deleteStep"} => step[r] \in createdSteps
        /\ chainOp[r] = "createStep" => position[step[r]] = None
        /\ chainOp[r] = "reorder" => order[r] \in Orders
        /\ chainPc[r] = "commit" /\ chainOp[r] \in {"createStep", "deleteStep", "reorder"} =>
            read[r] = position
        /\ chainPc[r] = "commit" /\ chainOp[r] = "reorder" => ~Mismatch(r)
        /\ chainPc[r] = "commit" /\ chainOp[r] = "update" => loadedFilters[r] = filters

Requested == \A r \in Requests : Carries(r)

\* The tables.
Tables == StepsOf(position) \subseteq createdSteps /\ UniquePositions /\ StoredPatternsCompile

IInv == ChainsTypeOK /\ Serial /\ Requested /\ Tables
-----------------------------------------------------------------------------
\* Of finitely many numbers one is the greatest.
LEMMA GreatestExists ==
    ASSUME NEW S, IsFiniteSet(S), S # {}, NEW f, \A s \in S : f[s] \in Int
    PROVE  \E s \in S : \A t \in S : f[t] <= f[s]
<1> DEFINE Above(s) == {t \in S : f[t] > f[s]}
           Less == OpToRel(<, Nat)
           Sizes == {Cardinality(Above(s)) : s \in S}
<1>1. \A s \in S : IsFiniteSet(Above(s)) /\ Cardinality(Above(s)) \in Nat
    BY FS_Subset, FS_CardinalityType
<1>2. \A m, n \in Nat : (<<m, n>> \in Less) <=> (m < n)
    BY DEF OpToRel
<1>3. Sizes \subseteq Nat /\ Sizes # {}
    BY <1>1
<1>4. \E n \in Sizes : \A m \in Sizes : ~(<<m, n>> \in Less)
    <2> HIDE DEF Sizes, Less
    <2>1. IsWellFoundedOn(Less, Nat)
        BY NatLessThanWellFounded DEF Less
    <2> QED
        BY <1>3, <2>1, WFMin
<1>5. PICK s \in S : \A t \in S : ~(Cardinality(Above(t)) < Cardinality(Above(s)))
    BY <1>1, <1>2, <1>4
<1>6. ASSUME NEW t \in S, ~(f[t] <= f[s])
      PROVE  FALSE
    <2>1. Above(t) \subseteq Above(s) /\ t \in Above(s) /\ t \notin Above(t)
        BY <1>6
    <2>2. Cardinality(Above(t)) < Cardinality(Above(s))
        <3> HIDE DEF Above
        <3>1. Cardinality(Above(t)) <= Cardinality(Above(s))
            BY <1>1, <2>1, FS_Subset
        <3>2. Cardinality(Above(t)) # Cardinality(Above(s))
            BY <1>1, <2>1, FS_Subset
        <3> QED
            BY <1>1, <3>1, <3>2
    <2> QED
        BY <1>5, <2>2
<1> QED
    BY <1>6

\* A position that is greater than those of all steps.
LEMMA NextIsGreater ==
    ASSUME NEW positions \in Positions
    PROVE  /\ NextPosition(positions) \in Nat
           /\ \A s \in StepsOf(positions) : positions[s] < NextPosition(positions)
<1>1. CASE StepsOf(positions) = {}
    BY <1>1 DEF NextPosition
<1>2. CASE StepsOf(positions) # {}
    <2>1. \A s \in StepsOf(positions) : positions[s] \in Nat
        BY DEF StepsOf, Positions
    <2>2. IsFiniteSet(StepsOf(positions))
        BY StepsAssumption, FS_Subset DEF StepsOf
    <2>3. \E s \in StepsOf(positions) : \A t \in StepsOf(positions) : positions[t] <= positions[s]
        BY <1>2, <2>1, <2>2, GreatestExists
    <2> DEFINE last == CHOOSE s \in StepsOf(positions) :
                           \A t \in StepsOf(positions) : positions[t] <= positions[s]
    <2>4. last \in StepsOf(positions)
            /\ \A t \in StepsOf(positions) : positions[t] <= positions[last]
        BY <2>3
    <2>5. NextPosition(positions) = 1 + positions[last]
        BY <1>2 DEF NextPosition
    <2> HIDE DEF last
    <2> QED
        BY <2>1, <2>4, <2>5
<1> QED
    BY <1>1, <1>2

\* Of each step named in step_ids there is a last mention; it is a position,
\* and no other step has the same.
LEMMA LastIndexFacts ==
    ASSUME NEW o \in Orders, NEW s \in {o[i] : i \in DOMAIN o}
    PROVE  /\ LastIndex(o, s) \in Nat
           /\ o[LastIndex(o, s) + 1] = s
<1>1. o \in Seq(Steps)
    BY OrdersAssumption
<1>2. DOMAIN o = 1 .. Len(o) /\ Len(o) \in Nat
    BY <1>1
<1> DEFINE M == {i \in DOMAIN o : o[i] = s}
           id == [i \in M |-> i]
<1>3. IsFiniteSet(M) /\ M # {} /\ M \subseteq Nat \ {0}
    <2>1. IsFiniteSet(1 .. Len(o))
        BY <1>2, FS_Interval
    <2>2. M \subseteq 1 .. Len(o) /\ M # {}
        BY <1>2
    <2> HIDE DEF M
    <2>3. IsFiniteSet(M)
        BY <2>1, <2>2, FS_Subset
    <2>4. 1 .. Len(o) \subseteq Nat \ {0}
        BY <1>2
    <2> QED
        BY <2>2, <2>3, <2>4
<1>4. \A i \in M : id[i] \in Int
    BY <1>3
<1>5. \E i \in M : \A j \in M : id[j] <= id[i]
    <2> HIDE DEF M, id
    <2> QED
        BY <1>3, <1>4, GreatestExists
<1>6. \E i \in DOMAIN o : o[i] = s /\ \A j \in DOMAIN o : o[j] = s => j <= i
    BY <1>5
<1> DEFINE k == CHOOSE i \in DOMAIN o : o[i] = s /\ \A j \in DOMAIN o : o[j] = s => j <= i
<1>7. k \in DOMAIN o /\ o[k] = s
    BY <1>6
<1>8. LastIndex(o, s) = k - 1
    BY DEF LastIndex
<1> HIDE DEF k
<1>9. k \in Nat /\ k >= 1
    BY <1>2, <1>7
<1>10. k - 1 + 1 = k
    BY <1>9
<1> QED
    BY <1>7, <1>8, <1>9, <1>10
-----------------------------------------------------------------------------
LEMMA InitInv == ChainsInit => IInv
<1> SUFFICES ASSUME ChainsInit PROVE IInv
    OBVIOUS
<1>1. ChainsTypeOK
    BY DEF ChainsInit, ChainsTypeOK, Defaults, Filters, Mode, Pattern, Payload, Positions,
        NoPositions, Nothing,
           Columns
<1>2. Serial /\ Requested
    BY DEF ChainsInit, Serial, Requested, Carries
<1>3. Tables
    BY NoneAssumption, PatternsAssumption
    DEF ChainsInit, Tables, UniquePositions, StepsOf, NoPositions, StoredPatternsCompile,
        Compiles, Defaults
<1> QED
    BY <1>1, <1>2, <1>3 DEF IInv

LEMMA OnlyOne ==
    ASSUME ChainsTypeOK, Serial, NEW r \in Requests, chainPc[r] # "idle",
           NEW label \in {"idle", "find", "read", "commit"}, ChainsGoto(r, label)
    PROVE  /\ \A s \in Requests \ {r} : chainPc'[s] = "idle"
           /\ chainPc'[r] = label
           /\ Serial'
           /\ chainPc' \in [Requests -> {"idle", "find", "read", "commit"}]
BY DEF ChainsTypeOK, Serial, ChainsGoto

\* An answered request needs nothing of the tables but that they are in order.
LEMMA AnswerInv ==
    ASSUME IInv, NEW r \in Requests, chainPc[r] # "idle", ChainsAnswer(r),
           chainRow' \in {"absent", "present", "deleted"}, filters' \in Filters,
           position' \in Positions, createdSteps' \in SUBSET Steps, split' \in BOOLEAN, Tables'
    PROVE  IInv'
<1>1. ChainsTypeOK /\ Serial
    BY DEF IInv
<1>2. Serial' /\ (\A s \in Requests : chainPc'[s] = "idle")
      /\ chainPc' \in [Requests -> {"idle", "find", "read", "commit"}]
    BY <1>1, OnlyOne DEF ChainsAnswer
<1>3. Nothing \in Payload /\ NoPositions \in Positions /\ Defaults \in Filters
    BY DEF Nothing, Payload, Columns, NoPositions, Positions, Defaults, Filters, Mode, Pattern
<1>4. ChainsTypeOK'
    BY <1>1, <1>2, <1>3 DEF ChainsAnswer, ChainsTypeOK
<1>5. Requested'
    BY <1>2 DEF Requested, Carries
<1> QED
    BY <1>2, <1>4, <1>5 DEF IInv

\* A request that arrives.
LEMMA BeginInv ==
    ASSUME IInv, ChainsQuiet, NEW r \in Requests, ChainsBegin(r)
    PROVE  IInv'
<1>i. ChainsTypeOK /\ Tables /\ \A s \in Requests : chainPc[s] = "idle"
    BY DEF IInv, ChainsQuiet
<1>1. ASSUME NEW label \in {"find", "read", "commit"}, ChainsGoto(r, label),
             UNCHANGED <<chainRow, filters, position, split>>,
             createdSteps \subseteq createdSteps', ChainsTypeOK', Carries(r)'
      PROVE  IInv'
    <2>1. \A s \in Requests \ {r} : chainPc'[s] = "idle"
        BY <1>i, <1>1 DEF ChainsGoto, ChainsTypeOK
    <2>2. Serial' /\ \A s \in Requests \ {r} : Carries(s)'
        BY <2>1 DEF Serial, Carries
    <2>3. Tables'
        BY <1>i, <1>1 DEF Tables, UniquePositions, StepsOf, StoredPatternsCompile
    <2> QED
        BY <1>1, <2>2, <2>3 DEF IInv, Requested
<1>2. ASSUME NEW p \in Payload, BeginCreateChain(r, p) PROVE IInv'
    <2>1. ChainsTypeOK'
        BY <1>i, <1>2 DEF BeginCreateChain, chainTables, ChainsGoto, ChainsTypeOK
    <2>2. chainPc'[r] = "commit" /\ chainOp'[r] = "create" /\ payload'[r] = p /\ Valid(p)
        BY <1>i, <1>2 DEF BeginCreateChain, ChainsGoto, ChainsTypeOK
    <2>3. Carries(r)'
        BY <2>2 DEF Carries, Operations
    <2> QED
        BY <1>1, <1>2, <2>1, <2>3 DEF BeginCreateChain, chainTables
<1>3. ASSUME NEW p \in Payload, BeginUpdateChain(r, p) PROVE IInv'
    <2>1. ChainsTypeOK'
        BY <1>i, <1>3 DEF BeginUpdateChain, chainTables, ChainsGoto, ChainsTypeOK
    <2>2. chainPc'[r] = "find" /\ chainOp'[r] = "update" /\ payload'[r] = p /\ Valid(p)
        BY <1>i, <1>3 DEF BeginUpdateChain, ChainsGoto, ChainsTypeOK
    <2>3. Carries(r)'
        BY <2>2 DEF Carries, Operations
    <2> QED
        BY <1>1, <1>3, <2>1, <2>3 DEF BeginUpdateChain, chainTables
<1>4. ASSUME BeginDeleteChain(r) PROVE IInv'
    <2>1. ChainsTypeOK'
        BY <1>i, <1>4 DEF BeginDeleteChain, chainTables, ChainsGoto, ChainsTypeOK
    <2>2. chainPc'[r] = "find" /\ chainOp'[r] = "delete"
        BY <1>i, <1>4 DEF BeginDeleteChain, ChainsGoto, ChainsTypeOK
    <2>3. Carries(r)'
        BY <2>2 DEF Carries, Operations
    <2> QED
        BY <1>1, <1>4, <2>1, <2>3 DEF BeginDeleteChain, chainTables
<1>5. ASSUME NEW s \in Steps, BeginCreateStep(r, s) PROVE IInv'
    <2>1. ChainsTypeOK'
        BY <1>i, <1>5 DEF BeginCreateStep, ChainsGoto, ChainsTypeOK
    <2>2. chainPc'[r] = "find" /\ chainOp'[r] = "createStep" /\ step'[r] = s
            /\ s \in createdSteps'
          /\ position' = position /\ createdSteps \subseteq createdSteps'
        BY <1>i, <1>5 DEF BeginCreateStep, ChainsGoto, ChainsTypeOK
    <2>3. position[s] = None
        BY <1>i, <1>5 DEF BeginCreateStep, Tables, StepsOf
    <2>4. Carries(r)'
        BY <2>2, <2>3 DEF Carries, Operations
    <2> QED
        BY <1>1, <1>5, <2>1, <2>2, <2>4 DEF BeginCreateStep
<1>6. ASSUME NEW s \in Steps, BeginDeleteStep(r, s) PROVE IInv'
    <2>1. ChainsTypeOK'
        BY <1>i, <1>6 DEF BeginDeleteStep, chainTables, ChainsGoto, ChainsTypeOK
    <2>2. chainPc'[r] = "read" /\ chainOp'[r] = "deleteStep" /\ step'[r] = s
            /\ s \in createdSteps'
        BY <1>i, <1>6 DEF BeginDeleteStep, ChainsGoto, ChainsTypeOK, chainTables
    <2>3. Carries(r)'
        BY <2>2 DEF Carries, Operations
    <2> QED
        BY <1>1, <1>6, <2>1, <2>3 DEF BeginDeleteStep, chainTables
<1>7. ASSUME NEW o \in Orders, BeginReorder(r, o) PROVE IInv'
    <2>1. ChainsTypeOK'
        BY <1>i, <1>7 DEF BeginReorder, chainTables, ChainsGoto, ChainsTypeOK
    <2>2. chainPc'[r] = "find" /\ chainOp'[r] = "reorder" /\ order'[r] = o
        BY <1>i, <1>7 DEF BeginReorder, ChainsGoto, ChainsTypeOK
    <2>3. Carries(r)'
        BY <2>2 DEF Carries, Operations
    <2> QED
        BY <1>1, <1>7, <2>1, <2>3 DEF BeginReorder, chainTables
<1> QED
    BY <1>2, <1>3, <1>4, <1>5, <1>6, <1>7 DEF ChainsBegin

\* Steps that leave the request under way and the tables alone.
LEMMA StepInv ==
    ASSUME IInv, NEW r \in Requests, chainPc[r] # "idle", NEW label \in {"read", "commit"},
           ChainsGoto(r, label), UNCHANGED <<chainTables, chainOp, step, order, payload>>,
           ChainsTypeOK', Carries(r)'
    PROVE  IInv'
<1>1. Serial' /\ \A s \in Requests \ {r} : chainPc'[s] = "idle"
    BY OnlyOne DEF IInv
<1>2. \A s \in Requests \ {r} : Carries(s)'
    BY <1>1 DEF Carries
<1>3. Tables'
    BY DEF IInv, Tables, chainTables, UniquePositions, StepsOf, StoredPatternsCompile
<1> QED
    BY <1>1, <1>2, <1>3 DEF IInv, Requested

\* What Merge makes of a row and a valid payload.
LEMMA MergeCompiles ==
    ASSUME NEW f \in Filters, NEW p \in Payload, Valid(p),
           Compiles(f.subject_regex), Compiles(f.body_regex)
    PROVE  /\ Merge(f, p) \in Filters
           /\ Compiles(Merge(f, p).subject_regex)
           /\ Compiles(Merge(f, p).body_regex)
           /\ Merge(f, p).sender_filter =
                IF p.sender_filter = Unset THEN f.sender_filter ELSE p.sender_filter
           /\ Merge(f, p).sender_filter_mode =
                IF p.sender_filter_mode = Unset THEN f.sender_filter_mode ELSE p.sender_filter_mode
<1> DEFINE m == Merge(f, p)
<1>1. /\ m.sender_filter = IF p.sender_filter = Unset THEN f.sender_filter ELSE p.sender_filter
      /\ m.sender_filter_mode =
            IF p.sender_filter_mode = Unset THEN f.sender_filter_mode ELSE p.sender_filter_mode
      /\ m.subject_regex = IF p.subject_regex = Unset THEN f.subject_regex ELSE p.subject_regex
      /\ m.body_regex = IF p.body_regex = Unset THEN f.body_regex ELSE p.body_regex
    BY DEF Merge, Columns
<1>2. m = [sender_filter_mode |-> m.sender_filter_mode, sender_filter |-> m.sender_filter,
           subject_regex |-> m.subject_regex, body_regex |-> m.body_regex]
    BY DEF Merge, Columns
<1>3. /\ m.sender_filter_mode \in Mode /\ m.sender_filter \in Pattern
      /\ m.subject_regex \in Pattern /\ m.body_regex \in Pattern
    <2> HIDE DEF m
    <2> QED
        BY <1>1 DEF Filters, Payload
<1>4. Compiles(m.subject_regex) /\ Compiles(m.body_regex)
    <2> HIDE DEF m
    <2> QED
        BY <1>1 DEF Valid
<1>5. m \in Filters
    <2> HIDE DEF m
    <2> QED
        BY <1>2, <1>3 DEF Filters
<1> QED
    BY <1>1, <1>4, <1>5

\* While the row is as it was loaded, it is the same to write all columns of the
\* payload or only those that change.
LEMMA MergeChanges ==
    ASSUME NEW r \in Requests, loadedFilters[r] = filters
    PROVE  Merge(filters, Changes(r)) = Merge(filters, payload[r])
<1>1. \A c \in Columns : (IF Changes(r)[c] = Unset THEN filters[c] ELSE Changes(r)[c])
                       = IF payload[r][c] = Unset THEN filters[c] ELSE payload[r][c]
    BY DEF Changes
<1> QED
    BY <1>1 DEF Merge

\* Every step of a handler keeps the invariant.
LEMMA HandleInv ==
    ASSUME IInv, NEW r \in Requests, ChainsHandle(r)
    PROVE  IInv'
<1>i. ChainsTypeOK /\ Serial /\ Carries(r) /\ Tables
    BY DEF IInv, Requested
<1>t. UNCHANGED chainTables =>
        /\ chainRow' \in {"absent", "present", "deleted"} /\ filters' \in Filters
        /\ position' \in Positions /\ createdSteps' \in SUBSET Steps /\ split' \in BOOLEAN
        /\ Tables'
    BY <1>i DEF ChainsTypeOK, chainTables, Tables, UniquePositions, StepsOf, StoredPatternsCompile
<1>1. ASSUME FindChain(r) PROVE IInv'
    <2>1. CASE ChainsAnswer(r)
        BY <1>t, <1>1, <2>1, AnswerInv DEF FindChain
    <2>2. CASE
               /\ ChainsGoto(r, IF chainOp[r] \in {"createStep", "reorder"} THEN "read" ELSE "commit")
               /\ loadedFilters' = [loadedFilters EXCEPT ![r] = filters]
               /\ UNCHANGED <<chainOp, step, order, payload, read>>
        <3>1. chainPc[r] = "find" /\ chainOp[r] \in {"update", "delete", "createStep", "reorder"}
              /\ UNCHANGED <<chainTables, chainOp, step, order, payload, read>>
              /\ loadedFilters'[r] = filters /\ loadedFilters' \in [Requests -> Filters]
            BY <1>i, <1>1, <2>2 DEF FindChain, Carries, Operations, ChainsTypeOK
        <3>2. PICK label \in {"read", "commit"} :
                 /\ ChainsGoto(r, label)
                 /\ label = IF chainOp[r] \in {"createStep", "reorder"} THEN "read" ELSE "commit"
            BY <2>2
        <3>3. chainPc'[r] = label /\ chainPc' \in [Requests -> {"idle", "find", "read", "commit"}]
            BY <1>i, <3>1, <3>2, OnlyOne
        <3>4. ChainsTypeOK'
            BY <1>i, <3>1, <3>3 DEF ChainsTypeOK, chainTables
        <3>5. Carries(r)'
            BY <1>i, <3>1, <3>2, <3>3 DEF Carries, Operations, chainTables
        <3> QED
            BY <3>1, <3>2, <3>4, <3>5, StepInv
    <2> QED
        BY <1>1, <2>1, <2>2 DEF FindChain
<1>2. ASSUME ReadSteps(r) PROVE IInv'
    <2>1. CASE ChainsAnswer(r)
        BY <1>t, <1>2, <2>1, AnswerInv DEF ReadSteps
    <2>2. CASE /\ chainOp[r] = "reorder" => ~Mismatch(r)
               /\ read' = [read EXCEPT ![r] = position]
               /\ ChainsGoto(r, "commit")
               /\ UNCHANGED <<chainOp, step, order, payload, loadedFilters>>
        <3>1. chainPc[r] = "read" /\ chainOp[r] \in {"createStep", "deleteStep", "reorder"}
              /\ UNCHANGED chainTables
            BY <1>i, <1>2 DEF ReadSteps, Carries, Operations
        <3>2. chainPc'[r] = "commit"
                /\ chainPc' \in [Requests -> {"idle", "find", "read", "commit"}]
            BY <1>i, <2>2, <3>1, OnlyOne
        <3>3. read'[r] = position /\ read' \in [Requests -> Positions]
            BY <1>i, <2>2 DEF ChainsTypeOK
        <3>4. ChainsTypeOK'
            BY <1>i, <2>2, <3>1, <3>2, <3>3 DEF ChainsTypeOK, chainTables
        <3>5. Carries(r)'
            BY <1>i, <2>2, <3>1, <3>2, <3>3 DEF Carries, Operations, chainTables, Mismatch
        <3> QED
            BY <2>2, <3>1, <3>4, <3>5, StepInv
    <2> QED
        BY <1>2, <2>1, <2>2 DEF ReadSteps
<1>3. ASSUME CommitCreateChain(r) PROVE IInv'
    <2>1. payload[r] \in Payload /\ Valid(payload[r])
        BY <1>i, <1>3 DEF CommitCreateChain, Carries, ChainsTypeOK
    <2>2. Defaults \in Filters /\ Compiles(None)
        BY NoneAssumption, PatternsAssumption DEF Defaults, Filters, Mode, Pattern, Compiles
    <2>3. Compiles(Defaults.subject_regex) /\ Compiles(Defaults.body_regex)
          /\ Defaults.sender_filter = None /\ Defaults.sender_filter_mode = "contains"
        BY <2>2 DEF Defaults
    <2> DEFINE m == Merge(Defaults, payload[r])
    <2>4. /\ m \in Filters /\ Compiles(m.subject_regex) /\ Compiles(m.body_regex)
          /\ m.sender_filter_mode = "regex" => Compiles(m.sender_filter)
        <3>1. /\ m \in Filters /\ Compiles(m.subject_regex) /\ Compiles(m.body_regex)
              /\ m.sender_filter =
                    IF payload[r].sender_filter = Unset THEN None ELSE payload[r].sender_filter
              /\ m.sender_filter_mode = IF payload[r].sender_filter_mode = Unset
                    THEN "contains" ELSE payload[r].sender_filter_mode
            BY <2>1, <2>2, <2>3, MergeCompiles
        <3> HIDE DEF m
        <3> QED
            BY <2>1, <2>2, <3>1 DEF Valid
    <2> HIDE DEF m
    <2>5. filters' = m /\ chainRow' = "present" /\ ChainsAnswer(r) /\ chainPc[r] = "commit"
          /\ UNCHANGED <<position, createdSteps, split>>
        BY <1>3 DEF CommitCreateChain, m
    <2>6. Tables'
        BY <1>i, <2>4, <2>5 DEF Tables, UniquePositions, StepsOf, StoredPatternsCompile
    <2> QED
        BY <1>i, <2>4, <2>5, <2>6, AnswerInv DEF ChainsTypeOK
<1>4. ASSUME CommitUpdateChain(r) PROVE IInv'
    <2> DEFINE p == payload[r]
               m == Merge(filters, p)
    <2>1. p \in Payload /\ Valid(p) /\ filters \in Filters
          /\ Compiles(filters.subject_regex) /\ Compiles(filters.body_regex)
        BY <1>i, <1>4 DEF CommitUpdateChain, Carries, ChainsTypeOK, Tables, StoredPatternsCompile
    <2>2. /\ m \in Filters /\ Compiles(m.subject_regex) /\ Compiles(m.body_regex)
          /\ m.sender_filter = IF p.sender_filter = Unset THEN filters.sender_filter
                                                         ELSE p.sender_filter
          /\ m.sender_filter_mode = IF p.sender_filter_mode = Unset
                THEN filters.sender_filter_mode ELSE p.sender_filter_mode
        <3> HIDE DEF p
        <3> QED
            BY <2>1, MergeCompiles
    <2>3. filters' = m /\ ChainsAnswer(r) /\ chainPc[r] = "commit"
            /\ UNCHANGED <<chainRow, position, createdSteps>>
          /\ split' = IF Splits(p) THEN TRUE ELSE split /\ p.sender_filter = Unset
        BY <1>i, <1>4, MergeChanges DEF CommitUpdateChain, Carries
    <2>4. ~split' /\ m.sender_filter_mode = "regex" => Compiles(m.sender_filter)
        <3> SUFFICES ASSUME ~split',
        m.sender_filter_mode = "regex" PROVE Compiles(m.sender_filter)
            OBVIOUS
        <3>1. ~Splits(p) /\ ~(split /\ p.sender_filter = Unset)
            BY <2>3
        <3>2. p.sender_filter_mode = Unset <=> p.sender_filter = Unset
            BY <3>1, Zenon DEF Splits
        <3>3. CASE p.sender_filter = Unset
            <4> HIDE DEF p, m
            <4>1. ~split /\ m.sender_filter = filters.sender_filter
                  /\ m.sender_filter_mode = filters.sender_filter_mode
                BY <2>2, <3>1, <3>2, <3>3
            <4> QED
                BY <1>i, <4>1 DEF Tables, StoredPatternsCompile
        <3>4. CASE p.sender_filter # Unset
            <4> HIDE DEF p, m
            <4> QED
                BY <2>1, <2>2, <3>2, <3>4 DEF Valid
        <3> QED
            BY <3>3, <3>4
    <2>5. split' \in BOOLEAN
        BY <1>i, <2>3 DEF ChainsTypeOK
    <2> HIDE DEF m
    <2>6. Tables'
        BY <1>i, <2>2, <2>3, <2>4 DEF Tables, UniquePositions, StepsOf, StoredPatternsCompile
    <2> QED
        BY <1>i, <2>2, <2>3, <2>5, <2>6, AnswerInv DEF ChainsTypeOK
<1>5. ASSUME CommitDeleteChain(r) PROVE IInv'
    <2>1. /\ chainPc[r] = "commit" /\ ChainsAnswer(r) /\ chainRow' = "deleted"
          /\ position' = NoPositions
          /\ UNCHANGED <<filters, createdSteps, split>>
        BY <1>5 DEF CommitDeleteChain
    <2>2. position' \in Positions /\ StepsOf(position') = {}
        BY <2>1 DEF NoPositions, Positions, StepsOf
    <2>3. Tables'
        BY <1>i, <2>1, <2>2 DEF Tables, UniquePositions, StoredPatternsCompile
    <2> QED
        BY <1>i, <2>1, <2>2, <2>3, AnswerInv DEF ChainsTypeOK
<1>6. ASSUME CommitCreateStep(r) PROVE IInv'
    <2> DEFINE n == NextPosition(position)
    <2>1. /\ chainPc[r] = "commit" /\ ChainsAnswer(r) /\ step[r] \in createdSteps
          /\ position' = [position EXCEPT ![step[r]] = n]
          /\ UNCHANGED <<chainRow, filters, createdSteps, split>>
        BY <1>i, <1>6 DEF CommitCreateStep, Carries
    <2>2. n \in Nat /\ \A s \in StepsOf(position) : position[s] < n
        BY <1>i, NextIsGreater DEF ChainsTypeOK
    <2> HIDE DEF n
    <2>3. position' \in Positions /\ step[r] \in Steps
        BY <1>i, <2>1, <2>2 DEF ChainsTypeOK, Positions
    <2>4. /\ StepsOf(position') \subseteq StepsOf(position) \cup {step[r]}
          /\ position'[step[r]] = n
          /\ \A s \in Steps \ {step[r]} : position'[s] = position[s]
        BY <1>i, <2>1, <2>3 DEF ChainsTypeOK, Positions, StepsOf
    <2>5. UniquePositions'
        <3> SUFFICES ASSUME NEW s \in StepsOf(position'), NEW t \in StepsOf(position'),
                            position'[s] = position'[t], s # t
                     PROVE  FALSE
            BY DEF UniquePositions
        <3>1. \A u \in StepsOf(position') : u \in Steps
            BY DEF StepsOf
        <3>2. \A u \in StepsOf(position) : position[u] \in Nat
            BY <1>i DEF ChainsTypeOK, Positions, StepsOf
        <3>3. CASE s # step[r] /\ t # step[r]
            BY <1>i, <2>4, <3>1, <3>3 DEF Tables, UniquePositions
        <3>4. CASE s = step[r] \/ t = step[r]
            BY <2>2, <2>4, <3>1, <3>2, <3>4
        <3> QED
            BY <3>3, <3>4
    <2>6. Tables'
        BY <1>i, <2>1, <2>4, <2>5 DEF Tables, StoredPatternsCompile
    <2> QED
        BY <1>i, <2>1, <2>3, <2>6, AnswerInv DEF ChainsTypeOK
<1>7. ASSUME CommitDeleteStep(r) PROVE IInv'
    <2>1. /\ chainPc[r] = "commit" /\ ChainsAnswer(r)
          /\ position' = [position EXCEPT ![step[r]] = None]
          /\ UNCHANGED <<chainRow, filters, createdSteps, split>>
        BY <1>7 DEF CommitDeleteStep
    <2>2. position' \in Positions
        BY <1>i, <2>1 DEF ChainsTypeOK, Positions
    <2>3. /\ StepsOf(position') \subseteq StepsOf(position)
          /\ \A s \in StepsOf(position') : position'[s] = position[s]
        BY <1>i, <2>1 DEF ChainsTypeOK, Positions, StepsOf
    <2>4. Tables'
        BY <1>i, <2>1, <2>3 DEF Tables, UniquePositions, StoredPatternsCompile
    <2> QED
        BY <1>i, <2>1, <2>2, <2>4, AnswerInv DEF ChainsTypeOK
<1>8. ASSUME CommitReorder(r) PROVE IInv'
    <2> DEFINE o == order[r]
    <2>1. /\ chainPc[r] = "commit" /\ ChainsAnswer(r) /\ o \in Orders /\ read[r] = position
          /\ {o[i] : i \in DOMAIN o} = StepsOf(position)
          /\ position' = [s \in Steps |->
                IF s \in Moved(r) THEN LastIndex(o, s) ELSE position[s]]
          /\ UNCHANGED <<chainRow, filters, createdSteps, split>>
        BY <1>i, <1>8 DEF CommitReorder, Carries, Mismatch
    <2>2. Moved(r) = {s \in StepsOf(position) : LastIndex(o, s) # position[s]}
        BY <2>1 DEF Moved
    <2> HIDE DEF o
    <2>3. \A s \in StepsOf(position) :
              /\ LastIndex(o, s) \in Nat
              /\ o[LastIndex(o, s) + 1] = s
              /\ position'[s] = LastIndex(o, s)
        <3> TAKE s \in StepsOf(position)
        <3>1. s \in Steps
            BY DEF StepsOf
        <3> QED
            BY <2>1, <2>2, <3>1, LastIndexFacts
    <2>4. \A s \in Steps \ StepsOf(position) : position'[s] = None
        BY <2>1, <2>2 DEF StepsOf
    <2>5. position' \in Positions /\ StepsOf(position') \subseteq StepsOf(position)
        <3>1. \A s \in Steps : position'[s] \in Nat \cup {None}
            BY <2>3, <2>4
        <3>2. position' = [s \in Steps |-> position'[s]]
            BY <2>1
        <3> QED
            BY <2>4, <3>1, <3>2 DEF Positions, StepsOf
    <2>6. Tables'
        BY <1>i, <2>1, <2>3, <2>5 DEF Tables, UniquePositions, StoredPatternsCompile
    <2> QED
        BY <1>i, <2>1, <2>5, <2>6, AnswerInv DEF ChainsTypeOK
<1>9. ASSUME ChainsRequestFails(r) PROVE IInv'
    BY <1>t, <1>9, AnswerInv DEF ChainsRequestFails
<1> QED
    BY <1>1, <1>2, <1>3, <1>4, <1>5, <1>6, <1>7, <1>8, <1>9 DEF ChainsHandle

LEMMA StutterInv == ASSUME IInv, UNCHANGED chainVars PROVE IInv'
BY DEF chainVars, chainTables, chainRequest, IInv, ChainsTypeOK, Serial, Requested, Carries,
    Mismatch, Tables,
       UniquePositions, StepsOf, StoredPatternsCompile

LEMMA Invariant == ChainsSerialSpec => []IInv
<1>1. IInv /\ [ChainsSerialNext]_chainVars => IInv'
    BY BeginInv, HandleInv, StutterInv DEF ChainsSerialNext
<1> QED
    BY InitInv, <1>1, PTL DEF ChainsSerialSpec
-----------------------------------------------------------------------------
\* The types.
THEOREM TypeCorrect == ChainsSerialSpec => []ChainsTypeOK
<1>1. IInv => ChainsTypeOK
    BY DEF IInv
<1> QED
    BY Invariant, <1>1, PTL

\* action_chains.py 86-142: whatever steps are created, deleted and reordered,
\* no two have the same position.
THEOREM PositionsUnique == ChainsSerialSpec => []UniquePositions
<1>1. IInv => UniquePositions
    BY DEF IInv, Tables
<1> QED
    BY Invariant, <1>1, PTL

\* schemas/action_chain.py 76-134: what does not compile is not stored, but for
\* the one case that StoredPatternsCompile names.
THEOREM PatternsCompile == ChainsSerialSpec => []StoredPatternsCompile
<1>1. IInv => StoredPatternsCompile
    BY DEF IInv, Tables
<1> QED
    BY Invariant, <1>1, PTL

\* The order of the steps changes on request only.
THEOREM OrderKept == ChainsSerialSpec => OrderIsKept
<1>1. IInv /\ [ChainsSerialNext]_chainVars =>
        [(\E r \in Requests : chainOp[r] = "reorder" /\ chainOp'[r] # "reorder") \/
         \A s, t \in Steps :
            /\ position[s] # None /\ position'[s] # None /\ position'[t] # None
            /\ position[t] = None \/ position[s] < position[t]
            => position'[s] < position'[t]]_chainVars
    <2> SUFFICES ASSUME IInv, ChainsSerialNext,
                        NEW s \in Steps, NEW t \in Steps,
                        position[s] # None, position'[s] # None, position'[t] # None,
                        position[t] = None \/ position[s] < position[t],
                        ~\E r \in Requests : chainOp[r] = "reorder" /\ chainOp'[r] # "reorder"
                 PROVE  position'[s] < position'[t]
        OBVIOUS
    <2>1. CASE position' = position
        BY <2>1
    <2>2. PICK r \in Requests : position' = position \/ ChainsHandle(r)
        BY DEF ChainsSerialNext, ChainsBegin, BeginCreateChain, BeginUpdateChain,
            BeginDeleteChain, BeginCreateStep,
               BeginDeleteStep, BeginReorder, chainTables
    <2>3. position \in Positions
            /\ chainOp \in [Requests -> {"none", "create", "update", "delete",
                            "createStep", "deleteStep", "reorder"}] /\ Carries(r)
        BY DEF IInv, ChainsTypeOK, Requested
    <2>4. CASE CommitDeleteChain(r)
        BY <2>4 DEF CommitDeleteChain, NoPositions
    <2>5. CASE CommitCreateStep(r)
        <3>1. position' = [position EXCEPT ![step[r]] = NextPosition(position)]
              /\ position[step[r]] = None
            BY <2>3, <2>5 DEF CommitCreateStep, Carries
        <3>2. position[s] < NextPosition(position)
            BY <2>3, NextIsGreater DEF StepsOf
        <3>3. position'[s] = position[s]
            BY <2>3, <3>1 DEF Positions
        <3>4. CASE t = step[r]
            BY <2>3, <3>1, <3>2, <3>3, <3>4 DEF Positions
        <3>5. CASE t # step[r]
            BY <2>3, <3>1, <3>3, <3>5 DEF Positions
        <3> QED
            BY <3>4, <3>5
    <2>6. CASE CommitDeleteStep(r)
        BY <2>3, <2>6 DEF CommitDeleteStep, Positions
    <2>7. CASE CommitReorder(r)
        BY <2>3, <2>7 DEF CommitReorder, ChainsAnswer
    <2>8. CASE \/ FindChain(r) \/ ReadSteps(r) \/ CommitCreateChain(r) \/ CommitUpdateChain(r)
               \/ ChainsRequestFails(r)
        BY <2>1, <2>8 DEF FindChain, ReadSteps, CommitCreateChain, CommitUpdateChain,
            ChainsRequestFails, chainTables
    <2> QED
        BY <2>1, <2>2, <2>4, <2>5, <2>6, <2>7, <2>8 DEF ChainsHandle
<1> QED
    BY Invariant, <1>1, PTL DEF ChainsSerialSpec, OrderIsKept
-----------------------------------------------------------------------------
(* Any number of requests at a time: the columns with patterns *)

\* A PATCH that has loaded the row and has not committed.
Patching(r) == chainPc[r] = "commit" /\ chainOp[r] = "update"

ColumnTypes ==
    /\ filters \in Filters
    /\ split \in BOOLEAN
    /\ chainPc \in [Requests -> {"idle", "find", "read", "commit"}]
    /\ chainOp \in [Requests -> {"none", "create", "update", "delete",
                              "createStep", "deleteStep", "reorder"}]
    /\ payload \in [Requests -> Payload]
    /\ loadedFilters \in [Requests -> Filters]

\* Every payload under way was validated, and who patches has found the row.
Columnwise(r) ==
    /\ chainPc[r] # "idle" /\ chainOp[r] \in {"create", "update"} => Valid(payload[r])
    /\ chainPc[r] = "read" => chainOp[r] # "update"
    /\ Patching(r) => chainRow # "absent"

\* Subject and body are never stored with a pattern that does not compile.
SubjectAndBodyCompile == Compiles(filters.subject_regex) /\ Compiles(filters.body_regex)

ColumnsInv ==
    /\ ColumnTypes
    /\ \A r \in Requests : Columnwise(r)
    /\ SubjectAndBodyCompile

\* What a PATCH writes is as valid as its payload.
LEMMA ChangesValid ==
    ASSUME ColumnTypes, NEW r \in Requests, Valid(payload[r])
    PROVE  /\ Changes(r) \in Payload
           /\ Valid(Changes(r))
<1> DEFINE p == payload[r]
           m == Changes(r)
<1>1. p \in Payload
    BY DEF ColumnTypes
<1>2. /\ m.subject_regex \in {p.subject_regex, Unset}
      /\ m.body_regex \in {p.body_regex, Unset}
      /\ m.sender_filter \in {p.sender_filter, Unset}
      /\ m.sender_filter_mode \in {p.sender_filter_mode, Unset}
    BY DEF Changes, Columns
<1>3. m = [sender_filter_mode |-> m.sender_filter_mode, sender_filter |-> m.sender_filter,
           subject_regex |-> m.subject_regex, body_regex |-> m.body_regex]
    BY DEF Changes, Columns
<1>4. Compiles(Unset) /\ Unset # "regex"
    BY UnsetAssumption, PatternsAssumption DEF Compiles
<1> HIDE DEF p, m
<1>5. m \in Payload
    BY <1>1, <1>2, <1>3 DEF Payload
<1>6. Valid(p)
    BY DEF p
<1>7. Valid(m)
    BY <1>2, <1>4, <1>6 DEF Valid
<1> QED
    BY <1>5, <1>7 DEF m

\* The end of a request.
LEMMA AnswerColumns ==
    ASSUME ColumnsInv, NEW r \in Requests, ChainsAnswer(r),
           filters' \in Filters, split' \in BOOLEAN, SubjectAndBodyCompile',
           chainRow' = "absent" => chainRow = "absent"
    PROVE  ColumnsInv'
<1>1. Nothing \in Payload /\ Defaults \in Filters
    BY DEF Nothing, Payload, Columns, Defaults, Filters, Mode, Pattern
<1>2. ColumnTypes'
    BY <1>1 DEF ColumnsInv, ColumnTypes, ChainsAnswer, ChainsGoto
<1>3. ASSUME NEW s \in Requests PROVE Columnwise(s)'
    <2>1. Columnwise(s)
        BY DEF ColumnsInv
    <2>2. CASE s = r
        BY <2>2 DEF ColumnsInv, ColumnTypes, ChainsAnswer, ChainsGoto, Columnwise, Patching
    <2>3. CASE s # r
        BY <2>1, <2>3 DEF ColumnsInv, ColumnTypes, ChainsAnswer, ChainsGoto, Columnwise, Patching
    <2> QED
        BY <2>2, <2>3
<1> QED
    BY <1>2, <1>3 DEF ColumnsInv

\* The steps of a request that do not end it.
LEMMA OnwardColumns ==
    ASSUME ColumnsInv, NEW r \in Requests, UNCHANGED <<filters, split, chainRow>>,
           ColumnTypes', Columnwise(r)',
           \A s \in Requests \ {r} : /\ chainPc'[s] = chainPc[s] /\ chainOp'[s] = chainOp[s]
                                      /\ payload'[s] = payload[s]
    PROVE  ColumnsInv'
BY DEF ColumnsInv, Columnwise, Patching, SubjectAndBodyCompile

\* Every step keeps the columns compiling.
LEMMA ColumnsStep == ColumnsInv /\ [ChainsNext]_chainVars => ColumnsInv'
<1> SUFFICES ASSUME ColumnsInv, [ChainsNext]_chainVars PROVE ColumnsInv'
    OBVIOUS
<1>i. ColumnTypes /\ SubjectAndBodyCompile /\ \A r \in Requests : Columnwise(r)
    BY DEF ColumnsInv
<1>1. ASSUME NEW r \in Requests, ChainsAnswer(r), UNCHANGED <<filters, split>>,
             chainRow' = "absent" => chainRow = "absent"
      PROVE  ColumnsInv'
    BY <1>i, <1>1, AnswerColumns DEF ColumnTypes, SubjectAndBodyCompile
<1>2. ASSUME NEW r \in Requests, NEW p \in Payload, BeginCreateChain(r, p) \/ BeginUpdateChain(r, p)
      PROVE  ColumnsInv'
    <2>1. /\ UNCHANGED <<filters, split, chainRow, loadedFilters>> /\ Valid(p)
          /\ payload' = [payload EXCEPT ![r] = p]
          /\ \/ ChainsGoto(r, "commit") /\ chainOp' = [chainOp EXCEPT ![r] = "create"]
             \/ ChainsGoto(r, "find") /\ chainOp' = [chainOp EXCEPT ![r] = "update"]
        BY <1>2 DEF BeginCreateChain, BeginUpdateChain, chainTables
    <2>2. ColumnTypes'
        BY <1>i, <2>1 DEF ColumnTypes, ChainsGoto
    <2>3. Columnwise(r)'
        BY <1>i, <2>1 DEF ColumnTypes, ChainsGoto, Columnwise, Patching
    <2> QED
        BY <1>i, <2>1, <2>2, <2>3, OnwardColumns DEF ColumnTypes, ChainsGoto
<1>3. ASSUME NEW r \in Requests,
             \/ BeginDeleteChain(r)
             \/ \E s \in Steps : BeginCreateStep(r, s) \/ BeginDeleteStep(r, s)
             \/ \E o \in Orders : BeginReorder(r, o)
      PROVE  ColumnsInv'
    <2>1. /\ UNCHANGED <<filters, split, chainRow, payload, loadedFilters>>
          /\ \E o \in {"delete", "createStep", "deleteStep", "reorder"} :
                chainOp' = [chainOp EXCEPT ![r] = o]
          /\ ChainsGoto(r, "find") \/ ChainsGoto(r, "read")
        BY <1>3 DEF BeginDeleteChain, BeginCreateStep, BeginDeleteStep, BeginReorder, chainTables
    <2>2. ColumnTypes' /\ Columnwise(r)'
        BY <1>i, <2>1 DEF ColumnTypes, ChainsGoto, Columnwise, Patching
    <2> QED
        BY <1>i, <2>1, <2>2, OnwardColumns DEF ColumnTypes, ChainsGoto
<1>4. ASSUME NEW r \in Requests, FindChain(r) PROVE ColumnsInv'
    <2>1. CASE ChainsAnswer(r)
        BY <1>1, <1>4, <2>1 DEF FindChain, chainTables
    <2>2. CASE chainRow = "present" /\ ~ChainsAnswer(r)
        <3>1. /\ UNCHANGED <<filters, split, chainRow, payload, chainOp>>
              /\ chainPc[r] = "find"
              /\ loadedFilters' = [loadedFilters EXCEPT ![r] = filters]
              /\ ChainsGoto(r, IF chainOp[r] \in {"createStep", "reorder"} THEN "read" ELSE "commit")
            BY <1>4, <2>2 DEF FindChain, chainTables
        <3>2. ColumnTypes'
            BY <1>i, <3>1 DEF ColumnTypes, ChainsGoto
        <3>3. Columnwise(r)'
            BY <1>i, <2>2, <3>1 DEF ColumnTypes, ChainsGoto, Columnwise, Patching
        <3> QED
            BY <1>i, <3>1, <3>2, <3>3, OnwardColumns DEF ColumnTypes, ChainsGoto
    <2> QED
        BY <1>4, <2>1, <2>2 DEF FindChain
<1>5. ASSUME NEW r \in Requests, ReadSteps(r) PROVE ColumnsInv'
    <2>1. CASE ChainsAnswer(r)
        BY <1>1, <1>5, <2>1 DEF ReadSteps, chainTables
    <2>2. CASE ~ChainsAnswer(r)
        <3>1. /\ UNCHANGED <<filters, split, chainRow, payload, chainOp, loadedFilters>>
              /\ chainPc[r] = "read" /\ ChainsGoto(r, "commit")
            BY <1>5, <2>2 DEF ReadSteps, chainTables
        <3>2. ColumnTypes' /\ Columnwise(r)'
            BY <1>i, <3>1 DEF ColumnTypes, ChainsGoto, Columnwise, Patching
        <3> QED
            BY <1>i, <3>1, <3>2, OnwardColumns DEF ColumnTypes, ChainsGoto
    <2> QED
        BY <2>1, <2>2
<1>6. ASSUME NEW r \in Requests, CommitCreateChain(r) PROVE ColumnsInv'
    <2>1. /\ Valid(payload[r]) /\ payload[r] \in Payload /\ ChainsAnswer(r)
          /\ filters' = Merge(Defaults, payload[r]) /\ split' = split /\ chainRow' = "present"
        BY <1>i, <1>6 DEF CommitCreateChain, Columnwise, ColumnTypes
    <2>2. /\ Defaults \in Filters
          /\ Compiles(Defaults.subject_regex) /\ Compiles(Defaults.body_regex)
        BY NoneAssumption, PatternsAssumption DEF Defaults, Filters, Mode, Pattern, Compiles
    <2>3. filters' \in Filters /\ SubjectAndBodyCompile'
        BY <2>1, <2>2, MergeCompiles DEF SubjectAndBodyCompile
    <2> QED
        BY <1>i, <2>1, <2>3, AnswerColumns DEF ColumnTypes
<1>7. ASSUME NEW r \in Requests, CommitUpdateChain(r) PROVE ColumnsInv'
    <2>1. /\ Valid(payload[r]) /\ ChainsAnswer(r)
          /\ filters' = Merge(filters, Changes(r)) /\ chainRow' = chainRow
        BY <1>i, <1>7 DEF CommitUpdateChain, Columnwise
    <2>2. split' \in BOOLEAN
        BY <1>i, <1>7 DEF CommitUpdateChain, ColumnTypes
    <2>3. Changes(r) \in Payload /\ Valid(Changes(r))
        BY <1>i, <2>1, ChangesValid
    <2>4. filters' \in Filters /\ SubjectAndBodyCompile'
        BY <1>i, <2>1, <2>3, MergeCompiles DEF SubjectAndBodyCompile, ColumnTypes
    <2> QED
        BY <2>1, <2>2, <2>4, AnswerColumns
<1>8. ASSUME NEW r \in Requests,
             \/ CommitDeleteChain(r) \/ CommitCreateStep(r) \/ CommitDeleteStep(r)
             \/ CommitReorder(r) \/ ChainsRequestFails(r)
      PROVE  ColumnsInv'
    BY <1>1, <1>8 DEF CommitDeleteChain, CommitCreateStep, CommitDeleteStep, CommitReorder,
                      ChainsRequestFails, chainTables
<1>9. CASE UNCHANGED chainVars
    BY <1>9 DEF chainVars, chainTables, chainRequest, ColumnsInv, ColumnTypes, Columnwise,
                Patching, SubjectAndBodyCompile
<1> QED
    BY <1>2, <1>3, <1>4, <1>5, <1>6, <1>7, <1>8, <1>9 DEF ChainsNext, ChainsBegin, ChainsHandle

LEMMA ColumnsInvariance == ChainsSpec => []ColumnsInv
<1>1. ChainsInit => ColumnsInv
    <2> SUFFICES ASSUME ChainsInit PROVE ColumnsInv
        OBVIOUS
    <2>1. Defaults \in Filters /\ Nothing \in Payload
        BY DEF Defaults, Filters, Mode, Pattern, Nothing, Payload, Columns
    <2>2. ColumnTypes
        BY <2>1 DEF ChainsInit, ColumnTypes
    <2>3. SubjectAndBodyCompile
        BY NoneAssumption, PatternsAssumption
           DEF ChainsInit, SubjectAndBodyCompile, Compiles, Defaults
    <2> QED
        BY <2>2, <2>3 DEF ChainsInit, ColumnsInv, Columnwise, Patching
<1> QED
    BY <1>1, ColumnsStep, PTL DEF ChainsSpec

\* schemas/action_chain.py 76-134: the patterns of subject and body compile
\* whatever requests come at the same time, since each is validated on its own
\* and no request writes what it has not validated.
THEOREM ColumnsCompile == ChainsSpec => []SubjectAndBodyCompile
<1>1. ColumnsInv => SubjectAndBodyCompile
    BY DEF ColumnsInv
<1> QED
    BY <1>1, ColumnsInvariance, PTL
-----------------------------------------------------------------------------
\* The sender filter is validated beside its mode, and two PATCHes at the same
\* time, each of which leaves out the column that is for it unchanged, may store
\* the filter of one beside the mode of the other.  If they take turns from the
\* load of the row to the commit, they do not.
PatchesTakeTurns == \A r, s \in Requests : Patching(r) /\ Patching(s) => r = s

PatchInv ==
    /\ StoredPatternsCompile
    /\ \A r \in Requests : Patching(r) => loadedFilters[r] = filters

LEMMA PatchStep ==
    ColumnsInv /\ PatchInv /\ PatchesTakeTurns /\ [ChainsNext]_chainVars => PatchInv'
<1> SUFFICES ASSUME ColumnsInv, PatchInv, PatchesTakeTurns, [ChainsNext]_chainVars
             PROVE  PatchInv'
    OBVIOUS
<1>i. ColumnTypes /\ SubjectAndBodyCompile /\ StoredPatternsCompile
      /\ \A r \in Requests : Columnwise(r)
    BY DEF ColumnsInv, PatchInv
<1>1. ASSUME NEW r \in Requests, UNCHANGED <<filters, split>>,
             \A s \in Requests \ {r} : /\ Patching(s)' <=> Patching(s)
                                        /\ loadedFilters'[s] = loadedFilters[s],
             Patching(r)' => loadedFilters'[r] = filters
      PROVE  PatchInv'
    BY <1>1 DEF PatchInv, StoredPatternsCompile
<1>2. ASSUME NEW r \in Requests, ChainsAnswer(r)
      PROVE  /\ ~Patching(r)'
             /\ \A s \in Requests \ {r} : /\ Patching(s)' <=> Patching(s)
                                           /\ loadedFilters'[s] = loadedFilters[s]
    BY <1>i, <1>2 DEF ChainsAnswer, ChainsGoto, Patching, ColumnTypes
<1>3. ASSUME NEW r \in Requests, ChainsAnswer(r), UNCHANGED <<filters, split>> PROVE PatchInv'
    BY <1>1, <1>2, <1>3
<1>4. ASSUME NEW r \in Requests, ChainsBegin(r) PROVE PatchInv'
    <2>1. UNCHANGED <<filters, split, loadedFilters>> /\ ~Patching(r)'
          /\ \A s \in Requests \ {r} : Patching(s)' <=> Patching(s)
        BY <1>i, <1>4
           DEF ChainsBegin, BeginCreateChain, BeginUpdateChain, BeginDeleteChain, BeginCreateStep,
               BeginDeleteStep, BeginReorder, ChainsGoto, Patching, ColumnTypes, chainTables
    <2> QED
        BY <1>1, <2>1
<1>5. ASSUME NEW r \in Requests, FindChain(r) PROVE PatchInv'
    <2>1. CASE ChainsAnswer(r)
        BY <1>3, <1>5, <2>1 DEF FindChain, chainTables
    <2>2. CASE ~ChainsAnswer(r)
        <3>1. /\ UNCHANGED <<filters, split, chainOp>>
              /\ loadedFilters' = [loadedFilters EXCEPT ![r] = filters]
              /\ \A s \in Requests \ {r} : chainPc'[s] = chainPc[s]
            BY <1>i, <1>5, <2>2 DEF FindChain, chainTables, ChainsGoto, ColumnTypes
        <3> QED
            BY <1>i, <1>1, <3>1 DEF Patching, ColumnTypes
    <2> QED
        BY <2>1, <2>2
<1>6. ASSUME NEW r \in Requests, ReadSteps(r) PROVE PatchInv'
    <2>1. CASE ChainsAnswer(r)
        BY <1>3, <1>6, <2>1 DEF ReadSteps, chainTables
    <2>2. CASE ~ChainsAnswer(r)
        <3>1. /\ UNCHANGED <<filters, split, chainOp, loadedFilters>> /\ chainPc[r] = "read"
              /\ \A s \in Requests \ {r} : chainPc'[s] = chainPc[s]
            BY <1>i, <1>6, <2>2 DEF ReadSteps, chainTables, ChainsGoto, ColumnTypes
        <3>2. ~Patching(r)'
            BY <1>i, <3>1 DEF Columnwise, Patching
        <3> QED
            BY <1>1, <3>1, <3>2 DEF Patching
    <2> QED
        BY <2>1, <2>2
<1>7. ASSUME NEW r \in Requests, CommitCreateChain(r) PROVE PatchInv'
    <2>1. /\ Valid(payload[r]) /\ payload[r] \in Payload /\ ChainsAnswer(r)
          /\ filters' = Merge(Defaults, payload[r]) /\ chainRow = "absent"
        BY <1>i, <1>7 DEF CommitCreateChain, Columnwise, ColumnTypes
    <2>2. \A s \in Requests : ~Patching(s)'
        BY <1>i, <1>2, <2>1 DEF Columnwise
    <2>3. Defaults \in Filters /\ Compiles(None)
        BY NoneAssumption, PatternsAssumption DEF Defaults, Filters, Mode, Pattern, Compiles
    <2>4. Compiles(Defaults.subject_regex) /\ Compiles(Defaults.body_regex)
          /\ Defaults.sender_filter = None /\ Defaults.sender_filter_mode = "contains"
        BY <2>3 DEF Defaults
    <2> DEFINE m == Merge(Defaults, payload[r])
    <2>5. /\ Compiles(m.subject_regex) /\ Compiles(m.body_regex)
          /\ m.sender_filter =
                IF payload[r].sender_filter = Unset THEN None ELSE payload[r].sender_filter
          /\ m.sender_filter_mode = IF payload[r].sender_filter_mode = Unset
                THEN "contains" ELSE payload[r].sender_filter_mode
        BY <2>1, <2>3, <2>4, MergeCompiles
    <2>6. filters' = m
        BY <2>1
    <2> HIDE DEF m
    <2>7. m.sender_filter_mode = "regex" => Compiles(m.sender_filter)
        BY <2>1, <2>3, <2>5 DEF Valid
    <2>8. StoredPatternsCompile'
        BY <2>5, <2>6, <2>7 DEF StoredPatternsCompile
    <2> QED
        BY <2>2, <2>8 DEF PatchInv
<1>8. ASSUME NEW r \in Requests, CommitUpdateChain(r) PROVE PatchInv'
    <2> DEFINE p == payload[r]
               m == Merge(filters, p)
    <2>1. p \in Payload /\ Valid(p) /\ filters \in Filters /\ Patching(r) /\ ChainsAnswer(r)
        BY <1>i, <1>8 DEF CommitUpdateChain, Columnwise, ColumnTypes, Patching
    <2>2. filters' = m
        BY <1>8, <2>1, MergeChanges DEF CommitUpdateChain, PatchInv
    <2>3. /\ Compiles(m.subject_regex) /\ Compiles(m.body_regex)
          /\ m.sender_filter = IF p.sender_filter = Unset THEN filters.sender_filter
                                                         ELSE p.sender_filter
          /\ m.sender_filter_mode = IF p.sender_filter_mode = Unset
                THEN filters.sender_filter_mode ELSE p.sender_filter_mode
        <3> HIDE DEF p
        <3> QED
            BY <1>i, <2>1, MergeCompiles DEF SubjectAndBodyCompile
    <2>4. split' = IF Splits(p) THEN TRUE ELSE split /\ p.sender_filter = Unset
        BY <1>8 DEF CommitUpdateChain
    <2>5. ~split' /\ m.sender_filter_mode = "regex" => Compiles(m.sender_filter)
        <3> SUFFICES ASSUME ~split', m.sender_filter_mode = "regex" PROVE Compiles(m.sender_filter)
            OBVIOUS
        <3>1. ~Splits(p) /\ ~(split /\ p.sender_filter = Unset)
            BY <2>4
        <3>2. p.sender_filter_mode = Unset <=> p.sender_filter = Unset
            BY <3>1, Zenon DEF Splits
        <3> HIDE DEF p, m
        <3>3. CASE p.sender_filter = Unset
            BY <1>i, <2>3, <3>1, <3>2, <3>3 DEF StoredPatternsCompile
        <3>4. CASE p.sender_filter # Unset
            BY <2>1, <2>3, <3>2, <3>4 DEF Valid
        <3> QED
            BY <3>3, <3>4
    <2> HIDE DEF m
    <2>6. StoredPatternsCompile'
        BY <2>2, <2>3, <2>5 DEF StoredPatternsCompile
    <2>7. \A s \in Requests : ~Patching(s)'
        BY <1>2, <2>1 DEF PatchesTakeTurns
    <2> QED
        BY <2>6, <2>7 DEF PatchInv
<1>9. ASSUME NEW r \in Requests,
             \/ CommitDeleteChain(r) \/ CommitCreateStep(r) \/ CommitDeleteStep(r)
             \/ CommitReorder(r) \/ ChainsRequestFails(r)
      PROVE  PatchInv'
    BY <1>3, <1>9 DEF CommitDeleteChain, CommitCreateStep, CommitDeleteStep, CommitReorder,
                      ChainsRequestFails, chainTables
<1>10. CASE UNCHANGED chainVars
    BY <1>10 DEF chainVars, chainTables, chainRequest, PatchInv, Patching, StoredPatternsCompile
<1> QED
    BY <1>4, <1>5, <1>6, <1>7, <1>8, <1>9, <1>10 DEF ChainsNext, ChainsHandle

\* The sender filter, too, under that condition: it is the only way in which
\* concurrent requests store a pattern that does not compile.
THEOREM PatternsCompileByTurns ==
    ChainsSpec /\ []PatchesTakeTurns => []StoredPatternsCompile
<1>1. ChainsInit => PatchInv
    BY NoneAssumption, PatternsAssumption
       DEF ChainsInit, PatchInv, Patching, StoredPatternsCompile, Compiles, Defaults
<1>2. PatchInv => StoredPatternsCompile
    BY DEF PatchInv
<1> QED
    BY <1>1, <1>2, ColumnsInvariance, PatchStep, PTL DEF ChainsSpec
=============================================================================
