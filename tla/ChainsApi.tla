----------------------------- MODULE ChainsApi -----------------------------
(***************************************************************************)
(* backend/app/api/action_chains.py with the validators of schemas/        *)
(* action_chain.py: the requests that create, edit and delete one chain    *)
(* and that create, delete and reorder its steps.  A handler reads in one  *)
(* statement and commits in a later one, like those of module UserApi.     *)
(*                                                                         *)
(* Left out: names, loop settings and time window (plain values), the      *)
(* configuration of a step, and test-send, which stores nothing.           *)
(***************************************************************************)
EXTENDS ApiConstants

VARIABLES
    chainRow,       \* the row of action_chains
    filters,        \* its columns with patterns
    position,       \* chain_steps.position, None without a row
    createdSteps,        \* the ids of steps given away
    split,          \* history: sender filter and mode come from two requests
    (* each request *)
    chainPc, chainOp,
    step,           \* the step it creates or deletes
    order,          \* step_ids
    payload,        \* the columns it sets
    loadedFilters,  \* the columns as its session has them
    read            \* the positions it has read

chainTables == <<chainRow, filters, position, createdSteps, split>>
chainRequest == <<chainOp, step, order, payload, loadedFilters, read>>
chainVars == <<chainTables, chainPc, chainRequest>>

Mode == {"contains", "regex"}
Pattern == Patterns \cup {None}
Filters == [sender_filter_mode : Mode, sender_filter : Pattern,
            subject_regex : Pattern, body_regex : Pattern]
Payload == [sender_filter_mode : Mode \cup {Unset}, sender_filter : Pattern \cup {Unset},
            subject_regex : Pattern \cup {Unset}, body_regex : Pattern \cup {Unset}]
Columns == {"sender_filter_mode", "sender_filter", "subject_regex", "body_regex"}
Positions == [Steps -> Nat \cup {None}]

Defaults == [sender_filter_mode |-> "contains", sender_filter |-> None,
             subject_regex |-> None, body_regex |-> None]
Nothing == [c \in Columns |-> Unset]
NoPositions == [s \in Steps |-> None]

ChainsTypeOK ==
    /\ chainRow \in {"absent", "present", "deleted"}
    /\ filters \in Filters
    /\ position \in Positions
    /\ createdSteps \in SUBSET Steps
    /\ split \in BOOLEAN
    /\ chainPc \in [Requests -> {"idle", "find", "read", "commit"}]
    /\ chainOp \in [Requests -> {"none", "create", "update", "delete",
                            "createStep", "deleteStep", "reorder"}]
    /\ step \in [Requests -> Steps \cup {None}]
    /\ order \in [Requests -> Orders \cup {<<>>}]
    /\ payload \in [Requests -> Payload]
    /\ loadedFilters \in [Requests -> Filters]
    /\ read \in [Requests -> Positions]
-----------------------------------------------------------------------------
ChainsInit ==
    /\ chainRow = "absent"
    /\ filters = Defaults
    /\ position = NoPositions
    /\ createdSteps = {}
    /\ split = FALSE
    /\ chainPc = [r \in Requests |-> "idle"]
    /\ chainOp = [r \in Requests |-> "none"]
    /\ step = [r \in Requests |-> None]
    /\ order = [r \in Requests |-> <<>>]
    /\ payload = [r \in Requests |-> Nothing]
    /\ loadedFilters = [r \in Requests |-> Defaults]
    /\ read = [r \in Requests |-> NoPositions]

ChainsGoto(r, label) == chainPc' = [chainPc EXCEPT ![r] = label]
StepsOf(positions) == {s \in Steps : positions[s] # None}

\* The request is answered; its session is gone.
ChainsAnswer(r) ==
    /\ chainOp' = [chainOp EXCEPT ![r] = "none"]
    /\ step' = [step EXCEPT ![r] = None]
    /\ order' = [order EXCEPT ![r] = <<>>]
    /\ payload' = [payload EXCEPT ![r] = Nothing]
    /\ loadedFilters' = [loadedFilters EXCEPT ![r] = Defaults]
    /\ read' = [read EXCEPT ![r] = NoPositions]
    /\ ChainsGoto(r, "idle")
-----------------------------------------------------------------------------
(* A request arrives *)

Compiles(pattern) == pattern \notin Uncompilable

\* Variant of Valid: the mode is validated after the filter that needs it.
ValidModeLast(p) == Compiles(p.subject_regex) /\ Compiles(p.body_regex)

\* _validate_regex and _validate_sender_filter: the filter is compiled only if
\* the same payload sets the mode.  Anything else is answered with 422.
Valid(p) ==
    /\ Compiles(p.subject_regex)
    /\ Compiles(p.body_regex)
    /\ p.sender_filter_mode = "regex" => Compiles(p.sender_filter)

BeginCreateChain(r, p) ==
    /\ chainPc[r] = "idle"
    /\ chainRow = "absent"
    /\ Valid(p)
    /\ chainOp' = [chainOp EXCEPT ![r] = "create"]
    /\ payload' = [payload EXCEPT ![r] = p]
    /\ ChainsGoto(r, "commit")
    /\ UNCHANGED <<chainTables, step, order, loadedFilters, read>>

BeginUpdateChain(r, p) ==
    /\ chainPc[r] = "idle"
    /\ Valid(p)
    /\ chainOp' = [chainOp EXCEPT ![r] = "update"]
    /\ payload' = [payload EXCEPT ![r] = p]
    /\ ChainsGoto(r, "find")
    /\ UNCHANGED <<chainTables, step, order, loadedFilters, read>>

BeginDeleteChain(r) ==
    /\ chainPc[r] = "idle"
    /\ chainOp' = [chainOp EXCEPT ![r] = "delete"]
    /\ ChainsGoto(r, "find")
    /\ UNCHANGED <<chainTables, step, order, payload, loadedFilters, read>>

BeginCreateStep(r, s) ==
    /\ chainPc[r] = "idle"
    /\ s \notin createdSteps
    /\ chainOp' = [chainOp EXCEPT ![r] = "createStep"]
    /\ step' = [step EXCEPT ![r] = s]
    /\ createdSteps' = createdSteps \cup {s}
    /\ ChainsGoto(r, "find")
    /\ UNCHANGED <<chainRow, filters, position, split, order, payload, loadedFilters, read>>

BeginDeleteStep(r, s) ==
    /\ chainPc[r] = "idle"
    /\ s \in createdSteps
    /\ chainOp' = [chainOp EXCEPT ![r] = "deleteStep"]
    /\ step' = [step EXCEPT ![r] = s]
    /\ ChainsGoto(r, "read")
    /\ UNCHANGED <<chainTables, order, payload, loadedFilters, read>>

BeginReorder(r, o) ==
    /\ chainPc[r] = "idle"
    /\ chainOp' = [chainOp EXCEPT ![r] = "reorder"]
    /\ order' = [order EXCEPT ![r] = o]
    /\ ChainsGoto(r, "find")
    /\ UNCHANGED <<chainTables, step, payload, loadedFilters, read>>
-----------------------------------------------------------------------------
(* The handlers *)

\* _get_chain_or_404.
FindChain(r) ==
    /\ chainPc[r] = "find"
    /\ IF chainRow # "present"
       THEN ChainsAnswer(r)
       ELSE /\ ChainsGoto(r, IF chainOp[r] \in {"createStep", "reorder"} THEN "read" ELSE "commit")
            /\ loadedFilters' = [loadedFilters EXCEPT ![r] = filters]
            /\ UNCHANGED <<chainOp, step, order, payload, read>>
    /\ UNCHANGED chainTables

\* step_ids must be the chain's steps, as sets.
Mismatch(r) == {order[r][i] : i \in DOMAIN order[r]} # StepsOf(position)

\* The query of the steps: 400 for the wrong step_ids, 404 without the step.
ReadSteps(r) ==
    /\ chainPc[r] = "read"
    /\ IF \/ chainOp[r] = "reorder" /\ Mismatch(r)
          \/ chainOp[r] = "deleteStep" /\ position[step[r]] = None
       THEN ChainsAnswer(r)
       ELSE /\ read' = [read EXCEPT ![r] = position]
            /\ ChainsGoto(r, "commit")
            /\ UNCHANGED <<chainOp, step, order, payload, loadedFilters>>
    /\ UNCHANGED chainTables

\* Is the sender filter set without its mode, or the mode without the filter?
Splits(p) == (p.sender_filter_mode = Unset) # (p.sender_filter = Unset)

\* Variant of Merge: exclude_unset is forgotten.
MergeAll(row, p) == p

\* model_dump(exclude_unset=True), set on the row.
Merge(row, p) == [c \in Columns |-> IF p[c] = Unset THEN row[c] ELSE p[c]]

\* What a PATCH writes: of the columns the payload sets, those that differ from
\* the row as it was loaded.
Changes(r) ==
    [c \in Columns |-> IF payload[r][c] = loadedFilters[r][c] THEN Unset ELSE payload[r][c]]

\* A new row; what the payload leaves unset has its default.  Another creation
\* makes another chain.
CommitCreateChain(r) ==
    /\ chainPc[r] = "commit"
    /\ chainOp[r] = "create"
    /\ chainRow = "absent"
    /\ chainRow' = "present"
    /\ filters' = Merge(Defaults, payload[r])
    /\ ChainsAnswer(r)
    /\ UNCHANGED <<position, createdSteps, split>>

\* setattr for the fields that are set, and commit.
CommitUpdateChain(r) ==
    /\ chainPc[r] = "commit"
    /\ chainOp[r] = "update"
    /\ chainRow = "present"
    /\ filters' = Merge(filters, Changes(r))
    /\ split' = IF Splits(payload[r]) THEN TRUE
                ELSE split /\ payload[r].sender_filter = Unset
    /\ ChainsAnswer(r)
    /\ UNCHANGED <<chainRow, position, createdSteps>>

\* The steps are deleted with their chain.
CommitDeleteChain(r) ==
    /\ chainPc[r] = "commit"
    /\ chainOp[r] = "delete"
    /\ chainRow' = "deleted"
    /\ position' = NoPositions
    /\ ChainsAnswer(r)
    /\ UNCHANGED <<filters, createdSteps, split>>

\* Variant of NextPosition: the number of steps.
NumberOfSteps(positions) == Cardinality(StepsOf(positions))

\* max_position + 1, or 0.
NextPosition(positions) ==
    IF StepsOf(positions) = {} THEN 0
    ELSE 1 + positions[CHOOSE s \in StepsOf(positions) :
                           \A t \in StepsOf(positions) : positions[t] <= positions[s]]

\* The foreign key demands the chain.
CommitCreateStep(r) ==
    /\ chainPc[r] = "commit"
    /\ chainOp[r] = "createStep"
    /\ chainRow = "present"
    /\ position' = [position EXCEPT ![step[r]] = NextPosition(read[r])]
    /\ ChainsAnswer(r)
    /\ UNCHANGED <<chainRow, filters, createdSteps, split>>

CommitDeleteStep(r) ==
    /\ chainPc[r] = "commit"
    /\ chainOp[r] = "deleteStep"
    /\ position' = [position EXCEPT ![step[r]] = None]
    /\ ChainsAnswer(r)
    /\ UNCHANGED <<chainRow, filters, createdSteps, split>>

\* The index of the last mention of s in step_ids, counted from 0.
LastIndex(o, s) ==
    (CHOOSE i \in DOMAIN o : o[i] = s /\ \A j \in DOMAIN o : o[j] = s => j <= i) - 1

\* The steps whose position differs from the one read are written, all or none.
Moved(r) == {s \in StepsOf(read[r]) : LastIndex(order[r], s) # read[r][s]}

CommitReorder(r) ==
    /\ chainPc[r] = "commit"
    /\ chainOp[r] = "reorder"
    /\ Moved(r) \subseteq StepsOf(position)
    /\ position' = [s \in Steps |->
            IF s \in Moved(r) THEN LastIndex(order[r], s) ELSE position[s]]
    /\ ChainsAnswer(r)
    /\ UNCHANGED <<chainRow, filters, createdSteps, split>>

\* The database refuses, or the request breaks off: nothing is written.
ChainsRequestFails(r) ==
    /\ chainPc[r] # "idle"
    /\ ChainsAnswer(r)
    /\ UNCHANGED chainTables

ChainsBegin(r) ==
    \/ \E p \in Payload : BeginCreateChain(r, p) \/ BeginUpdateChain(r, p)
    \/ BeginDeleteChain(r)
    \/ \E s \in Steps : BeginCreateStep(r, s) \/ BeginDeleteStep(r, s)
    \/ \E o \in Orders : BeginReorder(r, o)

ChainsHandle(r) ==
    \/ FindChain(r) \/ ReadSteps(r)
    \/ CommitCreateChain(r) \/ CommitUpdateChain(r) \/ CommitDeleteChain(r)
    \/ CommitCreateStep(r) \/ CommitDeleteStep(r) \/ CommitReorder(r)
    \/ ChainsRequestFails(r)

\* A request begins only when no other is under way.
ChainsQuiet == \A r \in Requests : chainPc[r] = "idle"

ChainsSerialNext == \E r \in Requests : (ChainsQuiet /\ ChainsBegin(r)) \/ ChainsHandle(r)

ChainsSerialSpec == ChainsInit /\ [][ChainsSerialNext]_chainVars

\* Any number of requests at a time.
ChainsNext == \E r \in Requests : ChainsBegin(r) \/ ChainsHandle(r)

ChainsSpec == ChainsInit /\ [][ChainsNext]_chainVars
-----------------------------------------------------------------------------
(* Properties *)

\* models/chain_step.py:58: no two steps of the chain have the same position,
\* so that the worker's sort has one result, whatever gaps deletions and
\* repeated step_ids leave.  One request at a time.
UniquePositions ==
    \A s, t \in StepsOf(position) : position[s] = position[t] => s = t

\* Only a reorder request changes which of two steps comes first, and a new
\* step comes after all others: the steps run in the order the user gave them.
OrderIsKept ==
    [][(\E r \in Requests : chainOp[r] = "reorder" /\ chainOp'[r] # "reorder") \/
       \A s, t \in Steps :
            /\ position[s] # None /\ position'[s] # None /\ position'[t] # None
            /\ position[t] = None \/ position[s] < position[t]
            => position'[s] < position'[t]]_chainVars

\* What re.compile refuses is not stored: never as the pattern of subject or
\* body, and as a sender filter in regex mode only after filter and mode were
\* set by two requests, neither of which shows both to the validator.
StoredPatternsCompile ==
    /\ Compiles(filters.subject_regex)
    /\ Compiles(filters.body_regex)
    /\ ~split /\ filters.sender_filter_mode = "regex" => Compiles(filters.sender_filter)
=============================================================================
