--------------------------- MODULE PrinterApiProofs ---------------------------
(***************************************************************************)
(* Proofs about PrinterApi with requests one at a time: rows and queues    *)
(* agree for any numbers of printers, queues and devices.                  *)
(***************************************************************************)
EXTENDS PrinterApi, TLAPS

\* At most one request is under way.
Serial == \A r, s \in Requests : printerPc[r] # "idle" /\ printerPc[s] # "idle" => r = s

\* The operations a request at a label may belong to.
Operations == [check |-> {"create"}, find |-> {"update", "delete"},
               add |-> {"create", "update"}, enable |-> {"create", "update"},
               capabilities |-> {"create", "update"}, remove |-> {"delete"},
               commit |-> {"create", "update", "delete"}]

\* What a request knows of the tables: a new printer has no row and, once it
\* is checked, its queue is nobody's; that of another is the queue of its row.
Carries(r) ==
    printerPc[r] # "idle" =>
        /\ printer[r] \in createdPrinters
        /\ printerOp[r] \in Operations[printerPc[r]]
        /\ printerOp[r] # "delete" => uri[r] \in Uris
        /\ printerOp[r] = "create" => printer[r] \notin Stored /\ queue[r] \in Queues
        /\ printerOp[r] = "create" /\ printerPc[r] # "check" => ~InUse(queue[r]) /\ queue[r] \in named
        /\ printerOp[r] # "create" /\ printerPc[r] # "find" =>
            printer[r] \in Stored /\ queue[r] = row[printer[r]].queue

\* How far the queue is prepared.
Prepared(r) ==
    printerOp[r] # "delete" =>
        /\ printerPc[r] \in {"enable", "capabilities", "commit"} =>
            /\ cups[At(r)] \in Queue
            /\ cups[At(r)].uri = uri[r]
            /\ printer[r] \in disturbed
        /\ printerPc[r] \in {"capabilities", "commit"} => cups[At(r)].accepting
        /\ printerPc[r] = "commit" => capabilities[r] = uri[r]

\* The rows: their ids and queues were given away, no queue twice.
Rows ==
    /\ Stored \subseteq createdPrinters
    /\ \A p \in Stored : row[p].queue \in named
    /\ \A p, q \in Stored : row[p].queue = row[q].queue => p = q

Requested == \A r \in Requests : Carries(r) /\ Prepared(r)

IInv == PrintersTypeOK /\ Serial /\ Requested /\ Rows /\ Mirrored
-----------------------------------------------------------------------------
\* A request past its lookup works on the queue of no other unmistakable printer.
LEMMA NobodyElses ==
    ASSUME Rows, NEW r \in Requests, Carries(r),
           printerPc[r] \in PrinterLabel \ {"idle", "check", "find"},
           NEW p \in Stored, Unmistakable(p), At(r) = Folded[row[p].queue]
    PROVE  printer[r] = p
<1>1. printerOp[r] \in {"create", "update", "delete"}
    BY DEF Carries, Operations, PrinterLabel
<1>2. queue[r] \in named
    BY <1>1 DEF Carries, Rows
<1>3. queue[r] = row[p].queue
    BY <1>2 DEF Unmistakable, At
<1> QED
    BY <1>1, <1>3 DEF Carries, Rows, InUse

LEMMA InitInv == PrintersInit => IInv
BY DEF PrintersInit, IInv, PrintersTypeOK, PrinterLabel, Serial, Requested, Carries, Prepared,
    Rows, Mirrored, Stored

\* While a request is under way the others are idle, so that it is enough to
\* look at this one.
LEMMA OnlyOne ==
    ASSUME PrintersTypeOK, Serial, NEW r \in Requests, printerPc[r] # "idle",
           NEW label \in PrinterLabel, PrintersGoto(r, label)
    PROVE  /\ \A s \in Requests \ {r} : printerPc'[s] = "idle"
           /\ printerPc'[r] = label
           /\ Serial'
           /\ printerPc' \in [Requests -> PrinterLabel]
BY DEF PrintersTypeOK, Serial, PrintersGoto

\* An answered request needs nothing of the tables but that they are in order.
LEMMA AnswerInv ==
    ASSUME IInv, NEW r \in Requests, printerPc[r] # "idle", PrintersAnswer(r),
           row' \in [Printers -> Row \cup {None}], createdPrinters' \in SUBSET Printers,
           cups' \in [Queues -> Queue \cup {None}], named' \in SUBSET Queues,
           disturbed' \in SUBSET Printers, Rows', Mirrored'
    PROVE  IInv'
<1>1. PrintersTypeOK /\ Serial
    BY DEF IInv
<1>2. PrintersGoto(r, "idle") /\ "idle" \in PrinterLabel
    BY DEF PrintersAnswer, PrinterLabel
<1>3. Serial' /\ (\A s \in Requests : printerPc'[s] = "idle")
        /\ printerPc' \in [Requests -> PrinterLabel]
    BY <1>1, <1>2, OnlyOne
<1>4. PrintersTypeOK'
    BY <1>1, <1>3 DEF PrintersAnswer, PrintersTypeOK
<1>5. Requested'
    BY <1>3 DEF Requested, Carries, Prepared
<1> QED
    BY <1>3, <1>4, <1>5 DEF IInv

\* A request that arrives.
LEMMA BeginInv ==
    ASSUME IInv, PrintersQuiet, NEW r \in Requests, PrintersBegin(r)
    PROVE  IInv'
<1>i. PrintersTypeOK /\ Rows /\ Mirrored /\ \A s \in Requests : printerPc[s] = "idle"
    BY DEF IInv, PrintersQuiet
<1>1. ASSUME NEW p \in Printers, NEW slug \in Slugs, NEW u \in Uris, BeginCreatePrinter(r, p,
slug, u)
      PROVE  IInv'
    <2>1. PrintersTypeOK'
        BY <1>i, <1>1, SlugsAssumption DEF BeginCreatePrinter, PrintersGoto, PrintersTypeOK,
            PrinterLabel
    <2>2. Rows' /\ Mirrored' /\ Stored' = Stored
        BY <1>i, <1>1 DEF BeginCreatePrinter, Rows, Mirrored, Unmistakable, Stored
    <2>3. /\ \A s \in Requests \ {r} : printerPc'[s] = "idle"
          /\ printerPc'[r] = "check" /\ printerOp'[r] = "create" /\ printer'[r] = p /\ queue'[r] = slug
          /\ uri'[r] = u /\ createdPrinters' = createdPrinters \cup {p} /\ p \notin createdPrinters
        BY <1>i, <1>1 DEF BeginCreatePrinter, PrintersGoto, PrintersTypeOK
    <2>4. Serial'
        BY <2>3 DEF Serial
    <2>5. Requested'
        BY <1>i, <2>2, <2>3, SlugsAssumption DEF Requested, Carries, Prepared, Rows, Operations
    <2> QED
        BY <2>1, <2>2, <2>4, <2>5 DEF IInv
<1>2. ASSUME NEW p \in Printers, NEW u \in Uris, BeginUpdatePrinter(r, p, u)
      PROVE  IInv'
    <2>1. PrintersTypeOK'
        BY <1>i, <1>2 DEF BeginUpdatePrinter, printerTables, PrintersGoto, PrintersTypeOK,
            PrinterLabel
    <2>2. Rows' /\ Mirrored'
        BY <1>i, <1>2 DEF BeginUpdatePrinter, printerTables, Rows, Mirrored, Unmistakable, Stored
    <2>3. /\ \A s \in Requests \ {r} : printerPc'[s] = "idle"
          /\ printerPc'[r] = "find" /\ printerOp'[r] = "update" /\ printer'[r] = p /\ uri'[r] = u
          /\ p \in createdPrinters'
        BY <1>i, <1>2 DEF BeginUpdatePrinter, printerTables, PrintersGoto, PrintersTypeOK
    <2>4. Serial'
        BY <2>3 DEF Serial
    <2>5. Requested'
        BY <2>3 DEF Requested, Carries, Prepared, Operations
    <2> QED
        BY <2>1, <2>2, <2>4, <2>5 DEF IInv
<1>3. ASSUME NEW p \in Printers, BeginDeletePrinter(r, p)
      PROVE  IInv'
    <2>1. PrintersTypeOK'
        BY <1>i, <1>3 DEF BeginDeletePrinter, printerTables, PrintersGoto, PrintersTypeOK,
            PrinterLabel
    <2>2. Rows' /\ Mirrored'
        BY <1>i, <1>3 DEF BeginDeletePrinter, printerTables, Rows, Mirrored, Unmistakable, Stored
    <2>3. /\ \A s \in Requests \ {r} : printerPc'[s] = "idle"
          /\ printerPc'[r] = "find" /\ printerOp'[r] = "delete" /\ printer'[r] = p
          /\ p \in createdPrinters'
        BY <1>i, <1>3 DEF BeginDeletePrinter, printerTables, PrintersGoto, PrintersTypeOK
    <2>4. Serial'
        BY <2>3 DEF Serial
    <2>5. Requested'
        BY <2>3 DEF Requested, Carries, Prepared, Operations
    <2> QED
        BY <2>1, <2>2, <2>4, <2>5 DEF IInv
<1> QED
    BY <1>1, <1>2, <1>3 DEF PrintersBegin

\* The steps of a handler that leave the request under way: it is enough that
\* this request and the tables are in order.
LEMMA StepInv ==
    ASSUME IInv, NEW r \in Requests, printerPc[r] # "idle", NEW label \in PrinterLabel,
           PrintersGoto(r, label),
           PrintersTypeOK', Carries(r)', Prepared(r)', Rows', Mirrored'
    PROVE  IInv'
<1>1. Serial' /\ \A s \in Requests \ {r} : printerPc'[s] = "idle"
    BY OnlyOne DEF IInv
<1>2. \A s \in Requests \ {r} : Carries(s)' /\ Prepared(s)'
    BY <1>1 DEF Carries, Prepared
<1> QED
    BY <1>1, <1>2 DEF IInv, Requested

\* Every step of a handler keeps the invariant.
LEMMA HandleInv ==
    ASSUME IInv, NEW r \in Requests, PrintersHandle(r)
    PROVE  IInv'
<1>i. PrintersTypeOK /\ Serial /\ Carries(r) /\ Prepared(r) /\ Rows /\ Mirrored
    BY DEF IInv, Requested
<1>1. ASSUME CheckQueue(r) PROVE IInv'
    <2>1. PICK q \in Queues :
              /\ q \in IF InUse(queue[r]) THEN Suffixed ELSE {queue[r]}
              /\ queue' = [queue EXCEPT ![r] = q] /\ named' = named \cup {q}
        <3> DEFINE Names == IF InUse(queue[r]) THEN Suffixed ELSE {queue[r]}
        <3>1. printerPc[r] = "check" /\ \E q \in Names :
                  queue' = [queue EXCEPT ![r] = q] /\ named' = named \cup {q}
            BY <1>1 DEF CheckQueue
        <3>2. queue[r] \in Queues
            BY <1>i, <3>1 DEF Carries, Operations
        <3>3. Names \subseteq Queues
            BY <3>2 DEF Suffixed
        <3> HIDE DEF Names
        <3>4. \E q \in Queues : q \in Names /\ queue' = [queue EXCEPT ![r] = q]
                                /\ named' = named \cup {q}
            BY <3>1, <3>3
        <3> QED
            BY <3>4 DEF Names
    <2>2. /\ printerPc[r] = "check" /\ PrintersGoto(r, "add") /\ printerOp[r] = "create"
          /\ UNCHANGED <<row, createdPrinters, cups, disturbed, printerOp, printer, uri, capabilities>>
        BY <1>i, <1>1 DEF CheckQueue, Carries, Operations
    <2>3. ~InUse(q)
        BY <1>i, <2>1 DEF Rows, InUse, Suffixed
    <2>4. printerPc'[r] = "add" /\ queue'[r] = q /\ Stored' = Stored /\ "add" \in PrinterLabel
        BY <1>i, <2>1, <2>2 DEF PrintersTypeOK, PrintersGoto, Stored, PrinterLabel
    <2>5. PrintersTypeOK'
        BY <1>i, <2>1, <2>2, <2>4, OnlyOne DEF PrintersTypeOK
    <2>6. Carries(r)'
        BY <1>i, <2>1, <2>2, <2>3, <2>4 DEF Carries, InUse, Operations
    <2>7. Prepared(r)' /\ Rows' /\ Mirrored'
        BY <1>i, <2>1, <2>2, <2>4 DEF Prepared, Rows, Mirrored, Unmistakable
    <2> QED
        BY <2>2, <2>4, <2>5, <2>6, <2>7, StepInv
<1>2. ASSUME FindPrinter(r) PROVE IInv'
    <2>1. CASE PrintersAnswer(r)
        BY <1>i, <1>2, <2>1, AnswerInv DEF FindPrinter, printerTables, PrintersTypeOK, Rows,
            Mirrored, Unmistakable, Stored
    <2>2. CASE /\ row[printer[r]] # None
               /\ queue' = [queue EXCEPT ![r] = row[printer[r]].queue]
               /\ PrintersGoto(r, IF printerOp[r] = "update" THEN "add" ELSE "remove")
               /\ UNCHANGED <<printerOp, printer, uri, capabilities, printerTables>>
        <3>1. printerPc[r] = "find" /\ printerOp[r] \in {"update", "delete"}
                /\ printer[r] \in Printers
            BY <1>i, <1>2 DEF FindPrinter, Carries, Operations, PrintersTypeOK
        <3>2. printer[r] \in Stored /\ row[printer[r]] \in Row
            BY <1>i, <2>2, <3>1 DEF PrintersTypeOK, Stored
        <3>3. /\ printerPc'[r] = IF printerOp[r] = "update" THEN "add" ELSE "remove"
              /\ printerPc'[r] \in PrinterLabel /\ PrintersGoto(r, printerPc'[r])
              /\ queue'[r] = row[printer[r]].queue
              /\ Stored' = Stored
            BY <1>i, <2>2, <3>1 DEF PrintersTypeOK, PrintersGoto, Stored, PrinterLabel,
                printerTables
        <3>4. PrintersTypeOK'
            BY <1>i, <2>2, <3>1, <3>2, <3>3, OnlyOne DEF PrintersTypeOK, Row, printerTables
        <3>5. Carries(r)'
            BY <1>i, <2>2, <3>1, <3>2, <3>3 DEF Carries, printerTables, Operations
        <3>6. Prepared(r)' /\ Rows' /\ Mirrored'
            BY <1>i, <2>2, <3>1, <3>3 DEF Prepared, Rows, Mirrored, Unmistakable, At, printerTables
        <3> QED
            BY <3>1, <3>3, <3>4, <3>5, <3>6, StepInv
    <2> QED
        BY <1>2, <2>1, <2>2 DEF FindPrinter
<1>3. ASSUME AddQueue(r) PROVE IInv'
    <2> DEFINE q == At(r)
    <2>1. /\ printerPc[r] = "add" /\ printerOp[r] \in {"create", "update"} /\ q \in Queues
          /\ printer[r] \in Printers /\ uri[r] \in Uris
          /\ PrintersGoto(r, "enable") /\ "enable" \in PrinterLabel
          /\ UNCHANGED <<row, createdPrinters, named, printerOp, printer, queue, uri, capabilities>>
          /\ disturbed' = disturbed \cup {printer[r]}
        <3>1. printerOp[r] \in {"create", "update"} /\ queue[r] \in Queues
            BY <1>i, <1>3 DEF AddQueue, Carries, PrintersTypeOK, Row, Stored, Operations
        <3>2. q \in Queues
            BY <3>1, FoldedAssumption DEF At
        <3> QED
            BY <1>i, <1>3, <3>1, <3>2 DEF AddQueue, printerRequest, Carries, PrintersTypeOK,
                PrinterLabel, Operations
    <2>2. /\ cups' = [cups EXCEPT ![q] = [uri |-> uri[r],
                            accepting |-> IF @ = None THEN FALSE ELSE @.accepting]]
          /\ cups'[q] \in Queue /\ cups'[q].uri = uri[r]
        <3>1. cups[q] \in Queue \cup {None}
            BY <1>i, <2>1 DEF PrintersTypeOK
        <3>2. (IF cups[q] = None THEN FALSE ELSE cups[q].accepting) \in BOOLEAN
            BY <3>1 DEF Queue
        <3>3. cups' = [cups EXCEPT ![q] = [uri |-> uri[r],
                            accepting |-> IF @ = None THEN FALSE ELSE @.accepting]]
            BY <1>3 DEF AddQueue
        <3>4. cups'[q] = [uri |-> uri[r],
                         accepting |-> IF cups[q] = None THEN FALSE ELSE cups[q].accepting]
            BY <1>i, <2>1, <3>3 DEF PrintersTypeOK
        <3>5. cups'[q] \in Queue /\ cups'[q].uri = uri[r]
            <4> DEFINE a == IF cups[q] = None THEN FALSE ELSE cups[q].accepting
            <4>1. a \in BOOLEAN /\ cups'[q] = [uri |-> uri[r], accepting |-> a]
                BY <3>2, <3>4
            <4> HIDE DEF a
            <4> QED
                BY <2>1, <4>1 DEF Queue
        <3> QED
            BY <3>3, <3>5
    <2>3. cups' \in [Queues -> Queue \cup {None}] /\ \A o \in Queues \ {q} : cups'[o] = cups[o]
        BY <1>i, <2>1, <2>2 DEF PrintersTypeOK
    <2>4. printerPc'[r] = "enable" /\ printerPc' \in [Requests -> PrinterLabel]
            /\ Stored' = Stored
        BY <1>i, <2>1, OnlyOne DEF Stored
    <2>5. PrintersTypeOK'
        BY <1>i, <2>1, <2>3, <2>4 DEF PrintersTypeOK
    <2>6. Carries(r)' /\ Prepared(r)' /\ Rows'
        BY <1>i, <2>1, <2>2, <2>4 DEF Carries, Prepared, Rows, InUse, At, Operations
    <2>7. \A p \in Stored : Unmistakable(p) /\ p # printer[r] => Folded[row[p].queue] \in Queues \ {q}
        BY <1>i, <2>1, NobodyElses, FoldedAssumption DEF PrinterLabel, PrintersTypeOK, Row, Stored
    <2>8. Mirrored'
        BY <1>i, <2>1, <2>3, <2>4, <2>7 DEF Mirrored, Unmistakable
    <2> QED
        BY <2>1, <2>5, <2>6, <2>8, StepInv
<1>4. ASSUME EnableQueue(r) PROVE IInv'
    <2> DEFINE q == At(r)
    <2>1. /\ printerPc[r] = "enable" /\ printerOp[r] \in {"create", "update"} /\ q \in Queues
          /\ printer[r] \in disturbed
          /\ cups[q] \in Queue /\ cups[q].uri = uri[r]
          /\ cups' = [cups EXCEPT ![q].accepting = TRUE]
          /\ PrintersGoto(r, "capabilities") /\ "capabilities" \in PrinterLabel
          /\ UNCHANGED <<row, createdPrinters, named, disturbed, printerOp, printer, queue, uri, capabilities>>
        <3>1. printerOp[r] \in {"create", "update"} /\ queue[r] \in Queues
            BY <1>i, <1>4 DEF EnableQueue, Carries, PrintersTypeOK, Row, Stored, Operations
        <3>2. q \in Queues
            BY <3>1, FoldedAssumption DEF At
        <3> QED
            BY <1>i, <1>4, <3>1, <3>2 DEF EnableQueue, printerRequest, Carries, Prepared,
                PrintersTypeOK, PrinterLabel, Operations
    <2>2. cups'[q] \in Queue /\ cups'[q].uri = uri[r] /\ cups'[q].accepting
        BY <1>i, <2>1 DEF PrintersTypeOK, Queue
    <2>3. cups' \in [Queues -> Queue \cup {None}] /\ \A o \in Queues \ {q} : cups'[o] = cups[o]
        BY <1>i, <2>1, <2>2 DEF PrintersTypeOK
    <2>4. printerPc'[r] = "capabilities" /\ printerPc' \in [Requests -> PrinterLabel]
            /\ Stored' = Stored
        BY <1>i, <2>1, OnlyOne DEF Stored
    <2>5. PrintersTypeOK'
        BY <1>i, <2>1, <2>3, <2>4 DEF PrintersTypeOK
    <2>6. Carries(r)' /\ Prepared(r)' /\ Rows'
        BY <1>i, <2>1, <2>2, <2>4 DEF Carries, Prepared, Rows, InUse, At, Operations
    <2>7. \A p \in Stored : Unmistakable(p) /\ p # printer[r] => Folded[row[p].queue] \in Queues \ {q}
        BY <1>i, <2>1, NobodyElses, FoldedAssumption DEF PrinterLabel, PrintersTypeOK, Row, Stored
    <2>8. Mirrored'
        BY <1>i, <2>1, <2>3, <2>4, <2>7 DEF Mirrored, Unmistakable
    <2> QED
        BY <2>1, <2>5, <2>6, <2>8, StepInv
<1>5. ASSUME ReadCapabilities(r) PROVE IInv'
    <2>1. /\ printerPc[r] = "capabilities" /\ printerOp[r] \in {"create", "update"}
          /\ cups[At(r)].uri = uri[r] /\ uri[r] \in Uris
          /\ capabilities' = [capabilities EXCEPT ![r] = uri[r]]
          /\ PrintersGoto(r, "commit") /\ "commit" \in PrinterLabel
          /\ UNCHANGED <<printerTables, printerOp, printer, queue, uri>>
        <3>1. printerPc[r] = "capabilities" /\ PrintersGoto(r, "commit")
                /\ UNCHANGED <<printerTables, printerOp, printer, queue, uri>>
              /\ capabilities' = [capabilities EXCEPT ![r] = cups[At(r)].uri]
            BY <1>5 DEF ReadCapabilities
        <3>2. printerOp[r] \in {"create", "update"} /\ uri[r] \in Uris
            BY <1>i, <3>1 DEF Carries, Operations
        <3>3. cups[At(r)].uri = uri[r]
            BY <1>i, <3>1, <3>2 DEF Prepared
        <3> QED
            BY <3>1, <3>2, <3>3 DEF PrinterLabel
    <2>2. printerPc'[r] = "commit" /\ printerPc' \in [Requests -> PrinterLabel]
            /\ Stored' = Stored
          /\ capabilities'[r] = uri[r]
        BY <1>i, <2>1, OnlyOne DEF Stored, printerTables, PrintersTypeOK
    <2>3. PrintersTypeOK'
        BY <1>i, <2>1, <2>2 DEF PrintersTypeOK, printerTables
    <2>4. Carries(r)' /\ Prepared(r)' /\ Rows' /\ Mirrored'
        BY <1>i, <2>1, <2>2 DEF Carries, Prepared, Rows, Mirrored, Unmistakable, InUse, At,
            printerTables, Operations
    <2> QED
        BY <2>1, <2>3, <2>4, StepInv
<1>6. ASSUME RemoveQueue(r) PROVE IInv'
    <2> DEFINE q == At(r)
    <2>1. /\ printerPc[r] = "remove" /\ printerOp[r] = "delete" /\ printer[r] \in Stored
          /\ queue[r] = row[printer[r]].queue /\ q \in Queues
          /\ cups' = [cups EXCEPT ![q] = None]
          /\ disturbed' = disturbed \cup {printer[r]}
          /\ PrintersGoto(r, "commit") /\ "commit" \in PrinterLabel
          /\ UNCHANGED <<row, createdPrinters, named, printerOp, printer, queue, uri, capabilities>>
        <3>1. printerPc[r] = "remove" /\ printerOp[r] = "delete" /\ printer[r] \in Stored
                /\ queue[r] = row[printer[r]].queue
            BY <1>i, <1>6 DEF RemoveQueue, Carries, Operations
        <3>2. row[printer[r]] \in Row
            BY <1>i, <3>1 DEF PrintersTypeOK, Stored
        <3> QED
            BY <1>6, <3>1, <3>2, FoldedAssumption DEF RemoveQueue, printerRequest, Row, At, PrinterLabel
    <2>2. cups' \in [Queues -> Queue \cup {None}] /\ \A o \in Queues \ {q} : cups'[o] = cups[o]
        BY <1>i, <2>1 DEF PrintersTypeOK
    <2>3. printerPc'[r] = "commit" /\ printerPc' \in [Requests -> PrinterLabel]
            /\ Stored' = Stored
        BY <1>i, <2>1, OnlyOne DEF Stored
    <2>4. PrintersTypeOK'
        BY <1>i, <2>1, <2>2, <2>3 DEF PrintersTypeOK, Stored
    <2>5. Carries(r)' /\ Prepared(r)' /\ Rows'
        BY <1>i, <2>1, <2>3 DEF Carries, Prepared, Rows, Operations
    <2>6. \A p \in Stored : Unmistakable(p) /\ p # printer[r] => Folded[row[p].queue] \in Queues \ {q}
        BY <1>i, <2>1, NobodyElses, FoldedAssumption DEF PrinterLabel, PrintersTypeOK, Row, Stored
    <2>7. Mirrored'
        BY <1>i, <2>1, <2>2, <2>3, <2>6 DEF Mirrored, Unmistakable
    <2> QED
        BY <2>1, <2>4, <2>5, <2>7, StepInv
<1>7. ASSUME RemoveFails(r) PROVE IInv'
    <2>1. /\ printerPc[r] = "remove" /\ printerOp[r] = "delete"
          /\ PrintersGoto(r, "commit") /\ "commit" \in PrinterLabel
          /\ UNCHANGED <<printerTables, printerRequest>>
        BY <1>i, <1>7 DEF RemoveFails, Carries, Operations, PrinterLabel
    <2>2. printerPc'[r] = "commit" /\ printerPc' \in [Requests -> PrinterLabel]
            /\ Stored' = Stored
        BY <1>i, <2>1, OnlyOne DEF Stored, printerTables
    <2>3. PrintersTypeOK'
        BY <1>i, <2>1, <2>2 DEF PrintersTypeOK, printerTables, printerRequest
    <2>4. Carries(r)' /\ Prepared(r)' /\ Rows' /\ Mirrored'
        BY <1>i, <2>1, <2>2 DEF Carries, Prepared, Rows, Mirrored, Unmistakable, printerTables,
            printerRequest, Operations
    <2> QED
        BY <2>1, <2>3, <2>4, StepInv
<1>8. ASSUME CommitCreatePrinter(r) \/ CommitUpdatePrinter(r) \/ CommitDeletePrinter(r)
      PROVE  IInv'
    <2> DEFINE p == printer[r]
               new == NewRow(r)
    <2>1. /\ printerPc[r] = "commit" /\ PrintersAnswer(r)
          /\ UNCHANGED <<createdPrinters, cups, named>>
          /\ p \in Printers /\ p \in createdPrinters
          /\ row' = [row EXCEPT ![p] = IF printerOp[r] = "delete" THEN None ELSE new]
          /\ disturbed' = disturbed \ {p}
        BY <1>i, <1>8 DEF CommitCreatePrinter, CommitUpdatePrinter, CommitDeletePrinter, StoreRow,
                          Carries, PrintersTypeOK
    <2>2. /\ \A o \in Printers \ {p} : row'[o] = row[o]
          /\ row'[p] = IF printerOp[r] = "delete" THEN None ELSE new
          /\ Stored' \subseteq Stored \cup {p}
          /\ printerOp[r] = "delete" => p \notin Stored'
        BY <1>i, <2>1 DEF PrintersTypeOK, Stored
    <2>3. printerOp[r] # "delete" =>
            /\ uri[r] \in Uris /\ capabilities[r] = uri[r]
            /\ queue[r] \in Queues /\ queue[r] \in named
            /\ cups[At(r)] = [uri |-> uri[r], accepting |-> TRUE]
            /\ \A o \in Stored : row[o].queue = queue[r] => o = p
        <3> SUFFICES ASSUME printerOp[r] # "delete"
                     PROVE  /\ uri[r] \in Uris /\ capabilities[r] = uri[r]
                            /\ queue[r] \in Queues /\ queue[r] \in named
                            /\ cups[At(r)] = [uri |-> uri[r], accepting |-> TRUE]
                            /\ \A o \in Stored : row[o].queue = queue[r] => o = p
            OBVIOUS
        <3>1. printerOp[r] \in {"create", "update"} /\ uri[r] \in Uris /\ capabilities[r] = uri[r]
            BY <1>i, <2>1 DEF Carries, Prepared, Operations
        <3>2. printerOp[r] = "update" => p \in Stored /\ queue[r] = row[p].queue
            BY <1>i, <2>1 DEF Carries
        <3>3. queue[r] \in Queues /\ queue[r] \in named
            BY <1>i, <2>1, <3>1, <3>2 DEF Carries, Rows, PrintersTypeOK, Row, Stored
        <3>4. cups[At(r)] = [uri |-> uri[r], accepting |-> TRUE]
            <4>1. cups[At(r)] \in Queue /\ cups[At(r)].uri = uri[r]
                    /\ cups[At(r)].accepting
                BY <1>i, <2>1 DEF Prepared
            <4>2. cups[At(r)].accepting = TRUE
                BY <4>1 DEF Queue
            <4> QED
                BY <4>1, <4>2 DEF Queue
        <3>5. \A o \in Stored : row[o].queue = queue[r] => o = p
            BY <1>i, <2>1, <3>1, <3>2 DEF Carries, InUse, Rows
        <3> QED
            BY <3>1, <3>3, <3>4, <3>5
    <2>4. row' \in [Printers -> Row \cup {None}]
        <3>1. printerOp[r] # "delete" => new \in Row
            BY <2>3 DEF Row, NewRow
        <3> QED
            BY <1>i, <2>1, <3>1 DEF PrintersTypeOK
    <2>5. Rows'
        BY <1>i, <2>1, <2>2, <2>3 DEF Rows, Stored, NewRow
    <2>6. Mirrored'
        <3> SUFFICES ASSUME NEW o \in Stored'
                     PROVE  /\ row'[o].capabilities = row'[o].uri
                            /\ Unmistakable(o)' /\ o \notin disturbed' =>
                                cups[Folded[row'[o].queue]] = [uri |-> row'[o].uri, accepting |-> TRUE]
            BY <2>1 DEF Mirrored
        <3>1. CASE o = p
            <4>1. printerOp[r] # "delete"
                BY <2>2, <3>1
            <4>2. row'[o] = new
                BY <2>2, <3>1, <4>1
            <4>3. row'[o].queue = queue[r] /\ row'[o].uri = uri[r]
                  /\ row'[o].capabilities = capabilities[r]
                BY <4>2 DEF NewRow
            <4> QED
                BY <2>3, <4>1, <4>3 DEF At
        <3>2. CASE o # p
            <4>1. o \in Stored /\ row'[o] = row[o] /\ (o \notin disturbed' => o \notin disturbed)
                BY <2>1, <2>2, <3>2 DEF Stored
            <4>2. Unmistakable(o)' => Unmistakable(o)
                BY <2>1, <4>1 DEF Unmistakable
            <4> QED
                BY <1>i, <4>1, <4>2 DEF Mirrored
        <3> QED
            BY <3>1, <3>2
    <2> QED
        BY <1>i, <2>1, <2>4, <2>5, <2>6, AnswerInv DEF PrintersTypeOK
<1>9. ASSUME PrintersRequestFails(r) PROVE IInv'
    BY <1>i, <1>9, AnswerInv DEF PrintersRequestFails, printerTables, PrintersTypeOK, Rows,
        Mirrored, Unmistakable, Stored
<1> QED
    BY <1>1, <1>2, <1>3, <1>4, <1>5, <1>6, <1>7, <1>8, <1>9 DEF PrintersHandle

LEMMA StutterInv == ASSUME IInv, UNCHANGED printerVars PROVE IInv'
BY DEF printerVars, printerTables, printerRequest, IInv, PrintersTypeOK, Serial, Requested,
    Carries, Prepared, Rows, Mirrored, Unmistakable,
       Stored, InUse, At

LEMMA Invariant == PrintersSerialSpec => []IInv
<1>1. IInv /\ [PrintersSerialNext]_printerVars => IInv'
    BY BeginInv, HandleInv, StutterInv DEF PrintersSerialNext
<1> QED
    BY InitInv, <1>1, PTL DEF PrintersSerialSpec
-----------------------------------------------------------------------------
\* The types.
THEOREM TypeCorrect == PrintersSerialSpec => []PrintersTypeOK
<1>1. IInv => PrintersTypeOK
    BY DEF IInv
<1> QED
    BY Invariant, <1>1, PTL

\* printers.py 46-109: no request touches the queue of a printer that is about
\* another, as long as no name differs from that of the queue in case only.
THEOREM OwnQueue == PrintersSerialSpec => []QueueOfItsOwn
<1>1. IInv => QueueOfItsOwn
    <2> SUFFICES ASSUME IInv, NEW p \in Stored, Unmistakable(p)
                 PROVE  /\ \A q \in Stored : Folded[row[q].queue] = Folded[row[p].queue] => q = p
                        /\ \A r \in Requests :
                                /\ printerPc[r] \in {"add", "enable", "remove"}
                                /\ At(r) = Folded[row[p].queue]
                                => printer[r] = p
        BY DEF QueueOfItsOwn
    <2>1. Rows /\ \A r \in Requests : Carries(r)
        BY DEF IInv, Requested
    <2>2. \A q \in Stored : Folded[row[q].queue] = Folded[row[p].queue] => q = p
        BY <2>1 DEF Rows, Unmistakable
    <2> QED
        BY <2>1, <2>2, NobodyElses DEF PrinterLabel
<1> QED
    BY Invariant, <1>1, PTL

\* Whatever calls fail: the row of a printer describes its device, and its queue
\* as long as no name differs from that of the queue in case only.
THEOREM RowsMirrored == PrintersSerialSpec => []Mirrored
<1>1. IInv => Mirrored
    BY DEF IInv
<1> QED
    BY Invariant, <1>1, PTL
=============================================================================
