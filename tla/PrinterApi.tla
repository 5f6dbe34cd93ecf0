----------------------------- MODULE PrinterApi -----------------------------
(***************************************************************************)
(* backend/app/api/printers.py and services/printing/cups_client.py: a     *)
(* printer is a row of the database and a queue of the CUPS server, and no *)
(* transaction spans the two.  A request makes its CUPS calls one by one   *)
(* before it commits; any call and the commit may fail.                    *)
(*                                                                         *)
(* The two do not agree on what a name is: the database compares queue     *)
(* names exactly, CUPS ignores case.  Folded[q] is the queue that CUPS     *)
(* finds under the name q.                                                 *)
(*                                                                         *)
(* Left out: discovery and the test page, which change neither; the name,  *)
(* is_active and the default options of a row.                             *)
(***************************************************************************)
EXTENDS ApiConstants

VARIABLES
    (* the database *)
    row,            \* [Printers -> a row of printers, or None]
    createdPrinters,        \* the ids given away
    (* the CUPS server *)
    cups,           \* [Queues -> a queue, or None], at folded names
    named,          \* the queue names asked for so far; a suffix is a new name
    (* each request *)
    printerPc, printerOp,
    printer,        \* the printer it is about
    queue,          \* queue_name
    uri,            \* payload.connection_uri
    capabilities,   \* those read, as the device they describe
    (* history *)
    disturbed       \* printers whose queue a request changed without a commit

printerTables == <<row, createdPrinters, cups, named, disturbed>>
printerRequest == <<printerOp, printer, queue, uri, capabilities>>
printerVars == <<printerTables, printerPc, printerRequest>>

Row == [queue : Queues, uri : Uris, capabilities : Uris]
Queue == [uri : Uris, accepting : BOOLEAN]
PrinterLabel == {"idle", "check", "find", "add", "enable", "capabilities", "remove", "commit"}

PrintersTypeOK ==
    /\ row \in [Printers -> Row \cup {None}]
    /\ createdPrinters \in SUBSET Printers
    /\ cups \in [Queues -> Queue \cup {None}]
    /\ named \in SUBSET Queues
    /\ disturbed \in SUBSET Printers
    /\ printerPc \in [Requests -> PrinterLabel]
    /\ printerOp \in [Requests -> {"none", "create", "update", "delete"}]
    /\ printer \in [Requests -> Printers \cup {None}]
    /\ queue \in [Requests -> Queues \cup {None}]
    /\ uri \in [Requests -> Uris \cup {None}]
    /\ capabilities \in [Requests -> Uris \cup {None}]
-----------------------------------------------------------------------------
PrintersInit ==
    /\ row = [p \in Printers |-> None]
    /\ createdPrinters = {}
    /\ cups = [q \in Queues |-> None]
    /\ named = {}
    /\ disturbed = {}
    /\ printerPc = [r \in Requests |-> "idle"]
    /\ printerOp = [r \in Requests |-> "none"]
    /\ printer = [r \in Requests |-> None]
    /\ queue = [r \in Requests |-> None]
    /\ uri = [r \in Requests |-> None]
    /\ capabilities = [r \in Requests |-> None]

PrintersGoto(r, label) == printerPc' = [printerPc EXCEPT ![r] = label]
Stored == {p \in Printers : row[p] # None}
\* The lookup of a name, and the unique column.
InUse(q) == \E p \in Stored : row[p].queue = q

\* Where CUPS finds the queue of a request.
At(r) == Folded[queue[r]]

\* The request is answered; its session is gone.
PrintersAnswer(r) ==
    /\ printerOp' = [printerOp EXCEPT ![r] = "none"]
    /\ printer' = [printer EXCEPT ![r] = None]
    /\ queue' = [queue EXCEPT ![r] = None]
    /\ uri' = [uri EXCEPT ![r] = None]
    /\ capabilities' = [capabilities EXCEPT ![r] = None]
    /\ PrintersGoto(r, "idle")
-----------------------------------------------------------------------------
(* A request arrives *)

BeginCreatePrinter(r, p, slug, u) ==
    /\ printerPc[r] = "idle"
    /\ p \notin createdPrinters
    /\ createdPrinters' = createdPrinters \cup {p}
    /\ printerOp' = [printerOp EXCEPT ![r] = "create"]
    /\ printer' = [printer EXCEPT ![r] = p]
    /\ queue' = [queue EXCEPT ![r] = slug]
    /\ uri' = [uri EXCEPT ![r] = u]
    /\ PrintersGoto(r, "check")
    /\ UNCHANGED <<row, cups, named, disturbed, capabilities>>

BeginUpdatePrinter(r, p, u) ==
    /\ printerPc[r] = "idle"
    /\ p \in createdPrinters
    /\ printerOp' = [printerOp EXCEPT ![r] = "update"]
    /\ printer' = [printer EXCEPT ![r] = p]
    /\ uri' = [uri EXCEPT ![r] = u]
    /\ PrintersGoto(r, "find")
    /\ UNCHANGED <<printerTables, queue, capabilities>>

BeginDeletePrinter(r, p) ==
    /\ printerPc[r] = "idle"
    /\ p \in createdPrinters
    /\ printerOp' = [printerOp EXCEPT ![r] = "delete"]
    /\ printer' = [printer EXCEPT ![r] = p]
    /\ PrintersGoto(r, "find")
    /\ UNCHANGED <<printerTables, queue, uri, capabilities>>
-----------------------------------------------------------------------------
(* The handlers *)

\* Variant of CheckQueue: two printers of the same name.
QueueUnchecked(r) ==
    /\ printerPc[r] = "check"
    /\ named' = named \cup {queue[r]}
    /\ PrintersGoto(r, "add")
    /\ UNCHANGED <<row, createdPrinters, cups, disturbed, printerRequest>>

\* The names that the random suffix makes, new to CUPS, too.
Suffixed == {q \in Queues : \A n \in named \cup Slugs : Folded[n] # Folded[q]}

\* create_printer: a queue name in use gets a suffix.
CheckQueue(r) ==
    /\ printerPc[r] = "check"
    /\ \E q \in IF InUse(queue[r]) THEN Suffixed ELSE {queue[r]} :
            /\ queue' = [queue EXCEPT ![r] = q]
            /\ named' = named \cup {q}
    /\ PrintersGoto(r, "add")
    /\ UNCHANGED <<row, createdPrinters, cups, disturbed, printerOp, printer, uri, capabilities>>

\* _get_printer_or_404; CUPS is left alone if the URI stays the same.
FindPrinter(r) ==
    /\ printerPc[r] = "find"
    /\ IF \/ row[printer[r]] = None
          \/ printerOp[r] = "update" /\ row[printer[r]].uri = uri[r]
       THEN PrintersAnswer(r)
       ELSE /\ queue' = [queue EXCEPT ![r] = row[printer[r]].queue]
            /\ PrintersGoto(r, IF printerOp[r] = "update" THEN "add" ELSE "remove")
            /\ UNCHANGED <<printerOp, printer, uri, capabilities>>
    /\ UNCHANGED printerTables

\* conn.addPrinter creates a queue, stopped, or changes the URI of one.
AddQueue(r) ==
    /\ printerPc[r] = "add"
    /\ cups' = [cups EXCEPT ![At(r)] =
            [uri |-> uri[r], accepting |-> IF @ = None THEN FALSE ELSE @.accepting]]
    /\ disturbed' = disturbed \cup {printer[r]}
    /\ PrintersGoto(r, "enable")
    /\ UNCHANGED <<row, createdPrinters, named, printerRequest>>

\* Variant of EnableQueue: get_capabilities is not called.
EnableAndCommit(r) ==
    /\ printerPc[r] = "enable"
    /\ cups[At(r)] # None
    /\ cups' = [cups EXCEPT ![At(r)].accepting = TRUE]
    /\ PrintersGoto(r, "commit")
    /\ UNCHANGED <<row, createdPrinters, named, disturbed, printerRequest>>

\* enablePrinter, acceptJobs and setPrinterShared.
EnableQueue(r) ==
    /\ printerPc[r] = "enable"
    /\ cups[At(r)] # None
    /\ cups' = [cups EXCEPT ![At(r)].accepting = TRUE]
    /\ PrintersGoto(r, "capabilities")
    /\ UNCHANGED <<row, createdPrinters, named, disturbed, printerRequest>>

\* get_capabilities asks for the attributes of the queue's device.
ReadCapabilities(r) ==
    /\ printerPc[r] = "capabilities"
    /\ cups[At(r)] # None
    /\ capabilities' = [capabilities EXCEPT ![r] = cups[At(r)].uri]
    /\ PrintersGoto(r, "commit")
    /\ UNCHANGED <<printerTables, printerOp, printer, queue, uri>>

\* remove_printer.
RemoveQueue(r) ==
    /\ printerPc[r] = "remove"
    /\ cups[At(r)] # None
    /\ cups' = [cups EXCEPT ![At(r)] = None]
    /\ disturbed' = disturbed \cup {printer[r]}
    /\ PrintersGoto(r, "commit")
    /\ UNCHANGED <<row, createdPrinters, named, printerRequest>>

\* except CupsError: the row is deleted all the same, a queue may stay behind.
RemoveFails(r) ==
    /\ printerPc[r] = "remove"
    /\ PrintersGoto(r, "commit")
    /\ UNCHANGED <<printerTables, printerRequest>>

\* The row a creation or a PATCH leaves.
NewRow(r) == [queue |-> queue[r], uri |-> uri[r], capabilities |-> capabilities[r]]

\* db.commit(): the row of the request's printer is stored, or gone.
StoreRow(r, new) ==
    /\ row' = [row EXCEPT ![printer[r]] = new]
    /\ disturbed' = disturbed \ {printer[r]}
    /\ PrintersAnswer(r)
    /\ UNCHANGED <<createdPrinters, cups, named>>

\* create_printer inserts; queue names are unique.
CommitCreatePrinter(r) ==
    /\ printerPc[r] = "commit"
    /\ printerOp[r] = "create"
    /\ ~InUse(queue[r])
    /\ StoreRow(r, NewRow(r))

\* Variant of CommitUpdatePrinter: the capabilities are not read again.
CommitOldCapabilities(r) ==
    /\ printerPc[r] = "commit"
    /\ printerOp[r] = "update"
    /\ row[printer[r]] # None
    /\ StoreRow(r, [NewRow(r) EXCEPT !.capabilities = row[printer[r]].capabilities])

\* update_printer; a row that is gone cannot be updated.
CommitUpdatePrinter(r) ==
    /\ printerPc[r] = "commit"
    /\ printerOp[r] = "update"
    /\ row[printer[r]] # None
    /\ StoreRow(r, NewRow(r))

\* delete_printer.
CommitDeletePrinter(r) ==
    /\ printerPc[r] = "commit"
    /\ printerOp[r] = "delete"
    /\ StoreRow(r, None)

\* A CUPS call fails (502), the database refuses, or the request breaks off:
\* what CUPS was told stays.
PrintersRequestFails(r) ==
    /\ printerPc[r] # "idle"
    /\ PrintersAnswer(r)
    /\ UNCHANGED printerTables

PrintersBegin(r) ==
    \E p \in Printers :
        \/ \E u \in Uris : \/ BeginUpdatePrinter(r, p, u)
                         \/ \E slug \in Slugs : BeginCreatePrinter(r, p, slug, u)
        \/ BeginDeletePrinter(r, p)

PrintersHandle(r) ==
    \/ CheckQueue(r) \/ FindPrinter(r) \/ AddQueue(r) \/ EnableQueue(r)
    \/ ReadCapabilities(r) \/ RemoveQueue(r) \/ RemoveFails(r)
    \/ CommitCreatePrinter(r) \/ CommitUpdatePrinter(r) \/ CommitDeletePrinter(r)
    \/ PrintersRequestFails(r)

\* A request begins only when no other is under way.
PrintersQuiet == \A r \in Requests : printerPc[r] = "idle"

PrintersSerialNext == \E r \in Requests : (PrintersQuiet /\ PrintersBegin(r)) \/ PrintersHandle(r)

PrintersSerialSpec == PrintersInit /\ [][PrintersSerialNext]_printerVars

\* Any number of requests at a time.
PrintersNext == \E r \in Requests : PrintersBegin(r) \/ PrintersHandle(r)

PrintersSpec == PrintersInit /\ [][PrintersNext]_printerVars
-----------------------------------------------------------------------------
(* Properties *)

\* No other name that was asked for is, to CUPS, the name of this printer's
\* queue.
Unmistakable(p) == \A n \in named : Folded[n] = Folded[row[p].queue] => n = row[p].queue

\* A printer whose name no other has but for the case has a queue of its own,
\* and no request about another printer touches it: the steps of a chain never
\* print on somebody else's device.
QueueOfItsOwn ==
    \A p \in Stored : Unmistakable(p) =>
        /\ \A q \in Stored : Folded[row[q].queue] = Folded[row[p].queue] => q = p
        /\ \A r \in Requests :
                /\ printerPc[r] \in {"add", "enable", "remove"}
                /\ At(r) = Folded[row[p].queue]
                => printer[r] = p

\* The capabilities shown of a printer are those of the device in its row,
\* whatever failed and whoever shares its queue.  The queue of an unmistakable
\* printer accepts jobs for that device, whatever queues failed requests and
\* failed deletions left behind; unless a request that changed the queue has
\* not committed.
Mirrored ==
    \A p \in Stored :
        /\ row[p].capabilities = row[p].uri
        /\ Unmistakable(p) /\ p \notin disturbed =>
                cups[Folded[row[p].queue]] = [uri |-> row[p].uri, accepting |-> TRUE]
=============================================================================
