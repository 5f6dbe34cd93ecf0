# Sentinel Mail in TLA+

Sentinel Mail watches IMAP mailboxes and runs *action chains* (HTTP calls,
mails, pauses, prints) when new mail arrives or an inbox reaches zero. This
directory holds TLA+ models of its worker and of the API beside it:
specifications that TLC checks on small instances, and theorems about them that
TLAPS proves for every instance. Paths are relative to `src/`.

## 1. The system

Three processes: `web` (FastAPI, `backend/app`), `worker` (`worker/worker`),
and PostgreSQL between them. They share nothing but the database: the API never
calls the worker. CUPS and the IMAP/SMTP/HTTP servers are outside.

| component | state it keeps | operations | what makes it correct |
|---|---|---|---|
| trigger detector (`worker/trigger_detector.py`) | none | `detect_transitions` | a rise is new mail, a fall to 0 is inbox zero, and nothing else |
| poller (`worker/poller.py`) | `_account_locks`, `_running_chain_ids`; `account_state` rows | `poll_account`, `_default_trigger_handler`, `_run_chain_in_background`, `_skip_chain` | each two consecutive counts are compared once, whoever polls; a chain runs on one thread at most; no lock is kept |
| chain executor (`worker/chain_executor.py`) | locals of the thread; ORM copies of chain and account | `execute_chain`, `_execute_step`, `_recheck_unread_count`, `_still_active` | a cap is a cap; a deactivated loop stops; every effect is in the log before the next one |
| chain matcher (`worker/chain_matcher.py`) | none | `is_within_time_window`, `matches_conditions` | windows over midnight; AND/OR over the conditions that are set |
| IDLE watcher, supervisor (`worker/idle_watcher.py`) | `_watchers`; per watcher `_stop`, `_client`, `gave_up`, `_backoff` | `_run`, `_connect_and_idle`, `stop`, `reconcile`, `is_watching`, `stop_all` | one live watcher per IDLE account; a stopped one ends; lost ones are replaced |
| tick loop (`worker/main.py`) | `next_due` | `_poll_if_due`, `_resolve_interval`, `main` | every active account is polled again and again, neither before its interval is over nor much later |
| accounts API (`api/accounts.py`) | `accounts`, `account_state` | create, update, delete, test | deleting an account takes its chains and its state along |
| chains API (`api/action_chains.py`) | `action_chains`, `chain_steps` | create, update, delete, steps, reorder | positions of a chain's steps are distinct and keep the user's order; stored patterns compile |
| users, auth API (`api/users.py`, `api/auth.py`) | `users` | setup, create, update, delete, login | one setup; an administrator always remains |
| printers API (`api/printers.py`, `services/printing`) | `printers`; CUPS queues | create, update, delete, test print | the row and the queue agree |
| logs, system, config, crypto, frontend | - | reads, rendering | not modelled (section 8) |

Interactions: the tick loop starts one `asyncio.to_thread(poll_account)` per due
account and gathers them; each IDLE watcher thread calls the same
`poll_account`. `poll_account` starts one daemon thread per matching chain.
Watchers, polls and chain threads each use a session of their own. The API
changes or deletes any row at any time; a session sees this only when it loads
the row again, and SQLAlchemy expires loaded rows at every commit of that
session (`expire_on_commit` is the default in `app/database.py:11`).

Hard behaviour: polls of one account from two threads; exceptions anywhere in a
poll; a worker that dies between two commits; rows that disappear under a
thread; cached flags; loops that must end; check-then-act in API handlers; mails
that come and go between two IMAP calls about them; a CUPS queue and a row that
no transaction joins.
`PROJECT.json` lists each of them with its line under `hazards`.

## 2. Modules

| module | what it is | code |
|---|---|---|
| `TriggerDetector` | pure: `DetectTransitions` | `trigger_detector.py` |
| `AccountTriggers` | abstract: the ledger of observed counts | what the poller promises |
| `Poller` | threads, lock, fetch, commit, dispatch, API, restart | `poller.py`, callers |
| `MCPoller` | instances of `Poller` for TLC | |
| `PollerProofs` | theorems about `Poller` | |
| `RunReport` | abstract: effects and their rows in the log | what a chain run promises |
| `ChainExecution` | one chain's thread, its ORM copies, API, restart | `chain_executor.py`, `poller.py:50-77` |
| `MCChainExecution` | instances of `ChainExecution` for TLC | |
| `ChainExecutionProofs` | theorems about `ChainExecution` | |
| `IdleSupervision` | watcher threads, the supervisor at every tick, pushes, API, restart | `idle_watcher.py`, `main.py:69-104` |
| `MCIdleSupervision` | instances of `IdleSupervision` for TLC | |
| `IdleSupervisionProofs` | theorems about `IdleSupervision` | |
| `ChainMatcher` | pure: the gate of a chain, and the reference it is compared with | `chain_matcher.py` |
| `MailTriggers` | mails behind the counts: search, header, body, gate, print step; PATCH of the folder | `imap_client.py`, `poller.py`, `chain_executor.py:30-77` |
| `MCMailTriggers` | instances of `MailTriggers` for TLC | |
| `MailTriggersProofs` | theorems about `ChainMatcher` and `MailTriggers` | |
| `TickLoop` | due times, cadence, gather, and its failures, with a clock | `main.py` |
| `MCTickLoop` | instance of `TickLoop` for TLC | |
| `TickLoopProofs` | theorems about `TickLoop` | |
| `ApiConstants` | the constants that the API modules share | |
| `UserApi` | requests that change users, concurrent or one at a time | `api/users.py`, `api/auth.py:41-52`, `api/deps.py` |
| `ChainsApi` | requests that change a chain and its steps, and their validators | `api/action_chains.py`, `schemas/action_chain.py` |
| `PrinterApi` | requests that change printers: CUPS calls, then the commit | `api/printers.py`, `cups_client.py` |
| `MCApi` | the three together for TLC | |
| `UserApiProofs`, `ChainsApiProofs`, `PrinterApiProofs` | theorems about them: requests one at a time, and what is left with concurrent ones | |

`Poller` EXTENDS `TriggerDetector` and INSTANCEs `AccountTriggers`;
`ChainExecution` INSTANCEs `RunReport`; `MailTriggers` EXTENDS `ChainMatcher`
and INSTANCEs `TriggerDetector`; `MCApi` EXTENDS the three API modules, whose
names therefore differ (`UsersNext`, `ChainsNext`, `PrintersNext`). `Poller` and
`ChainExecution` are joined at one point: the thread that `StartChain` starts
(`chainThreads`) is the thread of `ChainExecution` from `Start` to `Finish`.
`PollOnce` of `IdleSupervision` stands for a call of `poll_account`, which is
one of the threads of `Poller`. `MailTriggers` is the same poll seen from the
mailbox: what `Poller` has shown (one poll of an account at a time, one thread
per chain) it takes for granted, and the free choice of `Poller`'s `SkipChain`
is the gate there. A poll of `TickLoop` is a call of `poll_account` that takes
time; `pushing` is the answer of `is_watching`, which `IdleSupervision` models.

Operators whose comment begins with *Variant of* are not part of any
specification: each is the operator it names with a plausible mistake, and is
used to see that a property notices the mistake (`mutants` in `PROJECT.json`).

### Poller

State: rows of the database (`accountRow`, `lastUnread`, `lastError`, `chainRow`,
`triggerLog`), the mailbox (`unread`), the worker's memory (`accountLock`,
`runningChainIds`, `chainThreads`) and the locals of each call (`pc`, `account`,
`previousCount`, `snapshot`, `todo`, `expired`). `pc` stands at the points
between which other threads may run: waiting for the lock, before the read of
the state row, the fetch, the commit, the query of the handler, in its loop, and
at the end of the `with` block. One action per statement between them; each
failing path of the code (`ImapConnectionError`, any other exception, a row
deleted under the thread, `Thread.start()` that raises) is an action of its own.

`expired` records that `_skip_chain` committed: from then on the attributes of
the remaining chains are loaded again when read, and a deleted chain raises.
`triggerLog` keeps the rows of the latest detection only, and `triggerCount`
the number of detections modulo `CountWindow`. Both exist to state properties;
no guard reads them.

### ChainExecution

State: the chain's row with its loop settings, its steps, the account's row, the
mailbox, and the thread: its `pc`, the values `execute_chain` captures
(`steps`, `infinite`, `iterations`), the round counter, the steps left in the
round, and the ORM copies (`fresh`, `chainCache`, `accountCache`; `None` is an
expired object). `roundsSinceStop`, `unlogged` and `closings` are history.

Steps are ranks in the order of positions. Reordering changes which step a rank
stands for, not what a run does with its captured list, so it has no action.

### IdleSupervision

State: each account's row (`mode`), the supervisor (`tick`, the accounts wanted
at this tick, the keys of `_watchers` not visited yet, the watcher whose `stop()`
is under way, `_watchers` itself) and each `IdleWatcher` (its account, `_stop`,
`gave_up`, `_client`, and the statement `pc` its thread stands before). `stop()`
is two steps, the event and the shutdown of the socket, because the watcher may
pass its own test between them. A connection has at most one fact to remember:
whether an untagged response waits in it (`pending`); `unanswered` is history and
tells whether the mailbox has changed since the last poll.

`stop_all` is the same visit of the map with no account wanted; the map is
cleared entry by entry here, at once in the code, where nothing runs any more
that reads it. Left out: the length of the backoff and the log rows.

### MailTriggers

State: each mail of each folder (not yet arrived, unread, read, gone), the row of
the account (`folder`, `lastUnread`), the gates of the chains, the poll with the
statement `pc` it stands before and its snapshot, and the thread of each chain
with the UID it was given and the folder its session has loaded. A UID is the
rank of the mail in its folder and is never used again, as IMAP has it. Between
the search, the fetch of the header, the commit, the fetch of the body (a second
connection) and the fetch for the printer anything may happen to the mailbox.
`seen` and `lastSeen` are history: the mails behind the counts. `moved` is
history, too: the folder was changed since the poll began.

A text is what its patterns can tell: the patterns that occur in it and those
that `re.search` finds. Constants say which, so that the theorems hold for any
regular expressions. `ChainMatcher` has the operators of the code above and the
reference below: a window is a set of minutes, counted from its start; a
condition is satisfied if the mail has the pattern.

### TickLoop

State: `next_due` and the locals of each `_poll_if_due` (`chosen`, `elapsed`),
the tasks of this gather not begun (`todo`) and those in `poll_account`
(`polling`), and where `main` stands. A point of time is kept as the time left
until then, which `Pass` counts down, so that the clock needs no bound. The loop
is one thread: polls take time, the loop's own statements none. `trouble` makes
statements fail; `pace`, `since` and `excused` are history. A restart keeps
nothing; that is `Exit` (an exception left `main`, the threads have ended) or
`WorkerRestart`.

### UserApi, ChainsApi, PrinterApi

A handler is split where another request may commit. `UsersSerialSpec`,
`ChainsSerialSpec` and `PrintersSerialSpec` let a request begin only when none is
under way; `UsersSpec` and its like have no such limit. Any request may break off
at any point (`...RequestFails`); what it has told CUPS stays.

`ChainsApi`: the row of a chain, its columns with patterns, the positions of its
steps. A request is validated when it arrives and may read the steps before it
commits. `loadedFilters` are the columns as the session of a request loaded them:
a PATCH writes only those that `setattr` changed (`Changes`), so that a column
it sets to the value it loaded keeps what another request has committed meanwhile.
`order` is the list of `step_ids`, whose ids may be missing, foreign or
repeated. `split` is history: sender filter and mode come from two requests.

`PrinterApi`: the rows of `printers`, the queues of CUPS, and the names asked for
so far. The code and the table compare queue names exactly (`InUse`), CUPS ignores
case: `Folded`, a constant, takes a name to the queue that CUPS finds under it, and
every CUPS call goes there (`At`). The random suffix of a queue name makes a name
that not even CUPS takes for one asked for before.
`addPrinter` on a queue that exists changes its URI and leaves it enabled or not,
as pycups does; a deletion may leave a queue behind. `disturbed` is history:
printers whose queue a request changed that has not committed.

`UserApi`: state: the role of each row of `users`, and each request: the user who asks, what
is asked, and the role of the target as the request's session has it. A handler
is split after authorisation, after loading the target, and after counting the
administrators. A session answers for a row it
has loaded without asking the database again, so an administrator who changes
himself is checked as he was at authorisation.

## 3. Properties and runs

| run | specification | checks |
|---|---|---|
| `poller_safety` (`MCPoller.cfg`) | `Spec` | `TypeOK`, `LockHeldInside`, `BaselineCurrent`, `DispatchIsLogged`, `SingleExecution`, refinement `LedgerSpec` |
| `poller_liveness` (`MCPollerLive.cfg`) | `FairSpec` | `PollTerminates`, `BaselineConverges` |
| `chain_execution` (`MCChainExecution.cfg`) | `FairSpec` | `TypeOK`, `IterationCap`, `StopsAfterOneRound`, `CappedRunDescends`, refinement `ReportSpec`, `CappedRunEnds`, `DeactivationEndsLoop`, `InboxZeroEndsLoop` |
| `loop_toggled` (`MCChainToggled.cfg`) | `Spec` | `RepeatsHaveLimit`, violated (section 6) |
| `idle_safety` (`MCIdle.cfg`) | `Spec` | `TypeOK`, `UnstoppedIsKept`, `StopReachesIdle`, `StoppedDescends` |
| `idle_liveness` (`MCIdleLive.cfg`) | `FairSpec` | `StoppedWatcherEnds`, `IdleAccountIsWatched` |
| `idle_push` (`MCIdlePush.cfg`) | `Spec` | `PushIsAnswered`, violated (section 6) |
| `idle_is_watching` (`MCIdleWatching.cfg`) | `Spec` | `WatchingMeansConnected`, violated (section 6) |
| `mail_triggers` (`MCMailTriggers.cfg`) | `Spec` | `TypeOK`, `TriggersAreReal`, `VerdictIsMails`, `PrintsTriggeringMail` |
| `tick_loop` (`MCTickLoop.cfg`) | `FairSpec` | `TypeOK`, `NeverLate`, `KeepsInterval`, `PolledAgain` |
| `api` (`MCApi.cfg`) | `Spec`: serial requests | `UsersTypeOK`, `ChainsTypeOK`, `PrintersTypeOK`, `AdminRemains`, `SetupOnce`, `UniquePositions`, `OrderIsKept`, `StoredPatternsCompile`, `QueueOfItsOwn`, `Mirrored` |
| `users_concurrent` (`MCUsersConcurrent.cfg`) | `UsersConcurrently` | `AdminRemains`, violated (section 6) |

Each property is stated in words above its definition.

Deadlock is checked in every run: in none of the models can the system stop.

## 4. Bounds

- `poller_safety`: one account, two chains, two threads, counts `0..2`, detections
  modulo 2. Two threads are what the code has per account (tick loop and
  watcher); accounts share no state but `runningChainIds`. Count 2 gives rises
  from 0 and from 1 and falls that do and do not reach 0. Two chains are needed
  for a handler that skips one and then meets an expired, deleted other.
  Modulo 2 distinguishes none, one and one more detection per step. The two
  threads are symmetric.
- `poller_liveness`: one chain, counts `0..1`. Liveness needs the whole behaviour
  graph, and termination of the handler's loop needs one chain. No symmetry is
  used with liveness.
- `chain_execution`: one step, limit 2 (a first, a last and no further round),
  counts `0..1`. With two steps the liveness properties do not fit in five
  minutes; what several steps add (a failed step with a successor, the order of
  log rows) is safety, which section 7 proves for any steps. `loop_toggled`: the
  same.
- `ChainExecution` counts the rounds of an uncapped run up to `RoundLimit + 1`;
  above it the counter stays. Nothing reads it there: the code compares it only
  with the cap.
- `idle_safety`: two accounts and two watcher objects. A watcher of one account
  that still runs after its `stop()` while the account has a new one, and a
  watcher object that changes accounts, both occur; the objects are symmetric,
  and so are the accounts. A supervisor that needs a third object waits until
  one is collected. `idle_liveness`: one account and one object; a new watcher
  takes the object of the one that ended. `idle_push`, `idle_is_watching`: one
  account, two objects.
- `mail_triggers`: two folders with two mails and one, one chain, a day of three
  minutes, two patterns of which one does not compile, two texts. Two mails in
  a folder are needed for a newest and another one; the second folder for the
  PATCH. The four gates have a window over midnight, a window of one minute
  whose pattern does not compile, OR over such a pattern in regex mode and a
  subject, and AND over subject and body. Every gate and every length of the day
  is the business of the theorems `WindowIsAllowed` and `ConditionsAccept`.
- `tick_loop`: two accounts, interval 2, safety interval 3, a tick of 1, polls of
  up to 2: a poll may be as long as the interval of another account, due times
  fall between ticks and into gathers, and the two cadences differ. Two
  accounts are enough for one that is put off by another.
- `api`: four users (symmetric), two administrators among them and room for a
  deleted one, a target and an actor; an id is never used again, so a run
  creates at most four users. Three steps and lists of up to four ids (one too
  few, one too many, one twice): a gap needs two steps and a third to come after
  it. Two printers, two devices and four queue names: two that users choose and
  that differ in case only, and two with a suffix. One request at a time; the parts share no table, so that a run
  of one part leaves the others alone. `users_concurrent`: two requests, the
  smallest case of the race.
- `CountWindow`, `MaxUnread`, `RoundLimit`, `Watchers`, `Content`, `DayLength`,
  `PollTime` and `Orders` are the bounds in the modules, named as such where they
  are declared.

## 5. Fairness

- `PollsProgress` (`Poller`): weak fairness of each poll's steps: a running thread
  is scheduled, the server answers or the connection breaks, the database
  answers. `imaplib` is used without a timeout, so a server that keeps a
  connection open and never answers is excluded by assumption, not by the code.
  Strong fairness of `Acquire`: `threading.Lock` promises no order, but a thread
  that waits while the lock is released again and again gets it at some time.
- `PollsRecur`: the tick loop polls every active account again and again
  (`main.py:75-102`), and errors are not permanent. Only convergence needs it;
  `PollTerminates` holds with `PollsProgress` alone.
- `Fairness` (`ChainExecution`): weak fairness of the thread; strong fairness of a
  recheck that gets an answer. No fairness for the API, the mailbox or restarts.

- `Progress` (`IdleSupervision`): weak fairness of the tick loop and of each
  watcher, except that `idle_check` on an open connection without a push may
  wait for ever. `StoppedWatcherEnds` therefore shows that the shutdown of the
  socket, and not a server that happens to answer, ends the thread.
- `ServersRecover`: strong fairness of the calls that may fail and are tried again
  after the backoff. Used for `IdleAccountIsWatched`, which also assumes that
  restarts stop.
- `Fairness` (`TickLoop`): the loop goes on, a poll ends and time passes, each by
  weak fairness: `asyncio` runs what is ready, and `PollTime` is the longest poll
  with its wait for a thread: `asyncio.to_thread` has a bounded pool of them, so
  with more accounts due than threads a poll waits for others to end.
  `imaplib` without a timeout has no longest poll; a server that never answers
  stops the loop for all accounts, and is excluded here by assumption.

`BaselineConverges` assumes that restarts stop; a worker that is restarted again
and again may never finish a poll. `PolledAgain` assumes the same of crashes, but
not of `GetFails`, after which the container starts the process again
(`docker-compose.yml:38`).

## 6. Findings

`loop_toggled`. `execute_chain` captures `infinite` and the cap when it starts
(`chain_executor.py:150-151`) but reads `chain.loop_enabled` at the end of every
round (`:202`), when the session has expired it. A chain started without a loop
whose loop is switched on while it runs goes on with neither a cap nor the
`_still_active` test, until the inbox is at zero or the loop is switched off
again; deactivating the chain or its account does not stop it. `README.md:23-25`
promises an upper limit or an infinite loop that ends with deactivation. In the
trace the run is not infinite by any setting and begins more rounds than
`RoundLimit`. `LimitUnlessSwitchedOn` proves that there is no other way to it: as
long as nobody switches a loop on during a run, `RepeatsHaveLimit` holds.

`idle_push`. `idle_done()` returns the untagged responses that arrived since
`idle_check` returned; `idle_watcher.py:150` drops them. When `idle_check` timed
out with nothing and a new mail's `EXISTS` arrives before `DONE` is answered, the
watcher enters IDLE again without a poll and without anything left to read. The
mail is found by the safety poll or at the next push. `PushLostInDoneOnly` proves
that this is the only place: if `idle_done` never finds a response after a
time-out of `idle_check`, `PushIsAnswered` holds.

`idle_is_watching`. `is_watching` (`:243-246`) asks whether the watcher's thread is
alive; it is also alive while it connects, logs in, or sleeps in its backoff
after a failure. The tick loop then polls the account at the slow safety
interval, although `main.py:37-38` means an account with no live watcher ("not
up yet") to fall back to the normal one. What the answer does guarantee is
`WatchingIsUnstopped`: a live thread of this account that was not told to stop.

`users_concurrent`. `update_user` and `delete_user` count the administrators and
commit later, without a lock. Two requests against the last two administrators
both count 2; afterwards there are users and no administrator, which
`CHANGELOG.md:150-152` rules out. `AdminStaysByTurns` proves that only these two
can do it: if demotions and deletions take turns from the load of the target to
the commit, which a lock there would give, an administrator remains whatever else
is done at the same time.

Two printers on one queue. `_slugify_queue_name` keeps the case of a name
(`printers.py:25`), and the lookup (`:49`) and the unique column
(`models/printer.py:17`) tell `Office` from `office`; CUPS does not. With no failure
and one request at a time, a POST of `Office` with one device and a POST of `office`
with another both find their name free. The second `addPrinter` (`cups_client.py:78`)
changes the URI of the first printer's queue: its row names one device and its
chains print on the other, and the deletion of either printer removes the queue of
both. The suffix of `:50` is there to prevent this. `QueueOfItsOwn` and
`Mirrored` name the case as their condition, printer by printer: `Unmistakable`
says that no name asked for so far differs from that of the printer's queue in case
only. Without it TLC finds the sequence above in `api`.

Behaviour that the models contain and no document rules out, so that the
properties name it as their limit: a mail that arrives while another is read
between two polls fires nothing (`TriggersAreReal`); of several new mails only
the newest is matched (`VerdictIsMails`); after a PATCH of the folder the first
poll compares the counts of two folders, and a running chain looks an old UID up
in the new folder (`PrintsTriggeringMail`); a sender filter in regex mode is
validated only beside its mode (`StoredPatternsCompile`), and two PATCHes at once
may store the filter of one beside the mode of the other
(`PatternsCompileByTurns`); a PATCH of a printer
that failed after its CUPS calls leaves queue and row different, and a PATCH back
to the old URI repairs nothing (`Mirrored`); an administrator who is not the last
one may demote himself (`users.py:46` asks for the last one only, though
`CHANGELOG.md:150-152` speaks of one's own account, too; `AdminRemains` holds all
the same); an error of `db.get` in
`_poll_if_due` ends the worker instead of being retried (`GetFails`); an account
whose watcher breaks stays on the slow cadence until its next poll (`NeverLate`
and `KeepsInterval` speak of the interval chosen at the last poll).

## 7. Proofs

The eight `...Proofs` modules prove every safety property of the passing runs, the
two refinements included, for all values of the constants that satisfy the
assumptions each module names: for instance a finite set of users and a `None`
that is neither a user nor a role.

*Poller.* The inductive invariant joins the types, the lock discipline
(`LockHeldInside`, which makes two polls of one account exclude each other), the
facts that tie `pc` to the locals (a poll past its fetch has a snapshot, one in
the handler has a detection) and the properties themselves. `BaselineCurrent` is
not inductive alone: only the lock keeps another poll's commit from changing
`lastUnread` between this poll's read and commit. The refinement follows: a
`CommitSnapshot` is `Ledger!Observe` because the previous count is the stored
one; every other step leaves the ledger alone or deletes an account.

*ChainExecution.* The inductive invariant adds to the properties which caches are
loaded at which `pc` (`Control`), how the round counter relates to the cap and
to `pc`, what `roundsSinceStop` can be at each point of an infinite run
(`StopControl`: past `CheckActive` the flags were read after the last
deactivation or that deactivation has had no round yet), and at which points an
effect is unlogged or the report closed (`ReportControl`).

*Descent.* Liveness is out of TLAPS's reach, but the part of it that depends on the
code is not: that each statement brings a thread nearer to its end. Each of the
three measures takes finitely many values and has a strict order, so a thread
that is scheduled fairly ends. `StoppedComesNearer`: the statements left to a stopped
watcher, at most six, for no failure leads it back. `CappedComesNearer`: the
rounds left, then the stage of the round, then the steps left in it (a set that
shrinks), then the statement of the step. `PollsComeNearer`: the place in
`poll_account`, then the chains of the trigger not handled. A poll before the lock
cannot descend while another is inside; `LocksCannotDeadlock` adds that the other
one waits for no lock. Fairness itself, and that it makes the leads-to properties
true, stays with TLC.

*IdleSupervision.* The inductive invariant is `TypeOK` (with the placement of
`_client`), the two properties, and `MapOK`: the map and the watchers' accounts
agree, an account still to be visited has a watcher, and the watcher that
`stop()` works on is in the map. `StopReachesIdle` needs the placement of the
client: without it a shutdown could meet an earlier connection. `OneWatcherPerAccount`
follows from `UnstoppedIsKept`, since `_watchers` is a function.
`MapUnstopped` is a second invariant on top of it: outside `stop()` the map holds no
stopped watcher, and a shutdown wants no account and visits whatever is in the
map. Hence `WatchingIsUnstopped`, and `ShutdownStopsAll`: `stop_all` forgets no watcher.
For `PushLostInDoneOnly` the invariant says where the answer to an unanswered change
is: in the connection, in the result of `idle_check`, or at a poll still to come.

*UserApi.* With requests one at a time, what a request has read still holds when
it commits: the inductive invariant says that the actor is still an administrator
(`Current`), that the session's role is the stored one, and that a request which
takes an administrator away has another one left (`Checked`, from the count by
the lemma `AnotherOne` about cardinalities). A deletion keeps its actor, who is
not the target; so no deletion empties the table, and setup cannot succeed twice.
Without `Serial` the step fails exactly at `CommitUpdateUser` and `CommitDeleteUser`, which
is the race of section 6.

For concurrent requests little of `Current` remains: an actor may be gone and a role
outdated. `AdminStaysByTurns` needs only that nobody deletes himself and that of
the requests that have loaded their target and not committed at most one takes an
administrator away; every other commit adds administrators or leaves them alone.
`SetupOnceByTurns` adds the same condition for setup.

*ChainMatcher, MailTriggers.* `InWindow` says when a minute lies in a window: there
is exactly one distance from the start (a number below the length of the day)
that leads to it. The inductive invariant joins the types, what the poll has at
each `pc` (`SnapshotInv`: count, newest UID, header and body are those of the
search, in the folder that was searched, which is the account's unless it was
moved), what the stored count is worth (`CountInv`:
`lastUnread` is the number of mails in `lastSeen`), and what a thread was given
(`ThreadInv`). `TriggersReal` is then a matter of cardinalities: a larger set is
not contained in a smaller one, and a proper superset is larger.

*TickLoop.* `Entries`: an entry of `next_due`, or the local it will be set from, and
the time since the poll began add up to the chosen interval until the entry has
run down. `Lateness` follows an account through the phases of the loop: not due
when the gather begins its tasks, late by no more than the polls under way have
taken, then by a poll and the part of the tick slept. From the two, `Punctual`
(`NeverLate`) and `IntervalKept` (`KeepsInterval`).

*ChainsApi, PrinterApi.* As in `UserApi`, the invariant says of the one request
under way that what it has read is still so. For the positions, `NextIsGreater`
(the greatest exists, by well-foundedness on cardinalities) and `LastIndexFacts`
(distinct ids have distinct last indices). A reorder writes only positions that
differ, and the others already have the index they get. For the printers,
`Prepared` says how far the queue of the request is: its URI, whether it accepts,
whose capabilities were read; `Rows` that queue names in use were asked for, so
that a new name is nobody's. `NobodyElses` is the step from names to queues: what CUPS
finds under the name of a request is the queue of no other printer that is
`Unmistakable`. The capabilities of a row need no such condition, since the
request reads them from the queue it has just set.

For concurrent requests `ColumnsCompile` shows that the patterns of subject and
body, each validated on its own, always compile, since a PATCH writes nothing but
values that were validated or stored before; `PatternsCompileByTurns` that PATCHes in
turns keep the sender filter right, too.
What else fails without `Serial`: two creations of a step read
one maximum; two creations of a printer take one free name.

Three of the four violated properties are theorems under a condition on the steps,
for `WatchingMeansConnected` a weaker property is one (section 6). The conditions
are hypotheses of the theorems and not part of the models; the violations show
that they are needed.

Only model-checked: liveness under fairness (outside TLAPS's reach) and the
violations.

## 8. Not modelled

Wording and decoding of mails, HTTP, SMTP and print payloads, attachments; time
zones; what a step does, but for the mail that is printed; the configuration of
steps and its validation; test requests; log reading; locale; login, tokens and
passwords; encryption; migrations; the React frontend; printer discovery. They
hold no state that the properties above read, or are pure I/O. The pool of
database connections is a free failure (`trouble`, `RunRaises`, `PollRaises`).
Of an account's connection parameters only the folder is modelled, and not for
the IDLE watcher, which loads them once per connection.

## 9. Plan

Done: every component of the worker and the parts of the API that keep state
beyond single rows. In this order next:

1. `Worker`: `Poller` and `ChainExecution` joined, with the connection pool: chains
   that sleep hold connections, polls wait for one and time out.
2. Connection parameters in `IdleSupervision`: what a live watcher listens to after
   a PATCH, and `gave_up` after a move to another server.
3. The step services (templates, retries of HTTP and SMTP) and the validation of
   step configurations as operators, where a property reads them.
4. Concurrent requests to the printers API: turns from the lookup of the name to the
   commit, for creations, changes and deletions alike, as `QueueOfItsOwn` needs; and
   for the steps of a chain what `models/chain_step.py:58` promises about positions.
5. That `MailTriggers` implements `Poller` with one poller. Its steps join several of
   `Poller`'s (the lock with the read, the search with the fetch), so the mapping
   needs auxiliary variables in `MailTriggers`, or coarser steps in between.
