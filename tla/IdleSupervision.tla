--------------------------- MODULE IdleSupervision ---------------------------
(***************************************************************************)
(* worker/worker/idle_watcher.py and the part of worker/worker/main.py     *)
(* that drives it: one thread per account in IDLE mode (IdleWatcher) that  *)
(* keeps a connection, waits for a push and polls, and the supervisor that *)
(* makes the set of watchers follow the accounts at every tick.            *)
(*                                                                         *)
(* A watcher's label is the statement it stands before; while it stands    *)
(* there the tick loop, the other watchers, the API and the server may do  *)
(* anything.  Left out: the length of the backoff, the log rows, and what  *)
(* poll_account does (module Poller): here a poll happens or it raises.    *)
(***************************************************************************)
EXTENDS Naturals, FiniteSets

CONSTANTS
    Accounts,
    Watchers,       \* bound: IdleWatcher objects, used again once collected
    None

ASSUME NoneAssumption == None \notin Accounts \cup Watchers

VARIABLES
    mode,           \* the account's row: active with or without IDLE, or not
    installed,      \* imapclient could be imported
    (* the tick loop and IdleSupervisor *)
    tick,
    ending,         \* main is in its finally clause: stop_all
    desired,        \* idle_account_ids of this tick
    todo,           \* keys of _watchers not visited yet
    target,         \* the watcher whose stop() is under way, or None
    watcherOf,      \* _watchers: account -> watcher, or None
    (* each IdleWatcher *)
    account,
    pc,             \* "dead": not started, or the thread has ended
    stop, gaveUp,   \* _stop is set; gave_up
    client,         \* _client: none, open, or shut by stop()
    heard,          \* this idle_check returned activity
    (* the mailbox and the connection *)
    pending,        \* an untagged response is waiting in the connection
    unanswered      \* a change it told of, or will, has not been polled for

superVars == <<tick, ending, desired, todo, target, watcherOf>>
loopVars == <<account, pc, stop, gaveUp, client, heard>>
mailVars == <<pending, unanswered>>
vars == <<mode, installed, superVars, loopVars, mailVars>>

Selected == {"firstPoll", "check", "enter", "idle", "done", "poll"}
Connected == Selected \cup {"login"}
Network == ({"construct"} \cup Connected) \ {"check"}
Label == Network \cup {"check", "begin", "top", "load", "failed", "backoff", "close", "dead"}

\* The types; a watcher has a client from the constructor to the finally clause
\* and no longer, so that stop() never shuts the socket of an earlier connection.
TypeOK ==
    /\ \A w \in Watchers :
        /\ pc[w] \in Connected \cup {"close"} => client[w] # "none"
        /\ pc[w] \notin Connected \cup {"close", "failed"} => client[w] = "none"
    /\ mode \in [Accounts -> {"idle", "timed", "inactive", "deleted"}]
    /\ installed \in BOOLEAN
    /\ tick \in {"query", "visit", "shutdown", "spawn", "sleep", "ended"}
    /\ ending \in BOOLEAN
    /\ desired \in SUBSET Accounts /\ todo \in SUBSET Accounts
    /\ target \in Watchers \cup {None}
    /\ watcherOf \in [Accounts -> Watchers \cup {None}]
    /\ account \in [Watchers -> Accounts \cup {None}]
    /\ pc \in [Watchers -> Label]
    /\ stop \in [Watchers -> BOOLEAN] /\ gaveUp \in [Watchers -> BOOLEAN]
    /\ client \in [Watchers -> {"none", "open", "shut"}]
    /\ heard \in [Watchers -> BOOLEAN]
    /\ pending \in [Watchers -> BOOLEAN] /\ unanswered \in [Watchers -> BOOLEAN]
-----------------------------------------------------------------------------
NoWatchers ==
    /\ tick = "query" /\ ending = FALSE /\ desired = {} /\ todo = {} /\ target = None
    /\ watcherOf = [a \in Accounts |-> None]
    /\ account = [w \in Watchers |-> None]
    /\ pc = [w \in Watchers |-> "dead"]
    /\ stop = [w \in Watchers |-> FALSE] /\ gaveUp = [w \in Watchers |-> FALSE]
    /\ client = [w \in Watchers |-> "none"]
    /\ heard = [w \in Watchers |-> FALSE]
    /\ pending = [w \in Watchers |-> FALSE] /\ unanswered = [w \in Watchers |-> FALSE]

Init ==
    /\ mode \in [Accounts -> {"idle", "timed", "inactive"}]
    /\ installed \in BOOLEAN
    /\ NoWatchers

Alive(w) == pc[w] # "dead"
Active(a) == mode[a] \in {"idle", "timed"}
IdleAccounts == {a \in Accounts : mode[a] = "idle"}
Watched == {a \in Accounts : watcherOf[a] # None}
-----------------------------------------------------------------------------
(* IdleSupervisor, called by the tick loop *)

\* The accounts are read; a failing query is tried again at the next tick.
QueryAccounts ==
    /\ tick = "query"
    /\ desired' = IdleAccounts
    /\ todo' = Watched
    /\ tick' = "visit"
    /\ UNCHANGED <<mode, installed, ending, target, watcherOf, loopVars, mailVars>>

\* The account left IDLE mode: watcher.stop() sets the event ...
StopWatcher(a) ==
    /\ tick = "visit"
    /\ a \in todo \ desired
    /\ stop' = [stop EXCEPT ![watcherOf[a]] = TRUE]
    /\ target' = watcherOf[a]
    /\ tick' = "shutdown"
    /\ UNCHANGED <<mode, installed, ending, desired, todo, watcherOf, account, pc, gaveUp, client, heard,
                   mailVars>>

\* Variant of ShutClient: stop() leaves the connection alone.
KeepClient ==
    /\ tick = "shutdown"
    /\ LET a == account[target]
       IN  /\ watcherOf' = [watcherOf EXCEPT ![a] = None]
           /\ todo' = todo \ {a}
    /\ target' = None
    /\ tick' = "visit"
    /\ UNCHANGED <<mode, installed, ending, desired, loopVars, mailVars>>

\* ... reads _client and shuts its socket; the watcher is forgotten.
ShutClient ==
    /\ tick = "shutdown"
    /\ client' = [client EXCEPT ![target] = IF @ = "none" THEN "none" ELSE "shut"]
    /\ LET a == account[target]
       IN  /\ watcherOf' = [watcherOf EXCEPT ![a] = None]
           /\ todo' = todo \ {a}
    /\ target' = None
    /\ tick' = "visit"
    /\ UNCHANGED <<mode, installed, ending, desired, account, pc, stop, gaveUp, heard, mailVars>>

\* Variant of VisitWatcher: a watcher is dropped while its thread is alive.
DropAlive(a) ==
    /\ tick = "visit"
    /\ a \in todo \cap desired
    /\ watcherOf' = [watcherOf EXCEPT ![a] = IF gaveUp[watcherOf[a]] THEN @ ELSE None]
    /\ todo' = todo \ {a}
    /\ UNCHANGED <<mode, installed, tick, ending, desired, target, loopVars, mailVars>>

\* Variant of VisitWatcher: a watcher that ended is never replaced.
KeepDead(a) ==
    /\ tick = "visit"
    /\ a \in todo \cap desired
    /\ todo' = todo \ {a}
    /\ UNCHANGED <<mode, installed, tick, ending, desired, target, watcherOf, loopVars, mailVars>>

\* A watcher whose thread ended without giving up is dropped.
VisitWatcher(a) ==
    /\ tick = "visit"
    /\ a \in todo \cap desired
    /\ LET w == watcherOf[a]
       IN  watcherOf' = [watcherOf EXCEPT ![a] =
                IF ~Alive(w) /\ ~gaveUp[w] THEN None ELSE w]
    /\ todo' = todo \ {a}
    /\ UNCHANGED <<mode, installed, tick, ending, desired, target, loopVars, mailVars>>

\* Every watcher was visited; stop_all clears _watchers and the process ends.
VisitDone ==
    /\ tick = "visit"
    /\ todo = {}
    /\ tick' = IF ending THEN "ended" ELSE "spawn"
    /\ UNCHANGED <<mode, installed, ending, desired, todo, target, watcherOf, loopVars, mailVars>>

\* A watcher is created and its thread started.
Spawn(a, w) ==
    /\ tick = "spawn"
    /\ a \in desired \ Watched
    /\ ~Alive(w) /\ \A b \in Accounts : watcherOf[b] # w
    /\ watcherOf' = [watcherOf EXCEPT ![a] = w]
    /\ account' = [account EXCEPT ![w] = a]
    /\ pc' = [pc EXCEPT ![w] = "begin"]
    /\ stop' = [stop EXCEPT ![w] = FALSE]
    /\ gaveUp' = [gaveUp EXCEPT ![w] = FALSE]
    /\ UNCHANGED <<mode, installed, tick, ending, desired, todo, target, client, heard, mailVars>>

SpawnDone ==
    /\ tick = "spawn"
    /\ desired \subseteq Watched
    /\ tick' = "sleep"
    /\ UNCHANGED <<mode, installed, ending, desired, todo, target, watcherOf, loopVars, mailVars>>

\* The polls are gathered and the loop sleeps.
Sleep ==
    /\ tick = "sleep"
    /\ tick' = "query"
    /\ UNCHANGED <<mode, installed, ending, desired, todo, target, watcherOf, loopVars, mailVars>>

\* main is cancelled where it awaits: stop_all stops every watcher.
StopAll ==
    /\ tick = "sleep"
    /\ ending' = TRUE
    /\ desired' = {}
    /\ todo' = Watched
    /\ tick' = "visit"
    /\ UNCHANGED <<mode, installed, target, watcherOf, loopVars, mailVars>>

TickStep ==
    \/ QueryAccounts \/ ShutClient \/ VisitDone \/ SpawnDone \/ Sleep
    \/ \E a \in Accounts : StopWatcher(a) \/ VisitWatcher(a)
    \/ \E a \in Accounts, w \in Watchers : Spawn(a, w)
-----------------------------------------------------------------------------
(* IdleWatcher *)

Goto(w, label) == pc' = [pc EXCEPT ![w] = label]

\* The finally clause of _connect_and_idle: the connection is gone.
Disconnect(w) ==
    /\ client' = [client EXCEPT ![w] = "none"]
    /\ heard' = [heard EXCEPT ![w] = FALSE]
    /\ pending' = [pending EXCEPT ![w] = FALSE]
    /\ unanswered' = [unanswered EXCEPT ![w] = FALSE]

\* _run gives up at once without the library.
Begin(w) ==
    /\ pc[w] = "begin"
    /\ gaveUp' = [gaveUp EXCEPT ![w] = ~installed]
    /\ Goto(w, IF installed THEN "top" ELSE "dead")
    /\ UNCHANGED <<mode, installed, superVars, account, stop, client, heard, mailVars>>

\* while not self._stop.is_set()
Top(w) ==
    /\ pc[w] = "top"
    /\ Goto(w, IF stop[w] THEN "dead" ELSE "load")
    /\ UNCHANGED <<mode, installed, superVars, account, stop, gaveUp, client, heard, mailVars>>

\* _load_conn_params: the thread ends if the account is gone or inactive.
LoadParams(w) ==
    /\ pc[w] = "load"
    /\ Goto(w, IF Active(account[w]) THEN "construct" ELSE "dead")
    /\ UNCHANGED <<mode, installed, superVars, account, stop, gaveUp, client, heard, mailVars>>

\* _load_conn_params is outside the try: its error ends the thread.
LoadRaises(w) ==
    /\ pc[w] = "load"
    /\ Goto(w, "dead")
    /\ UNCHANGED <<mode, installed, superVars, account, stop, gaveUp, client, heard, mailVars>>

\* The connection is made and _client set.
Construct(w) ==
    /\ pc[w] = "construct"
    /\ client' = [client EXCEPT ![w] = "open"]
    /\ Goto(w, "login")
    /\ UNCHANGED <<mode, installed, superVars, account, stop, gaveUp, heard, mailVars>>

\* login, has_capability, select_folder.
Login(w) ==
    /\ pc[w] = "login"
    /\ client[w] = "open"
    /\ Goto(w, "firstPoll")
    /\ UNCHANGED <<mode, installed, superVars, account, stop, gaveUp, client, heard, mailVars>>

\* The server does not advertise IDLE.
GiveUp(w) ==
    /\ pc[w] = "login"
    /\ client[w] = "open"
    /\ gaveUp' = [gaveUp EXCEPT ![w] = TRUE]
    /\ Goto(w, "close")
    /\ UNCHANGED <<mode, installed, superVars, account, stop, client, heard, mailVars>>

\* _poll_once, the first time or after activity, on a connection of its own;
\* what changed before it begins is seen by it.
PollOnce(w) ==
    /\ pc[w] \in {"firstPoll", "poll"}
    /\ unanswered' = [unanswered EXCEPT ![w] = FALSE]
    /\ Goto(w, "check")
    /\ UNCHANGED <<mode, installed, superVars, account, stop, gaveUp, client, heard, pending>>

\* Variant of CheckStop: the event is looked at after idle_check only.
CheckNothing(w) ==
    /\ pc[w] = "check"
    /\ Goto(w, "enter")
    /\ UNCHANGED <<mode, installed, superVars, account, stop, gaveUp, client, heard, mailVars>>

\* while not self._stop.is_set(), around the IDLE commands.
CheckStop(w) ==
    /\ pc[w] = "check"
    /\ Goto(w, IF stop[w] THEN "close" ELSE "enter")
    /\ UNCHANGED <<mode, installed, superVars, account, stop, gaveUp, client, heard, mailVars>>

\* client.idle()
EnterIdle(w) ==
    /\ pc[w] = "enter"
    /\ client[w] = "open"
    /\ Goto(w, "idle")
    /\ UNCHANGED <<mode, installed, superVars, account, stop, gaveUp, client, heard, mailVars>>

\* idle_check returns what the server pushed.
Wake(w) ==
    /\ pc[w] = "idle"
    /\ client[w] = "open"
    /\ pending[w]
    /\ pending' = [pending EXCEPT ![w] = FALSE]
    /\ heard' = [heard EXCEPT ![w] = TRUE]
    /\ Goto(w, "done")
    /\ UNCHANGED <<mode, installed, superVars, account, stop, gaveUp, client, unanswered>>

\* idle_check returns nothing after idle_refresh_seconds.
Refresh(w) ==
    /\ pc[w] = "idle"
    /\ client[w] = "open"
    /\ ~pending[w]
    /\ Goto(w, "done")
    /\ UNCHANGED <<mode, installed, superVars, account, stop, gaveUp, client, heard, mailVars>>

\* idle_done reads the responses up to the end of the command; what it
\* returns is not looked at.
LeaveIdle(w) ==
    /\ pc[w] = "done"
    /\ client[w] = "open"
    /\ pending' = [pending EXCEPT ![w] = FALSE]
    /\ heard' = [heard EXCEPT ![w] = FALSE]
    /\ Goto(w, IF stop[w] THEN "close" ELSE IF heard[w] THEN "poll" ELSE "check")
    /\ UNCHANGED <<mode, installed, superVars, account, stop, gaveUp, client, unanswered>>

\* The connection breaks or was shut, the server refuses, or poll_account raises.
Raise(w) ==
    /\ pc[w] \in Network
    /\ Goto(w, "failed")
    /\ UNCHANGED <<mode, installed, superVars, account, stop, gaveUp, client, heard, mailVars>>

\* Variant of Failed: there is no finally clause.
FailedKeepsClient(w) ==
    /\ pc[w] = "failed"
    /\ Goto(w, IF stop[w] THEN "dead" ELSE "backoff")
    /\ UNCHANGED <<mode, installed, superVars, account, stop, gaveUp, client, heard, mailVars>>

\* Variant of Failed: the event is not looked at after an error.
FailedRetries(w) ==
    /\ pc[w] = "failed"
    /\ Disconnect(w)
    /\ Goto(w, "backoff")
    /\ UNCHANGED <<mode, installed, superVars, account, stop, gaveUp>>

\* After the finally clause a stopped watcher ends, another one waits to
\* connect again.
Failed(w) ==
    /\ pc[w] = "failed"
    /\ Disconnect(w)
    /\ Goto(w, IF stop[w] THEN "dead" ELSE "backoff")
    /\ UNCHANGED <<mode, installed, superVars, account, stop, gaveUp>>

\* _stop.wait(backoff) returns, with or without the event.
Backoff(w) ==
    /\ pc[w] = "backoff"
    /\ Goto(w, "top")
    /\ UNCHANGED <<mode, installed, superVars, account, stop, gaveUp, client, heard, mailVars>>

\* _connect_and_idle returned: the thread ends.
Close(w) ==
    /\ pc[w] = "close"
    /\ Disconnect(w)
    /\ Goto(w, "dead")
    /\ UNCHANGED <<mode, installed, superVars, account, stop, gaveUp>>

WatcherStep(w) ==
    \/ Begin(w) \/ Top(w) \/ LoadParams(w) \/ LoadRaises(w) \/ Construct(w)
    \/ Login(w) \/ GiveUp(w) \/ PollOnce(w) \/ CheckStop(w)
    \/ EnterIdle(w) \/ Wake(w) \/ Refresh(w) \/ LeaveIdle(w)
    \/ Raise(w) \/ Failed(w) \/ Backoff(w) \/ Close(w)
-----------------------------------------------------------------------------
(* The API, the mailbox, the process *)

\* PATCH and DELETE /accounts/{id}: is_active and use_idle; a deleted account
\* does not come back.
UpdateAccount(a, m) ==
    /\ mode[a] # "deleted"
    /\ mode' = [mode EXCEPT ![a] = m]
    /\ UNCHANGED <<installed, superVars, loopVars, mailVars>>

\* Mails arrive or are read; the server tells every connection that has the
\* folder selected, at once in IDLE, with the next command otherwise.
MailboxChanges(a) ==
    /\ LET Told == {w \in Watchers : account[w] = a /\ pc[w] \in Selected}
       IN  /\ pending' = [w \in Watchers |-> w \in Told \/ pending[w]]
           /\ unanswered' = [w \in Watchers |-> w \in Told \/ unanswered[w]]
    /\ UNCHANGED <<mode, installed, superVars, loopVars>>

\* The worker dies, or has ended, and is started again.
WorkerRestart ==
    /\ tick' = "query" /\ ending' = FALSE /\ desired' = {} /\ todo' = {} /\ target' = None
    /\ watcherOf' = [a \in Accounts |-> None]
    /\ account' = [w \in Watchers |-> None]
    /\ pc' = [w \in Watchers |-> "dead"]
    /\ stop' = [w \in Watchers |-> FALSE] /\ gaveUp' = [w \in Watchers |-> FALSE]
    /\ client' = [w \in Watchers |-> "none"]
    /\ heard' = [w \in Watchers |-> FALSE]
    /\ pending' = [w \in Watchers |-> FALSE] /\ unanswered' = [w \in Watchers |-> FALSE]
    /\ UNCHANGED <<mode, installed>>

Next ==
    \/ TickStep \/ StopAll
    \/ \E w \in Watchers : WatcherStep(w)
    \/ \E a \in Accounts : \/ \E m \in {"idle", "timed", "inactive", "deleted"} : UpdateAccount(a, m)
                           \/ MailboxChanges(a)
    \/ WorkerRestart

Spec == Init /\ [][Next]_vars
-----------------------------------------------------------------------------
(* Properties *)

\* A watcher that was not told to stop is the one the supervisor keeps for its
\* account: an account never has two of them, and none is forgotten running.
UnstoppedIsKept ==
    \A w \in Watchers : Alive(w) /\ ~stop[w] => watcherOf[account[w]] = w

\* stop() against the watcher's own tests: once stop() has returned, the
\* watcher is not waiting for the server on a connection that is still open,
\* wherever it was between its test of the event and idle_check.
StopReachesIdle ==
    \A w \in Watchers :
        stop[w] /\ target # w /\ pc[w] \in {"enter", "idle"} => client[w] = "shut"

\* The statements that a watcher which was told to stop may still have before
\* it, the longest way to the end of its thread.
StepsLeft(label) ==
    CASE label = "dead" -> 0
      [] label \in {"close", "failed", "top"} -> 1
      [] label \in {"begin", "check", "done", "backoff"} -> 2
      [] label \in {"firstPoll", "poll", "idle"} -> 3
      [] label \in {"enter", "login"} -> 4
      [] label = "construct" -> 5
      [] label = "load" -> 6

\* A watcher that was told to stop comes nearer to its end with each statement,
\* wherever stop() met it and whatever fails: neither the loop of _run nor that
\* of _connect_and_idle begins another round.
StoppedDescends ==
    [][\A w \in Watchers :
        stop[w] /\ stop'[w] /\ pc'[w] # pc[w] => StepsLeft(pc'[w]) < StepsLeft(pc[w])]_vars

\* is_watching, by which the tick loop chooses the slow safety poll.
IsWatching(a) ==
    /\ watcherOf[a] # None
    /\ Alive(watcherOf[a]) /\ ~gaveUp[watcherOf[a]]

\* idle_watcher.py:244 "True only when a live IDLE connection is in place", at
\* the time when the tick loop asks for it.
WatchingMeansConnected ==
    \A a \in Accounts : tick = "sleep" /\ IsWatching(a) =>
        pc[watcherOf[a]] \in Connected /\ client[watcherOf[a]] = "open"

\* idle_watcher.py:4-7 "The moment the server pushes an EXISTS ... the watcher
\* wakes up and calls the existing poll_account": a watcher waits in IDLE with a
\* change it has not polled for only while the push is still to be read.
PushIsAnswered ==
    \A w \in Watchers : pc[w] = "idle" /\ unanswered[w] => pending[w]
-----------------------------------------------------------------------------
(* Fairness and liveness *)

\* Threads are scheduled and every call returns, except that idle_check on an
\* open connection without a push may wait as long as it likes.
Waiting(w) == pc[w] = "idle" /\ client[w] = "open"

Progress ==
    /\ WF_vars(TickStep)
    /\ \A w \in Watchers : WF_vars(WatcherStep(w) /\ ~Waiting(w))

\* Servers come back: what is tried again and again succeeds again and again.
ServersRecover ==
    \A w \in Watchers : /\ SF_vars(LoadParams(w)) /\ SF_vars(Construct(w))
                        /\ SF_vars(Login(w) \/ GiveUp(w)) /\ SF_vars(PollOnce(w))
                        /\ SF_vars(EnterIdle(w))

LiveSpec == Spec /\ Progress
FairSpec == LiveSpec /\ ServersRecover

\* A stopped watcher ends, also one that waits for the server in IDLE.
StoppedWatcherEnds == \A w \in Watchers : stop[w] ~> ~Alive(w)

\* An account that stays in IDLE mode is listened to again and again, or its
\* watcher has given up, whatever connections broke or watchers died before.
Listening(a) == watcherOf[a] # None /\ pc[watcherOf[a]] = "idle"
GivenUp(a) == watcherOf[a] # None /\ gaveUp[watcherOf[a]]

IdleAccountIsWatched ==
    <>[][~WorkerRestart /\ ~StopAll]_vars /\ []<>~ending =>
        \A a \in Accounts :
            <>[](mode[a] = "idle") => []<>(Listening(a) \/ GivenUp(a))
=============================================================================
