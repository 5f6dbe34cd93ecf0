------------------------------- MODULE UserApi -------------------------------
(***************************************************************************)
(* backend/app/api/users.py and the setup of api/auth.py: the requests     *)
(* that create, change and delete users.  A request runs in a thread of    *)
(* FastAPI's pool with a session of its own: it checks who asks, loads the *)
(* user, counts the administrators and commits, and other requests may     *)
(* commit between any two of these (PostgreSQL's READ COMMITTED).          *)
(*                                                                         *)
(* Left out: passwords, tokens, locale, and e-mail addresses; a user that  *)
(* is created has an address of its own.                                   *)
(***************************************************************************)
EXTENDS ApiConstants

VARIABLES
    role,           \* the users table: the role of each row
    setups,         \* users created by setup
    (* each request *)
    userPc,
    actor,          \* the logged-in user who asks, or None
    userOp, target, newRole,
    loaded          \* the role of the target as the session has it

userTables == <<role, setups>>
userRequest == <<actor, userOp, target, newRole, loaded>>
userVars == <<userTables, userPc, userRequest>>

Role == {"admin", "user"}
UserLabel == {"idle", "empty?", "authorise", "load", "allowed?", "commit"}

\* The types; a handler that checks has a user at hand.
UsersTypeOK ==
    /\ \A r \in Requests : userPc[r] = "allowed?" => loaded[r] # None
    /\ role \in [Users -> Role \cup {"absent", "deleted"}]
    /\ setups \in Nat
    /\ userPc \in [Requests -> UserLabel]
    /\ actor \in [Requests -> Users \cup {None}]
    /\ userOp \in [Requests -> {"setup", "create", "update", "delete"}]
    /\ target \in [Requests -> Users \cup {None}]
    /\ newRole \in [Requests -> Role]
    /\ loaded \in [Requests -> Role \cup {None}]
-----------------------------------------------------------------------------
Existing == {u \in Users : role[u] \in Role}
Admins == {u \in Users : role[u] = "admin"}

\* An empty table, or the administrator of _ensure_initial_admin.
UsersInit ==
    /\ role \in {r \in [Users -> {"admin", "absent"}] :
                    Cardinality({u \in Users : r[u] = "admin"}) <= 1}
    /\ setups = 0
    /\ userPc = [r \in Requests |-> "idle"]
    /\ actor = [r \in Requests |-> None]
    /\ userOp = [r \in Requests |-> "setup"]
    /\ target = [r \in Requests |-> None]
    /\ newRole = [r \in Requests |-> "admin"]
    /\ loaded = [r \in Requests |-> None]

UsersGoto(r, label) == userPc' = [userPc EXCEPT ![r] = label]

\* POST /auth/setup arrives; the user will be an administrator.
BeginSetup(r, u) ==
    /\ userPc[r] = "idle"
    /\ role[u] = "absent"
    /\ userOp' = [userOp EXCEPT ![r] = "setup"]
    /\ target' = [target EXCEPT ![r] = u]
    /\ newRole' = [newRole EXCEPT ![r] = "admin"]
    /\ UsersGoto(r, "empty?")
    /\ UNCHANGED <<userTables, actor, loaded>>

\* POST, PATCH or DELETE under /users arrives with the cookie of user a.
BeginUsers(r, a, o, u, new) ==
    /\ userPc[r] = "idle"
    /\ role[a] # "absent"
    /\ (o = "create") <=> (role[u] = "absent")
    /\ o = "delete" => new = "user"
    /\ actor' = [actor EXCEPT ![r] = a]
    /\ userOp' = [userOp EXCEPT ![r] = o]
    /\ target' = [target EXCEPT ![r] = u]
    /\ newRole' = [newRole EXCEPT ![r] = new]
    /\ UsersGoto(r, "authorise")
    /\ UNCHANGED <<userTables, loaded>>

\* The request is answered; its session is gone.
UsersAnswer(r) ==
    /\ actor' = [actor EXCEPT ![r] = None]
    /\ userOp' = [userOp EXCEPT ![r] = "setup"]
    /\ target' = [target EXCEPT ![r] = None]
    /\ newRole' = [newRole EXCEPT ![r] = "admin"]
    /\ loaded' = [loaded EXCEPT ![r] = None]
    /\ UsersGoto(r, "idle")

\* Variant of CheckEmpty: the table is not looked at.
SetupUnchecked(r) ==
    /\ userPc[r] = "empty?"
    /\ UsersGoto(r, "commit")
    /\ UNCHANGED <<userTables, userRequest>>

\* setup: 409 unless the table is empty.
CheckEmpty(r) ==
    /\ userPc[r] = "empty?"
    /\ IF Existing = {}
       THEN UsersGoto(r, "commit") /\ UNCHANGED userRequest
       ELSE UsersAnswer(r)
    /\ UNCHANGED userTables

\* get_current_user and require_admin: 401 or 403 unless an administrator asks.
Authorise(r) ==
    /\ userPc[r] = "authorise"
    /\ IF role[actor[r]] = "admin"
       THEN /\ UsersGoto(r, IF userOp[r] = "create" THEN "commit" ELSE "load")
            /\ loaded' = [loaded EXCEPT ![r] = IF target[r] = actor[r] THEN "admin" ELSE None]
            /\ UNCHANGED <<actor, userOp, target, newRole>>
       ELSE UsersAnswer(r)
    /\ UNCHANGED userTables

\* Variant of Load: no 404.
LoadAnything(r) ==
    /\ userPc[r] = "load"
    /\ IF userOp[r] = "delete" /\ target[r] = actor[r]
       THEN UsersAnswer(r)
       ELSE /\ UsersGoto(r, "allowed?")
            /\ loaded' = [loaded EXCEPT ![r] = IF @ = None THEN role[target[r]] ELSE @]
            /\ UNCHANGED <<actor, userOp, target, newRole>>
    /\ UNCHANGED userTables

\* _get_user_or_404: the session answers for the actor, whom it has loaded.
\* Nobody may delete himself.
Load(r) ==
    /\ userPc[r] = "load"
    /\ IF \/ userOp[r] = "delete" /\ target[r] = actor[r]
          \/ loaded[r] = None /\ role[target[r]] \notin Role
       THEN UsersAnswer(r)
       ELSE /\ UsersGoto(r, "allowed?")
            /\ loaded' = [loaded EXCEPT ![r] = IF @ = None THEN role[target[r]] ELSE @]
            /\ UNCHANGED <<actor, userOp, target, newRole>>
    /\ UNCHANGED userTables

\* The request takes the role of an administrator away, or the row.
RemovesAdmin(r) == loaded[r] = "admin" /\ newRole[r] # "admin"

\* Variant of CheckLastAdmin: off by one.
CheckNoAdmin(r) ==
    /\ userPc[r] = "allowed?"
    /\ IF RemovesAdmin(r) /\ Cardinality(Admins) < 1
       THEN UsersAnswer(r)
       ELSE UsersGoto(r, "commit") /\ UNCHANGED userRequest
    /\ UNCHANGED userTables

\* 400 if the last administrator would be demoted or deleted.
CheckLastAdmin(r) ==
    /\ userPc[r] = "allowed?"
    /\ IF RemovesAdmin(r) /\ Cardinality(Admins) <= 1
       THEN UsersAnswer(r)
       ELSE UsersGoto(r, "commit") /\ UNCHANGED userRequest
    /\ UNCHANGED userTables

\* A new row; setup counts.
CommitCreateUser(r) ==
    /\ userPc[r] = "commit"
    /\ userOp[r] \in {"setup", "create"}
    /\ role[target[r]] = "absent"
    /\ role' = [role EXCEPT ![target[r]] = newRole[r]]
    /\ setups' = IF userOp[r] = "setup" THEN setups + 1 ELSE setups
    /\ UsersAnswer(r)

\* Only a changed role is written, and only if the row still exists.
CommitUpdateUser(r) ==
    /\ userPc[r] = "commit"
    /\ userOp[r] = "update"
    /\ role' = IF loaded[r] # newRole[r] /\ role[target[r]] \in Role
               THEN [role EXCEPT ![target[r]] = newRole[r]]
               ELSE role
    /\ UsersAnswer(r)
    /\ UNCHANGED setups

\* A row that another request deleted is not there to be deleted.
CommitDeleteUser(r) ==
    /\ userPc[r] = "commit"
    /\ userOp[r] = "delete"
    /\ role' = [role EXCEPT ![target[r]] = "deleted"]
    /\ UsersAnswer(r)
    /\ UNCHANGED setups

\* The database refuses (another request created the same user), or the
\* request breaks off: nothing is written.
UsersRequestFails(r) ==
    /\ userPc[r] # "idle"
    /\ UsersAnswer(r)
    /\ UNCHANGED userTables

UsersBegin(r) ==
    \/ \E u \in Users : BeginSetup(r, u)
    \/ \E a, u \in Users, o \in {"create", "update", "delete"}, new \in Role :
            BeginUsers(r, a, o, u, new)

UsersHandle(r) ==
    \/ CheckEmpty(r) \/ Authorise(r) \/ Load(r) \/ CheckLastAdmin(r)
    \/ CommitCreateUser(r) \/ CommitUpdateUser(r) \/ CommitDeleteUser(r) \/ UsersRequestFails(r)

UsersNext == \E r \in Requests : UsersBegin(r) \/ UsersHandle(r)

UsersSpec == UsersInit /\ [][UsersNext]_userVars
-----------------------------------------------------------------------------
(* Requests one at a time *)

\* A request begins only when no other is under way.
UsersQuiet == \A r \in Requests : userPc[r] = "idle"

UsersSerialNext == \E r \in Requests : (UsersQuiet /\ UsersBegin(r)) \/ UsersHandle(r)

UsersSerialSpec == UsersInit /\ [][UsersSerialNext]_userVars
-----------------------------------------------------------------------------
(* Properties *)

\* CHANGELOG.md:150-152: the last administrator can be neither deleted nor
\* demoted; where there are users, one of them is an administrator.
AdminRemains == Existing # {} => Admins # {}

\* Once there are users there are always some, so that setup, which makes an
\* administrator of whoever calls it, succeeds at most once in the life of an
\* installation, whatever users are deleted later.
SetupOnce == setups <= 1
=============================================================================
