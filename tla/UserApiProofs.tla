---------------------------- MODULE UserApiProofs ----------------------------
(***************************************************************************)
(* Proofs about UserApi: with requests one at a time, and with any number  *)
(* of them, of which only those that would lock the users out take turns.  *)
(***************************************************************************)
EXTENDS UserApi, FiniteSetTheorems, TLAPS

\* At most one request is under way.
Serial == \A r, s \in Requests : userPc[r] # "idle" /\ userPc[s] # "idle" => r = s

\* What a request carries at each of its labels.
Carries(r) ==
    /\ userPc[r] # "idle" => target[r] # None
    /\ userPc[r] = "empty?" => userOp[r] = "setup"
    /\ userPc[r] = "authorise" => userOp[r] # "setup"
    /\ userPc[r] \in {"load", "allowed?"} => userOp[r] \in {"update", "delete"}
    /\ userPc[r] # "idle" /\ userOp[r] # "setup" => actor[r] # None
    /\ userOp[r] = "setup" => newRole[r] = "admin"
    /\ userOp[r] = "delete" => newRole[r] = "user"

\* Past its authorisation, and with no other request under way, the actor is
\* still an administrator and the session's role is the one in the table.
Current(r) ==
    /\ userPc[r] \in {"load", "allowed?", "commit"} /\ userOp[r] # "setup" =>
           role[actor[r]] = "admin"
    /\ userPc[r] = "load" /\ loaded[r] # None => target[r] = actor[r] /\ loaded[r] = "admin"
    /\ userPc[r] \in {"allowed?", "commit"} /\ userOp[r] \in {"update", "delete"} =>
           loaded[r] = role[target[r]]
    /\ userPc[r] \in {"allowed?", "commit"} /\ userOp[r] = "delete" => target[r] # actor[r]

\* What the checks found still holds when the request commits.
Checked(r) ==
    userPc[r] = "commit" =>
        /\ userOp[r] = "setup" => Existing = {}
        /\ userOp[r] = "update" /\ RemovesAdmin(r) => \E v \in Admins : v # target[r]

\* A setup leaves users behind.
SetupLeavesUsers == setups # 0 => setups = 1 /\ Existing # {}

IInv ==
    /\ UsersTypeOK
    /\ Serial
    /\ \A r \in Requests : Carries(r) /\ Current(r) /\ Checked(r)
    /\ AdminRemains
    /\ SetupLeavesUsers
-----------------------------------------------------------------------------
\* More than one administrator: for every user there is another one.
LEMMA AnotherOne ==
    ASSUME NEW S, IsFiniteSet(S), ~(Cardinality(S) <= 1), NEW u
    PROVE  \E v \in S : v # u
<1> SUFFICES ASSUME \A v \in S : v = u
             PROVE  FALSE
    OBVIOUS
<1>1. S \subseteq {u}
    OBVIOUS
<1>2. IsFiniteSet({u}) /\ Cardinality({u}) = 1
    BY FS_Singleton
<1>3. Cardinality(S) <= Cardinality({u})
    BY <1>1, <1>2, FS_Subset
<1> QED
    BY <1>2, <1>3

LEMMA AdminsFinite == IsFiniteSet(Admins)
BY UsersAssumption, FS_Subset DEF Admins

LEMMA InitIInv == UsersInit => IInv
BY NoneAssumption
   DEF UsersInit, IInv, UsersTypeOK, UserLabel, Role, Serial, Carries, Current, Checked,
       AdminRemains,
       Existing, Admins, SetupLeavesUsers
-----------------------------------------------------------------------------
\* A request that arrives keeps the invariant.
LEMMA BeginInv ==
    ASSUME IInv, UsersQuiet, NEW r \in Requests, UsersBegin(r)
    PROVE  IInv'
<1> USE NoneAssumption
    DEF IInv, UsersTypeOK, UserLabel, Role, Serial, Carries, Current, Checked, AdminRemains,
        Existing,
        Admins, SetupLeavesUsers, UsersQuiet, UsersGoto, userTables
<1>1. CASE \E u \in Users : BeginSetup(r, u)
  BY <1>1 DEF BeginSetup
<1>2. CASE \E a, u \in Users, o \in {"create", "update", "delete"}, new \in Role :
               BeginUsers(r, a, o, u, new)
  BY <1>2 DEF BeginUsers
<1> QED
  BY <1>1, <1>2 DEF UsersBegin

\* An answer that leaves the tables alone keeps the invariant.
LEMMA AnswerInv ==
    ASSUME IInv, NEW r \in Requests, UsersAnswer(r), UNCHANGED userTables
    PROVE  IInv'
BY NoneAssumption
   DEF IInv, UsersTypeOK, UserLabel, Role, Serial, Carries, Current, Checked, AdminRemains,
       Existing,
       Admins, SetupLeavesUsers, RemovesAdmin, UsersAnswer, UsersGoto, userTables

\* A commit ends its request, which was the only one; it is enough that the
\* tables are in order.
LEMMA CommitInv ==
    ASSUME IInv, NEW r \in Requests, userPc[r] # "idle", UsersAnswer(r),
           role' \in [Users -> Role \cup {"absent", "deleted"}],
           setups' \in Nat,
           AdminRemains', SetupLeavesUsers'
    PROVE  IInv'
<1>1. \A s \in Requests : userPc'[s] = "idle"
  BY DEF IInv, UsersTypeOK, Serial, UsersAnswer, UsersGoto
<1>2. UsersTypeOK'
  BY <1>1, NoneAssumption DEF IInv, UsersTypeOK, UserLabel, Role, UsersAnswer, UsersGoto
<1>3. \A s \in Requests : userOp'[s] = "setup" => newRole'[s] = "admin"
  BY DEF IInv, UsersTypeOK, Carries, UsersAnswer
<1>4. \A s \in Requests : userOp'[s] = "delete" => newRole'[s] = "user"
  BY DEF IInv, UsersTypeOK, Carries, UsersAnswer
<1>5. Serial' /\ \A s \in Requests : Carries(s)' /\ Current(s)' /\ Checked(s)'
  BY <1>1, <1>3, <1>4 DEF Serial, Carries, Current, Checked
<1> QED
  BY <1>2, <1>5 DEF IInv

\* Every step of a handler keeps the invariant.
LEMMA HandleInv ==
    ASSUME IInv, NEW r \in Requests, UsersHandle(r)
    PROVE  IInv'
<1> USE NoneAssumption
<1>1. CASE CheckEmpty(r)
  <2>1. CASE Existing = {}
    BY <1>1, <2>1
       DEF CheckEmpty, IInv, UsersTypeOK, UserLabel, Role, Serial, Carries, Current, Checked,
           AdminRemains,
           Existing, Admins, SetupLeavesUsers, RemovesAdmin, UsersGoto, userTables, userRequest
  <2> QED
    BY <1>1, <2>1, AnswerInv DEF CheckEmpty
<1>2. CASE Authorise(r)
  <2>1. CASE role[actor[r]] = "admin"
    BY <1>2, <2>1
       DEF Authorise, IInv, UsersTypeOK, UserLabel, Role, Serial, Carries, Current, Checked,
           AdminRemains,
           Existing, Admins, SetupLeavesUsers, RemovesAdmin, UsersGoto, userTables
  <2> QED
    BY <1>2, <2>1, AnswerInv DEF Authorise
<1>3. CASE Load(r)
  <2>1. CASE \/ userOp[r] = "delete" /\ target[r] = actor[r]
             \/ loaded[r] = None /\ role[target[r]] \notin Role
    BY <1>3, <2>1, AnswerInv DEF Load
  <2>2. CASE ~ \/ userOp[r] = "delete" /\ target[r] = actor[r]
               \/ loaded[r] = None /\ role[target[r]] \notin Role
    <3>1. loaded'[r] \in Role /\ loaded'[r] = role[target[r]]
      <4>1. loaded' = [loaded EXCEPT ![r] = IF @ = None THEN role[target[r]] ELSE @]
        BY <1>3, <2>2 DEF Load
      <4>2. CASE loaded[r] = None
        BY <2>2, <4>1, <4>2 DEF IInv, UsersTypeOK
      <4>3. CASE loaded[r] # None
        <5>1. loaded[r] = "admin" /\ role[target[r]] = "admin"
          BY <1>3, <4>3 DEF Load, IInv, Carries, Current
        <5> QED
          BY <4>1, <4>3, <5>1 DEF IInv, UsersTypeOK, Role
      <4> QED
        BY <4>2, <4>3
    <3>2. UsersTypeOK'
      BY <1>3, <2>2, <3>1 DEF Load, IInv, UsersTypeOK, UserLabel, Role, UsersGoto, userTables
    <3>3. AdminRemains' /\ SetupLeavesUsers' /\ Serial'
      BY <1>3, <2>2
         DEF Load, IInv, UsersTypeOK, Serial, AdminRemains, Existing, Admins,
             SetupLeavesUsers, UsersGoto,
             userTables
    <3>4. ASSUME NEW s \in Requests PROVE Carries(s)' /\ Current(s)' /\ Checked(s)'
      BY <1>3, <2>2, <3>1
         DEF Load, IInv, UsersTypeOK, UserLabel, Carries, Current, Checked, Existing, Admins,
             RemovesAdmin,
             UsersGoto, userTables
    <3> QED
      BY <3>2, <3>3, <3>4 DEF IInv
  <2> QED
    BY <2>1, <2>2
<1>4. CASE CheckLastAdmin(r)
  <2>1. CASE RemovesAdmin(r) /\ Cardinality(Admins) <= 1
    BY <1>4, <2>1, AnswerInv DEF CheckLastAdmin
  <2>2. CASE ~(RemovesAdmin(r) /\ Cardinality(Admins) <= 1)
    <3>1. RemovesAdmin(r) => \E v \in Admins : v # target[r]
      BY <2>2, AdminsFinite, AnotherOne
    <3>2. UsersTypeOK' /\ AdminRemains' /\ SetupLeavesUsers' /\ Serial'
      BY <1>4, <2>2
         DEF CheckLastAdmin, IInv, UsersTypeOK, UserLabel, Role, Serial, AdminRemains,
             Existing, Admins,
             SetupLeavesUsers, UsersGoto, userTables, userRequest
    <3>3. ASSUME NEW s \in Requests PROVE Carries(s)' /\ Current(s)'
      BY <1>4, <2>2
         DEF CheckLastAdmin, IInv, UsersTypeOK, UserLabel, Carries, Current, UsersGoto,
             userTables, userRequest
    <3>4. ASSUME NEW s \in Requests PROVE Checked(s)'
      BY <1>4, <2>2, <3>1
         DEF CheckLastAdmin, IInv, UsersTypeOK, UserLabel, Serial, Carries, Checked, Existing,
             Admins,
             RemovesAdmin, UsersGoto, userTables, userRequest
    <3> QED
      BY <3>2, <3>3, <3>4 DEF IInv
  <2> QED
    BY <2>1, <2>2
<1>5. CASE CommitCreateUser(r)
  <2>1. target[r] \in Admins' \/ actor[r] \in Admins'
    BY <1>5 DEF CommitCreateUser, IInv, UsersTypeOK, Carries, Current, Admins
  <2>2. target[r] \in Existing'
    BY <1>5 DEF CommitCreateUser, IInv, UsersTypeOK, Carries, Existing
  <2>3. userOp[r] = "setup" => setups = 0
    BY <1>5 DEF CommitCreateUser, IInv, Checked, SetupLeavesUsers
  <2> QED
    <3>1. role' \in [Users -> Role \cup {"absent", "deleted"}]
      BY <1>5 DEF CommitCreateUser, IInv, UsersTypeOK
    <3>2. setups' \in Nat /\ SetupLeavesUsers'
      BY <1>5, <2>2, <2>3 DEF CommitCreateUser, IInv, UsersTypeOK, SetupLeavesUsers
    <3> QED
      BY <1>5, <2>1, <3>1, <3>2, CommitInv DEF CommitCreateUser, AdminRemains
<1>6. CASE CommitUpdateUser(r)
  <2>1. Existing' = Existing
    BY <1>6 DEF CommitUpdateUser, IInv, UsersTypeOK, Carries, Existing, Role
  <2>2. Admins # {} => Admins' # {}
    BY <1>6 DEF CommitUpdateUser, IInv, UsersTypeOK, Carries, Current, Checked, RemovesAdmin,
        Admins, Role
  <2> QED
    BY <1>6, <2>1, <2>2, CommitInv
       DEF CommitUpdateUser, IInv, UsersTypeOK, Role, Carries, AdminRemains, SetupLeavesUsers
<1>7. CASE CommitDeleteUser(r)
  <2>1. actor[r] \in Admins' /\ actor[r] \in Existing'
    BY <1>7 DEF CommitDeleteUser, IInv, UsersTypeOK, Carries, Current, Existing, Admins, Role
  <2> QED
    BY <1>7, <2>1, CommitInv
       DEF CommitDeleteUser, IInv, UsersTypeOK, Role, Carries, AdminRemains, SetupLeavesUsers
<1>8. CASE UsersRequestFails(r)
  BY <1>8, AnswerInv DEF UsersRequestFails
<1> QED
  BY <1>1, <1>2, <1>3, <1>4, <1>5, <1>6, <1>7, <1>8 DEF UsersHandle

LEMMA StutterInv == ASSUME IInv, UNCHANGED userVars PROVE IInv'
BY DEF IInv, UsersTypeOK, Serial, Carries, Current, Checked, AdminRemains, Existing, Admins,
       SetupLeavesUsers, RemovesAdmin, userVars, userTables, userRequest

THEOREM Invariance == UsersSerialSpec => []IInv
<1>1. IInv /\ [UsersSerialNext]_userVars => IInv'
  BY BeginInv, HandleInv, StutterInv DEF UsersSerialNext
<1> QED
  BY InitIInv, <1>1, PTL DEF UsersSerialSpec
-----------------------------------------------------------------------------
\* The types of the users table and of the requests, for any number of users.
THEOREM TypeCorrect == UsersSerialSpec => []UsersTypeOK
<1>1. IInv => UsersTypeOK
  BY DEF IInv
<1> QED
  BY Invariance, <1>1, PTL

\* The rule of users.py 46-47 and 62-63 keeps an administrator as long as
\* requests come one at a time.
THEOREM AdminStays == UsersSerialSpec => []AdminRemains
<1>1. IInv => AdminRemains
  BY DEF IInv
<1> QED
  BY Invariance, <1>1, PTL

\* auth.py 43: setup succeeds at most once, because the last administrator
\* cannot be deleted.
THEOREM SetupHappensOnce == UsersSerialSpec => []SetupOnce
<1>1. IInv => SetupOnce
  BY DEF IInv, SetupLeavesUsers, SetupOnce, UsersTypeOK
<1> QED
  BY Invariance, <1>1, PTL
-----------------------------------------------------------------------------
(* Any number of requests at a time *)

\* A request that takes an administrator away, or would if its target were
\* one, from the load of the target to the commit.
Removing(r) ==
    /\ userPc[r] \in {"allowed?", "commit"}
    /\ userOp[r] \in {"update", "delete"}
    /\ newRole[r] = "user"

\* Between its check and its commit no other of its kind is under way: what a
\* lock around load, count and commit gives.
RemovalsTakeTurns == \A r, s \in Requests : Removing(r) /\ Removing(s) => r = s

\* An administrator whom the request leaves.
AnotherAdmin(r) == \E v \in Admins : v # target[r]

\* What is left of Current: nobody deletes himself, a target that is loaded
\* before it is looked for is the actor.
Loaded(r) ==
    /\ userPc[r] = "load" /\ loaded[r] # None => target[r] = actor[r] /\ loaded[r] = "admin"
    /\ userPc[r] = "commit" /\ userOp[r] \in {"update", "delete"} => loaded[r] \in Role

\* What is left of Checked: users, once there are some, are for ever; a removal
\* leaves an administrator, unless its check is still to come.
StillTrue(r) ==
    /\ userPc[r] \in {"load", "allowed?", "commit"} /\ userOp[r] # "setup" => Existing # {}
    /\ Removing(r) /\ userOp[r] = "delete" /\ loaded[r] = "user" => AnotherAdmin(r)
    /\ Removing(r) /\ userPc[r] = "commit" /\ loaded[r] = "admin" => AnotherAdmin(r)

TurnsInv ==
    /\ UsersTypeOK
    /\ \A r \in Requests : Carries(r) /\ Loaded(r) /\ StillTrue(r)
    /\ AdminRemains

LEMMA InitTurns == UsersInit => TurnsInv
BY NoneAssumption
   DEF UsersInit, TurnsInv, UsersTypeOK, UserLabel, Role, Carries, Loaded, StillTrue, Removing,
       AdminRemains, Existing, Admins

\* The steps of one request leave what the others carry.
LEMMA OthersCarry ==
    ASSUME TurnsInv, NEW r \in Requests, NEW s \in Requests, s # r,
           userPc'[s] = userPc[s], actor'[s] = actor[s], userOp'[s] = userOp[s],
           target'[s] = target[s], newRole'[s] = newRole[s], loaded'[s] = loaded[s]
    PROVE  Carries(s)' /\ Loaded(s)'
BY DEF TurnsInv, Carries, Loaded

\* As long as the tables are left alone, only this request is to be looked at.
LEMMA SameTables ==
    ASSUME TurnsInv, NEW r \in Requests, UNCHANGED userTables, UsersTypeOK',
           \A s \in Requests \ {r} : /\ userPc'[s] = userPc[s] /\ actor'[s] = actor[s]
                                      /\ userOp'[s] = userOp[s] /\ target'[s] = target[s]
                                      /\ newRole'[s] = newRole[s] /\ loaded'[s] = loaded[s],
           Carries(r)', Loaded(r)', StillTrue(r)'
    PROVE  TurnsInv'
<1>1. AdminRemains'
  BY DEF TurnsInv, AdminRemains, Existing, Admins, userTables
<1>2. ASSUME NEW s \in Requests, s # r PROVE Carries(s)' /\ Loaded(s)' /\ StillTrue(s)'
  <2>1. StillTrue(s)
    BY DEF TurnsInv
  <2>2. StillTrue(s)'
    BY <1>2, <2>1 DEF StillTrue, Removing, AnotherAdmin, Existing, Admins, userTables
  <2> QED
    BY <1>2, <2>2, OthersCarry
<1> QED
  BY <1>1, <1>2 DEF TurnsInv

\* An answer leaves nothing behind.
LEMMA AnswerTypes ==
    ASSUME UsersTypeOK, NEW r \in Requests, UsersAnswer(r),
           role' \in [Users -> Role \cup {"absent", "deleted"}], setups' \in Nat
    PROVE  /\ UsersTypeOK'
           /\ userPc'[r] = "idle" /\ userOp'[r] = "setup" /\ newRole'[r] = "admin"
           /\ \A s \in Requests \ {r} : /\ userPc'[s] = userPc[s] /\ actor'[s] = actor[s]
                                         /\ userOp'[s] = userOp[s] /\ target'[s] = target[s]
                                         /\ newRole'[s] = newRole[s] /\ loaded'[s] = loaded[s]
BY NoneAssumption DEF UsersTypeOK, UserLabel, Role, UsersAnswer, UsersGoto

LEMMA AnswerTurns ==
    ASSUME TurnsInv, NEW r \in Requests, UsersAnswer(r), UNCHANGED userTables
    PROVE  TurnsInv'
<1>1. UsersTypeOK /\ role' \in [Users -> Role \cup {"absent", "deleted"}] /\ setups' \in Nat
  BY DEF TurnsInv, UsersTypeOK, userTables
<1>2. Carries(r)' /\ Loaded(r)' /\ StillTrue(r)'
  BY <1>1, AnswerTypes DEF Carries, Loaded, StillTrue, Removing
<1> QED
  BY <1>1, <1>2, AnswerTypes, SameTables

\* A request that arrives.
LEMMA BeginTurns ==
    ASSUME TurnsInv, NEW r \in Requests, UsersBegin(r)
    PROVE  TurnsInv'
<1> USE NoneAssumption DEF UsersTypeOK, UserLabel, Role, UsersGoto, userTables
<1>1. ASSUME NEW u \in Users, BeginSetup(r, u) PROVE TurnsInv'
  <2>1. UsersTypeOK'
    BY <1>1 DEF BeginSetup, TurnsInv
  <2>2. Carries(r)' /\ Loaded(r)' /\ StillTrue(r)'
    BY <1>1 DEF BeginSetup, TurnsInv, Carries, Loaded, StillTrue, Removing
  <2> QED
    BY <1>1, <2>1, <2>2, SameTables DEF BeginSetup, TurnsInv
<1>2. ASSUME NEW a \in Users, NEW u \in Users, NEW o \in {"create", "update", "delete"},
             NEW new \in Role, BeginUsers(r, a, o, u, new)
      PROVE  TurnsInv'
  <2>1. UsersTypeOK'
    BY <1>2 DEF BeginUsers, TurnsInv
  <2>2. Carries(r)' /\ Loaded(r)' /\ StillTrue(r)'
    BY <1>2 DEF BeginUsers, TurnsInv, Carries, Loaded, StillTrue, Removing
  <2> QED
    BY <1>2, <2>1, <2>2, SameTables DEF BeginUsers, TurnsInv
<1> QED
  BY <1>1, <1>2 DEF UsersBegin

\* A check of a handler.
LEMMA CheckTurns ==
    ASSUME TurnsInv, NEW r \in Requests,
           CheckEmpty(r) \/ Authorise(r) \/ Load(r) \/ CheckLastAdmin(r)
    PROVE  TurnsInv'
<1> USE NoneAssumption
<1>i. UsersTypeOK /\ Carries(r) /\ Loaded(r) /\ StillTrue(r) /\ AdminRemains
  BY DEF TurnsInv
<1>1. CASE UsersAnswer(r) /\ UNCHANGED userTables
  BY <1>1, AnswerTurns
<1>2. CASE CheckEmpty(r) /\ Existing = {} /\ UsersGoto(r, "commit") /\ UNCHANGED userRequest
  <2>1. UsersTypeOK'
    BY <1>i, <1>2 DEF CheckEmpty, UsersGoto, UsersTypeOK, UserLabel, userTables, userRequest
  <2>2. userPc[r] = "empty?" /\ userPc'[r] = "commit"
    BY <1>i, <1>2 DEF CheckEmpty, UsersGoto, UsersTypeOK
  <2>3. Carries(r)' /\ Loaded(r)' /\ StillTrue(r)'
    BY <1>i, <1>2, <2>2 DEF Carries, Loaded, StillTrue, Removing, userRequest
  <2> QED
    BY <1>i, <1>2, <2>1, <2>3, SameTables DEF CheckEmpty, UsersGoto, UsersTypeOK, userRequest
<1>3. CASE Authorise(r) /\ role[actor[r]] = "admin"
  <2>1. actor[r] \in Existing
    BY <1>i, <1>3 DEF Authorise, Carries, UsersTypeOK, Existing, Role
  <2>2. UsersTypeOK'
    BY <1>i, <1>3 DEF Authorise, UsersGoto, UsersTypeOK, UserLabel, Role, userTables
  <2>3. /\ userPc[r] = "authorise" /\ userOp[r] # "setup"
        /\ userPc'[r] = IF userOp[r] = "create" THEN "commit" ELSE "load"
        /\ loaded'[r] = IF target[r] = actor[r] THEN "admin" ELSE None
        /\ Existing' = Existing
        /\ UNCHANGED <<actor, userOp, target, newRole>>
    BY <1>i, <1>3 DEF Authorise, Carries, UsersGoto, UsersTypeOK, Existing, userTables
  <2>4. Carries(r)' /\ Loaded(r)' /\ StillTrue(r)'
    BY <1>i, <2>1, <2>3 DEF Carries, Loaded, StillTrue, Removing, UsersTypeOK
  <2> QED
    BY <1>i, <1>3, <2>2, <2>4, SameTables DEF Authorise, UsersGoto, UsersTypeOK
<1>4. CASE Load(r) /\ ~ \/ userOp[r] = "delete" /\ target[r] = actor[r]
                        \/ loaded[r] = None /\ role[target[r]] \notin Role
  <2>1. /\ userPc[r] = "load" /\ userPc'[r] = "allowed?"
        /\ loaded' = [loaded EXCEPT ![r] = IF @ = None THEN role[target[r]] ELSE @]
        /\ UNCHANGED <<actor, userOp, target, newRole, userTables>>
    BY <1>i, <1>4 DEF Load, UsersGoto, UsersTypeOK
  <2>2. /\ loaded'[r] \in Role
        /\ userOp[r] = "delete" => loaded'[r] = role[target[r]]
    BY <1>i, <1>4, <2>1 DEF Loaded, UsersTypeOK, Role
  <2>3. UsersTypeOK'
    BY <1>i, <1>4, <2>1, <2>2 DEF Load, UsersGoto, UsersTypeOK, UserLabel, Role, userTables
  <2>4. loaded'[r] = "user" /\ userOp[r] = "delete" => AnotherAdmin(r)'
    BY <1>i, <2>1, <2>2 DEF StillTrue, AdminRemains, AnotherAdmin, Admins, userTables
  <2>5. Carries(r)' /\ Loaded(r)'
    BY <1>i, <2>1, <2>2 DEF Carries, Loaded
  <2>6. StillTrue(r)'
    BY <1>i, <2>1, <2>4 DEF StillTrue, Removing, Existing, userTables
  <2> QED
    BY <1>i, <1>4, <2>1, <2>3, <2>5, <2>6, SameTables DEF Load, UsersGoto, UsersTypeOK
<1>5. CASE CheckLastAdmin(r) /\ ~(RemovesAdmin(r) /\ Cardinality(Admins) <= 1)
  <2>1. userPc[r] = "allowed?" /\ userPc'[r] = "commit" /\ UNCHANGED <<userRequest, userTables>>
    BY <1>i, <1>5 DEF CheckLastAdmin, UsersGoto, UsersTypeOK
  <2>2. UsersTypeOK'
    BY <1>i, <1>5 DEF CheckLastAdmin, UsersGoto, UsersTypeOK, UserLabel, userTables, userRequest
  <2>3. RemovesAdmin(r) => AnotherAdmin(r)'
    BY <1>5, <2>1, AdminsFinite, AnotherOne DEF AnotherAdmin, Admins, userTables, userRequest
  <2>4. Carries(r)' /\ Loaded(r)'
    BY <1>i, <2>1 DEF Carries, Loaded, UsersTypeOK, userRequest
  <2>5. StillTrue(r)'
    BY <1>i, <2>1, <2>3
       DEF StillTrue, Removing, RemovesAdmin, Carries, AnotherAdmin, Admins, Existing, userTables,
           userRequest
  <2> QED
    BY <1>i, <1>5, <2>1, <2>2, <2>4, <2>5, SameTables
       DEF CheckLastAdmin, UsersGoto, UsersTypeOK, userRequest
<1> QED
  BY <1>1, <1>2, <1>3, <1>4, <1>5 DEF CheckEmpty, Authorise, Load, CheckLastAdmin

\* A commit keeps every administrator, or is a removal that leaves another one.
LEMMA CommitLeaves ==
    ASSUME TurnsInv, NEW r \in Requests,
           CommitCreateUser(r) \/ CommitUpdateUser(r) \/ CommitDeleteUser(r)
    PROVE  /\ Admins \subseteq Admins' \/ (Removing(r) /\ AnotherAdmin(r))
           /\ Admins # {} => Admins' # {}
           /\ Existing # {} => Existing' # {}
<1> USE NoneAssumption
<1>i. UsersTypeOK /\ Carries(r) /\ Loaded(r) /\ StillTrue(r) /\ AdminRemains
  BY DEF TurnsInv
<1>c. userPc[r] = "commit" /\ target[r] \in Users
  BY <1>i DEF CommitCreateUser, CommitUpdateUser, CommitDeleteUser, Carries, UsersTypeOK
<1>1. \A v \in Users : v # target[r] => role'[v] = role[v]
  BY <1>i, <1>c DEF CommitCreateUser, CommitUpdateUser, CommitDeleteUser, UsersTypeOK
<1>2. /\ Admins \subseteq Admins' \/ (Removing(r) /\ AnotherAdmin(r))
      /\ AnotherAdmin(r) => Admins' # {}
  <2>1. AnotherAdmin(r) => Admins' # {}
    BY <1>1 DEF AnotherAdmin, Admins
  <2>2. CASE CommitCreateUser(r)
    BY <1>1, <2>1, <2>2 DEF CommitCreateUser, Admins
  <2>3. CASE CommitUpdateUser(r)
    <3>1. CASE loaded[r] = newRole[r] \/ newRole[r] = "admin"
      BY <1>i, <1>1, <1>c, <2>1, <2>3, <3>1 DEF CommitUpdateUser, Admins, UsersTypeOK, Role
    <3>2. CASE loaded[r] # newRole[r] /\ newRole[r] = "user"
      BY <1>i, <1>c, <2>1, <2>3, <3>2 DEF CommitUpdateUser, Loaded, StillTrue, Removing, Role
    <3> QED
      BY <1>i, <3>1, <3>2 DEF UsersTypeOK, Role
  <2>4. CASE CommitDeleteUser(r)
    BY <1>i, <1>c, <2>1, <2>4 DEF CommitDeleteUser, Carries, Loaded, StillTrue, Removing, Role
  <2> QED
    BY <2>2, <2>3, <2>4, <2>1
<1>3. Existing # {} => Existing' # {}
  <2>1. Admins # {} => Admins' # {}
    BY <1>2
  <2>2. Admins' \subseteq Existing'
    BY DEF Admins, Existing, Role
  <2> QED
    BY <1>i, <2>1, <2>2 DEF AdminRemains
<1> QED
  BY <1>2, <1>3

\* While removals take turns it keeps the invariant, whatever the others are
\* about to do.
LEMMA CommitTurns ==
    ASSUME TurnsInv, RemovalsTakeTurns, NEW r \in Requests,
           CommitCreateUser(r) \/ CommitUpdateUser(r) \/ CommitDeleteUser(r)
    PROVE  TurnsInv'
<1> USE NoneAssumption
<1>i. UsersTypeOK /\ Carries(r) /\ Loaded(r) /\ StillTrue(r) /\ AdminRemains
  BY DEF TurnsInv
<1>c. userPc[r] = "commit" /\ UsersAnswer(r) /\ target[r] \in Users
  BY <1>i DEF CommitCreateUser, CommitUpdateUser, CommitDeleteUser, Carries, UsersTypeOK
<1>1. role' \in [Users -> Role \cup {"absent", "deleted"}] /\ setups' \in Nat
  BY <1>i DEF CommitCreateUser, CommitUpdateUser, CommitDeleteUser, UsersTypeOK
<1>2. /\ Admins \subseteq Admins' \/ (Removing(r) /\ AnotherAdmin(r))
      /\ Admins # {} => Admins' # {}
      /\ Existing # {} => Existing' # {}
  BY CommitLeaves
<1>3. Existing' # {} => Admins' # {}
  <2>1. CASE CommitCreateUser(r) /\ userOp[r] = "setup"
    BY <1>i, <1>c, <2>1 DEF CommitCreateUser, Carries, Admins, UsersTypeOK
  <2>2. CASE ~(CommitCreateUser(r) /\ userOp[r] = "setup")
    <3>1. Existing # {}
      BY <1>i, <1>c, <2>2 DEF StillTrue, CommitUpdateUser, CommitDeleteUser, CommitCreateUser
    <3> QED
      BY <1>i, <1>2, <3>1 DEF AdminRemains
  <2> QED
    BY <2>1, <2>2
<1>4. UsersTypeOK' /\ Carries(r)' /\ Loaded(r)' /\ StillTrue(r)'
  BY <1>i, <1>c, <1>1, AnswerTypes DEF Carries, Loaded, StillTrue, Removing
<1>5. ASSUME NEW s \in Requests, s # r PROVE Carries(s)' /\ Loaded(s)' /\ StillTrue(s)'
  <2>1. /\ userPc'[s] = userPc[s] /\ actor'[s] = actor[s] /\ userOp'[s] = userOp[s]
        /\ target'[s] = target[s] /\ newRole'[s] = newRole[s] /\ loaded'[s] = loaded[s]
    BY <1>i, <1>c, <1>1, <1>5, AnswerTypes
  <2>2. StillTrue(s) /\ (Removing(s)' <=> Removing(s))
    BY <2>1 DEF TurnsInv, Removing
  <2>3. Removing(s) /\ AnotherAdmin(s) => AnotherAdmin(s)'
    <3>1. Removing(s) => ~Removing(r)
      BY <1>5 DEF RemovalsTakeTurns
    <3>2. Removing(s) => Admins \subseteq Admins'
      BY <1>2, <3>1
    <3> QED
      BY <2>1, <3>2 DEF AnotherAdmin
  <2>4. StillTrue(s)'
    BY <1>2, <2>1, <2>2, <2>3 DEF StillTrue
  <2> QED
    BY <1>5, <2>1, <2>4, OthersCarry
<1> QED
  BY <1>3, <1>4, <1>5 DEF TurnsInv, AdminRemains

LEMMA StutterTurns == ASSUME TurnsInv, UNCHANGED userVars PROVE TurnsInv'
BY DEF TurnsInv, UsersTypeOK, Carries, Loaded, StillTrue, Removing, AnotherAdmin, AdminRemains,
       Existing, Admins, userVars, userTables, userRequest

LEMMA TurnsInvariance == UsersSpec /\ []RemovalsTakeTurns => []TurnsInv
<1>1. TurnsInv /\ RemovalsTakeTurns /\ [UsersNext]_userVars => TurnsInv'
  <2> SUFFICES ASSUME TurnsInv, RemovalsTakeTurns, [UsersNext]_userVars
               PROVE  TurnsInv'
    OBVIOUS
  <2>1. ASSUME NEW r \in Requests, UsersHandle(r) PROVE TurnsInv'
    BY <2>1, CheckTurns, CommitTurns, AnswerTurns DEF UsersHandle, UsersRequestFails
  <2> QED
    BY <2>1, BeginTurns, StutterTurns DEF UsersNext
<1> QED
  BY InitTurns, <1>1, PTL DEF UsersSpec

\* Where the violation of AdminRemains by concurrent requests comes from, and
\* from nowhere else: two demotions or deletions between load and commit at the
\* same time.  While these take turns, no order of all other requests, stale
\* sessions and outdated authorisations included, locks the users out.
THEOREM AdminStaysByTurns == UsersSpec /\ []RemovalsTakeTurns => []AdminRemains
<1>1. TurnsInv => AdminRemains
  BY DEF TurnsInv
<1> QED
  BY TurnsInvariance, <1>1, PTL
-----------------------------------------------------------------------------
(* Setup among them *)

\* Nor do two setups commit at the same time.
SetupsTakeTurns ==
    \A r, s \in Requests :
        /\ userPc[r] = "commit" /\ userOp[r] = "setup"
        /\ userPc[s] = "commit" /\ userOp[s] = "setup"
        => r = s

SetupInv ==
    /\ SetupLeavesUsers
    /\ \A r \in Requests : userPc[r] = "commit" /\ userOp[r] = "setup" => Existing = {}

\* A setup that has found the table empty still does when it commits: whoever
\* could have created a user needed an administrator first.
LEMMA SetupStep ==
    TurnsInv /\ SetupInv /\ SetupsTakeTurns /\ [UsersNext]_userVars => SetupInv'
<1> SUFFICES ASSUME TurnsInv, SetupInv, SetupsTakeTurns, [UsersNext]_userVars
             PROVE  SetupInv'
  OBVIOUS
<1> USE NoneAssumption
<1>i. UsersTypeOK /\ \A r \in Requests : Carries(r) /\ StillTrue(r)
  BY DEF TurnsInv
<1>1. ASSUME NEW r \in Requests, UNCHANGED userTables,
             \A s \in Requests \ {r} : userPc'[s] = userPc[s] /\ userOp'[s] = userOp[s],
             userPc'[r] = "commit" /\ userOp'[r] = "setup" => Existing = {}
      PROVE  SetupInv'
  BY <1>1 DEF SetupInv, SetupLeavesUsers, Existing, userTables
<1>2. ASSUME NEW r \in Requests, UsersBegin(r) PROVE SetupInv'
  <2>1. /\ UNCHANGED userTables /\ userPc'[r] # "commit"
        /\ \A s \in Requests \ {r} : userPc'[s] = userPc[s] /\ userOp'[s] = userOp[s]
    BY <1>i, <1>2 DEF UsersBegin, BeginSetup, BeginUsers, UsersGoto, UsersTypeOK
  <2> QED
    BY <1>1, <2>1
<1>3. ASSUME NEW r \in Requests, UsersAnswer(r), UNCHANGED userTables PROVE SetupInv'
  <2>1. /\ userPc'[r] # "commit"
        /\ \A s \in Requests \ {r} : userPc'[s] = userPc[s] /\ userOp'[s] = userOp[s]
    BY <1>i, <1>3 DEF UsersAnswer, UsersGoto, UsersTypeOK
  <2> QED
    BY <1>1, <1>3, <2>1
<1>4. ASSUME NEW r \in Requests, CheckEmpty(r) PROVE SetupInv'
  <2>1. CASE Existing = {} /\ UsersGoto(r, "commit") /\ UNCHANGED <<userRequest, userTables>>
    BY <1>i, <1>1, <2>1 DEF UsersGoto, UsersTypeOK, userRequest
  <2> QED
    BY <1>3, <1>4, <2>1 DEF CheckEmpty
<1>5. ASSUME NEW r \in Requests, Authorise(r) \/ Load(r) \/ CheckLastAdmin(r) PROVE SetupInv'
  <2>1. CASE UsersAnswer(r) /\ UNCHANGED userTables
    BY <1>3, <2>1
  <2>2. CASE UNCHANGED <<userOp, userTables>> /\ \E l \in UserLabel : UsersGoto(r, l)
    <3>1. userOp[r] # "setup"
      BY <1>i, <1>5 DEF Authorise, Load, CheckLastAdmin, Carries
    <3> QED
      BY <1>i, <1>1, <2>2, <3>1 DEF UsersGoto, UsersTypeOK
  <2> QED
    BY <1>5, <2>1, <2>2 DEF Authorise, Load, CheckLastAdmin, UserLabel, userRequest
<1>6. ASSUME NEW r \in Requests,
             CommitCreateUser(r) \/ CommitUpdateUser(r) \/ CommitDeleteUser(r)
      PROVE  SetupInv'
  <2>1. /\ userPc[r] = "commit" /\ UsersAnswer(r) /\ target[r] \in Users
        /\ userPc'[r] # "commit"
        /\ \A s \in Requests \ {r} : userPc'[s] = userPc[s] /\ userOp'[s] = userOp[s]
    BY <1>i, <1>6
       DEF CommitCreateUser, CommitUpdateUser, CommitDeleteUser, UsersAnswer, UsersGoto, Carries,
           UsersTypeOK
  <2>2. CASE userOp[r] = "setup"
    <3>1. setups = 0 /\ setups' = 1 /\ role' = [role EXCEPT ![target[r]] = newRole[r]]
      BY <1>6, <2>1, <2>2
         DEF SetupInv, SetupLeavesUsers, CommitCreateUser, CommitUpdateUser, CommitDeleteUser
    <3>2. target[r] \in Existing'
      BY <1>i, <2>1, <3>1 DEF Existing, UsersTypeOK
    <3>3. \A s \in Requests : ~(userPc'[s] = "commit" /\ userOp'[s] = "setup")
      BY <2>1, <2>2 DEF SetupsTakeTurns
    <3> QED
      BY <3>1, <3>2, <3>3 DEF SetupInv, SetupLeavesUsers
  <2>3. CASE userOp[r] # "setup"
    <3>1. Existing # {} /\ setups' = setups
      BY <1>i, <1>6, <2>1, <2>3
         DEF StillTrue, CommitCreateUser, CommitUpdateUser, CommitDeleteUser
    <3>2. Existing' # {}
      BY <1>6, <3>1, CommitLeaves
    <3> QED
      BY <2>1, <3>1, <3>2 DEF SetupInv, SetupLeavesUsers
  <2> QED
    BY <2>2, <2>3
<1>7. CASE UNCHANGED userVars
  BY <1>7 DEF SetupInv, SetupLeavesUsers, Existing, userVars, userTables, userRequest
<1> QED
  BY <1>2, <1>3, <1>4, <1>5, <1>6, <1>7 DEF UsersNext, UsersHandle, UsersRequestFails

\* Under the same condition, and with a lock on setup, setup succeeds once.
THEOREM SetupOnceByTurns ==
    UsersSpec /\ []RemovalsTakeTurns /\ []SetupsTakeTurns => []SetupOnce
<1>1. UsersInit => SetupInv
  BY DEF UsersInit, SetupInv, SetupLeavesUsers
<1>2. TurnsInv /\ SetupInv => SetupOnce
  BY DEF TurnsInv, UsersTypeOK, SetupInv, SetupLeavesUsers, SetupOnce
<1> QED
  BY TurnsInvariance, SetupStep, <1>1, <1>2, PTL DEF UsersSpec
=============================================================================
