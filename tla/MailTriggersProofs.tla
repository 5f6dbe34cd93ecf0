-------------------------- MODULE MailTriggersProofs --------------------------
(***************************************************************************)
(* Proofs about ChainMatcher and MailTriggers: the gate is the reference   *)
(* gate for any patterns, texts and length of the day, and the properties  *)
(* of MailTriggers hold for any mails, folders and chains.                 *)
(***************************************************************************)
EXTENDS MailTriggers, FiniteSetTheorems, WellFoundedInduction, TLAPS

\* When a minute lies in the window from s until e.
LEMMA InWindow ==
    ASSUME NEW s \in Minutes, NEW e \in Minutes, NEW now \in Minutes
    PROVE  now \in Window(s, e) <=>
               \/ s = e
               \/ s < e /\ s <= now /\ now < e
               \/ e < s /\ (s <= now \/ now < e)
<1> DEFINE d == IF s <= now THEN now - s ELSE DayLength - s + now
<1>1. d \in 0 .. DayLength - 1 /\ Later(s, d) = now
    BY DayAssumption DEF Minutes, Later
<1>2. ASSUME NEW c \in 0 .. DayLength - 1, Later(s, c) = now PROVE c = d
    BY <1>2, DayAssumption DEF Minutes, Later
<1>3. WindowLength(s, e) \in 1 .. DayLength
    BY DayAssumption DEF Minutes, WindowLength
<1>4. now \in Window(s, e) <=> d < WindowLength(s, e)
    <2> HIDE DEF d
    <2>1. now \in Window(s, e) <=> \E c \in 0 .. WindowLength(s, e) - 1 : Later(s, c) = now
        BY DEF Window
    <2>2. \A c \in 0 .. WindowLength(s, e) - 1 : c \in 0 .. DayLength - 1
        BY <1>3, DayAssumption
    <2>3. now \in Window(s, e) => d \in 0 .. WindowLength(s, e) - 1
        BY <1>2, <2>1, <2>2
    <2>4. d \in 0 .. WindowLength(s, e) - 1 => now \in Window(s, e)
        BY <1>1, <2>1
    <2>5. d \in 0 .. WindowLength(s, e) - 1 <=> d < WindowLength(s, e)
        BY <1>1, <1>3, DayAssumption
    <2> QED
        BY <2>3, <2>4, <2>5
<1> QED
    BY <1>4, DayAssumption DEF Minutes, WindowLength

\* is_within_time_window lets a chain run exactly in the minutes its window
\* names, over midnight too.
THEOREM WindowIsAllowed ==
    ASSUME NEW gate \in GateColumns, NEW now \in Minutes
    PROVE  IsWithinTimeWindow(gate, now) <=> now \in Allowed(gate)
<1> DEFINE s == gate.time_start
           e == gate.time_end
<1>1. s \in Minutes \cup {None} /\ e \in Minutes \cup {None} /\ gate.time_window_enabled \in BOOLEAN
    BY DEF GateColumns
<1>2. CASE ~(gate.time_window_enabled /\ s # None /\ e # None)
    BY <1>2 DEF IsWithinTimeWindow, Restricts, Allowed
<1>3. CASE gate.time_window_enabled /\ s # None /\ e # None
    <2>1. s \in Minutes /\ e \in Minutes
        BY <1>1, <1>3
    <2>2. now \in Allowed(gate) <=> now \in Window(s, e)
        BY <1>3 DEF Allowed
    <2>3. IsWithinTimeWindow(gate, now) <=>
            (s # e => IF s < e THEN s <= now /\ now < e ELSE s <= now \/ now < e)
        BY <1>3 DEF IsWithinTimeWindow, Restricts
    <2> HIDE DEF s, e
    <2>4. s \in Int /\ e \in Int /\ now \in Int
        BY <2>1 DEF Minutes
    <2>5. CASE s = e
        BY <2>1, <2>2, <2>3, <2>5, InWindow
    <2>6. CASE s < e
        <3>1. s # e /\ ~(e < s)
            BY <2>4, <2>6
        <3> QED
            BY <2>1, <2>2, <2>3, <2>6, <3>1, InWindow, Zenon
    <2>7. CASE e < s
        <3>1. s # e /\ ~(s < e)
            BY <2>4, <2>7
        <3> QED
            BY <2>1, <2>2, <2>3, <2>7, <3>1, InWindow, Zenon
    <2> QED
        BY <2>4, <2>5, <2>6, <2>7
<1> QED
    BY <1>2, <1>3

\* matches_conditions accepts exactly the mails that satisfy all, or any, of
\* the conditions that are set, if the body a condition needs was loaded.
THEOREM ConditionsAccept ==
    ASSUME NEW gate \in GateColumns, NEW mail \in Mail, NEW text \in Texts \cup {None},
           text \in {mail.body, None}, ChainNeedsBody(gate) => text # None
    PROVE  MatchesConditions(gate, mail.sender, mail.subject, text) <=> Accepts(gate, mail)
<1> DEFINE results == Results(gate, mail.sender, mail.subject, text)
           sat == Satisfied(gate, mail)
           set == SetConditions(gate)
           FromSender == IF gate.sender_filter_mode = "regex"
                         THEN RegexMatches(gate.sender_filter, mail.sender)
                         ELSE gate.sender_filter \in Contains[mail.sender]
           FromSubject == RegexMatches(gate.subject_regex, mail.subject)
           FromBody == text # None /\ RegexMatches(gate.body_regex, text)
<1>1. /\ mail.sender \in Texts /\ mail.subject \in Texts /\ mail.body \in Texts
      /\ gate.sender_filter_mode \in {"contains", "regex"}
      /\ gate.condition_match \in {"all", "any"}
    BY DEF Mail, GateColumns
<1>2. \A p, v : v \in Texts => (RegexMatches(p, v) <=> p \in Finds[v])
    BY TextAssumption DEF RegexMatches
<1>3. gate.body_regex # None => text = mail.body /\ text # None
    BY DEF ChainNeedsBody
<1>4. /\ "sender_filter" \in set <=> gate.sender_filter # None
      /\ "subject_regex" \in set <=> gate.subject_regex # None
      /\ "body_regex" \in set <=> gate.body_regex # None
      /\ set \subseteq {"sender_filter", "subject_regex", "body_regex"}
    BY DEF SetConditions
<1>5. /\ "sender_filter" \in sat <=> gate.sender_filter # None /\ FromSender
      /\ "subject_regex" \in sat <=> gate.subject_regex # None /\ FromSubject
      /\ "body_regex" \in sat <=> gate.body_regex # None /\ FromBody
      /\ sat \subseteq set
    <2>1. "sender_filter" \in sat <=> gate.sender_filter # None /\ FromSender
        BY <1>1, <1>2 DEF Satisfied, SetConditions
    <2>2. "subject_regex" \in sat <=> gate.subject_regex # None /\ FromSubject
        BY <1>1, <1>2 DEF Satisfied, SetConditions
    <2>3. "body_regex" \in sat <=> gate.body_regex # None /\ FromBody
        BY <1>1, <1>2, <1>3 DEF Satisfied, SetConditions
    <2> QED
        BY <2>1, <2>2, <2>3 DEF Satisfied
<1>6. \A b \in BOOLEAN : b \in results <=>
            \/ gate.sender_filter # None /\ b = FromSender
            \/ gate.subject_regex # None /\ b = FromSubject
            \/ gate.body_regex # None /\ b = FromBody
    BY DEF Results
<1>7. results = {} <=> set = {}
    BY <1>4 DEF Results
<1>8. FromSender \in BOOLEAN /\ FromSubject \in BOOLEAN /\ FromBody \in BOOLEAN
    <2>1. \A p, v : RegexMatches(p, v) \in BOOLEAN
        BY Zenon DEF RegexMatches
    <2>2. FromSender \in BOOLEAN
        <3>1. CASE gate.sender_filter_mode = "regex"
            BY <2>1, <3>1, Zenon
        <3>2. CASE gate.sender_filter_mode # "regex"
            <4>1. (gate.sender_filter \in Contains[mail.sender]) \in BOOLEAN
                OBVIOUS
            <4> QED
                BY <3>2, <4>1, Zenon
        <3> QED
            BY <3>1, <3>2
    <2>3. FromSubject \in BOOLEAN /\ FromBody \in BOOLEAN
        BY <2>1, Zenon
    <2> QED
        BY <2>2, <2>3
<1>9. MatchesConditions(gate, mail.sender, mail.subject, text) <=>
        (results # {} =>
            IF gate.condition_match = "any" THEN TRUE \in results ELSE FALSE \notin results)
    BY DEF MatchesConditions
<1>10. Accepts(gate, mail) <=> sat = set \/ (gate.condition_match = "any" /\ sat # {})
    BY DEF Accepts
<1> HIDE DEF results, sat, set, FromSender, FromSubject, FromBody
<1>11. TRUE \in results <=> sat # {}
    BY <1>4, <1>5, <1>6, <1>8, Zenon
<1>12. FALSE \in results <=> sat # set
    <2>1. FALSE \in results <=> \/ gate.sender_filter # None /\ ~FromSender
                                \/ gate.subject_regex # None /\ ~FromSubject
                                \/ gate.body_regex # None /\ ~FromBody
        BY <1>6, <1>8, Zenon
    <2>2. FALSE \in results <=> \E c \in set : c \notin sat
        BY <1>4, <1>5, <2>1
    <2> QED
        BY <1>5, <2>2
<1> QED
    BY <1>1, <1>4, <1>5, <1>7, <1>9, <1>10, <1>11, <1>12

-----------------------------------------------------------------------------
(* The inductive invariant *)

\* The snapshot and what is fetched later are about mails of seen.folder, the
\* folder of the account until it is changed.
SnapshotInv ==
    /\ box = [f \in Folders |-> box[f]]
    /\ pc # "idle" => conn \in Folders
    /\ pc # "idle" /\ ~moved => folder = conn
    /\ pc \in {"header", "commit"} => conn = seen.folder
    /\ pc \notin {"idle", "search"} =>
        /\ seen \in Search
        /\ ~moved => folder = seen.folder
        /\ latest # None => latest \in Uids(seen.folder)
    /\ pc \in {"header", "body"} => latest # None
    /\ header # None =>
        /\ pc \in {"commit", "handler", "body", "dispatch"}
        /\ latest # None
        /\ header = [sender |-> Content[seen.folder][latest].sender,
                     subject |-> Content[seen.folder][latest].subject]
    /\ body # None =>
        /\ pc = "dispatch"
        /\ latest # None
        /\ ~moved => body = Content[seen.folder][latest].body
    /\ \A c \in Chains : verdict[c] # "none" =>
        pc = "dispatch" /\ (verdict[c] = "run" <=> Passes(c))

\* The counts are those of the sets of mails seen.
CountInv ==
    /\ pc \in {"search", "header", "commit"} => previous = lastUnread
    /\ pc \in {"header", "commit"} =>
        count = Cardinality(seen.uids) /\ seen.uids \subseteq Uids(seen.folder)
    /\ lastUnread = None => lastSeen = None
    /\ lastUnread # None =>
        /\ lastSeen \in Search
        /\ lastSeen.uids \subseteq Uids(lastSeen.folder)
        /\ lastUnread = Cardinality(lastSeen.uids)

\* Until the folder changes, a thread's UID is that of its mail there.
ThreadInv ==
    \A c \in Chains :
        /\ thread[c].stage # "end" => printed[c] = None
        /\ printed[c] # None => /\ thread[c].uid # None
                                /\ printed[c] = <<thread[c].folder, thread[c].uid>>
        /\ thread[c].stage # "none" /\ ~thread[c].moved =>
            /\ thread[c].uid # None => thread[c].mail = <<folder, thread[c].uid>>
            /\ thread[c].stage # "load" => thread[c].folder = folder
        /\ thread[c].stage \in {"print", "end"} => thread[c].folder \in Folders

IInv == TypeOK /\ SnapshotInv /\ CountInv /\ ThreadInv
-----------------------------------------------------------------------------
\* Of finitely many numbers one is the greatest.
LEMMA GreatestExists ==
    ASSUME NEW S, IsFiniteSet(S), S # {}, NEW f, \A s \in S : f[s] \in Int
    PROVE  \E s \in S : \A t \in S : f[t] <= f[s]
<1> DEFINE Above(s) == {t \in S : f[t] > f[s]}
           Less == OpToRel(<, Nat)
           Sizes == {Cardinality(Above(s)) : s \in S}
<1>1. \A s \in S : IsFiniteSet(Above(s)) /\ Cardinality(Above(s)) \in Nat
    BY FS_Subset, FS_CardinalityType
<1>2. \A m, n \in Nat : (<<m, n>> \in Less) <=> (m < n)
    BY DEF OpToRel
<1>3. Sizes \subseteq Nat /\ Sizes # {}
    BY <1>1
<1>4. \E n \in Sizes : \A m \in Sizes : ~(<<m, n>> \in Less)
    <2> HIDE DEF Sizes, Less
    <2>1. IsWellFoundedOn(Less, Nat)
        BY NatLessThanWellFounded DEF Less
    <2> QED
        BY <1>3, <2>1, WFMin
<1>5. PICK s \in S : \A t \in S : ~(Cardinality(Above(t)) < Cardinality(Above(s)))
    BY <1>1, <1>2, <1>4
<1>6. ASSUME NEW t \in S, ~(f[t] <= f[s])
      PROVE  FALSE
    <2>1. Above(t) \subseteq Above(s) /\ t \in Above(s) /\ t \notin Above(t)
        BY <1>6
    <2>2. Cardinality(Above(t)) < Cardinality(Above(s))
        <3> HIDE DEF Above
        <3>1. Cardinality(Above(t)) <= Cardinality(Above(s))
            BY <1>1, <2>1, FS_Subset
        <3>2. Cardinality(Above(t)) # Cardinality(Above(s))
            BY <1>1, <2>1, FS_Subset
        <3> QED
            BY <1>1, <3>1, <3>2
    <2> QED
        BY <1>5, <2>2
<1> QED
    BY <1>6

\* There are finitely many mails, and they are mails.
LEMMA MailFacts ==
    ASSUME NEW f \in Folders
    PROVE  /\ IsFiniteSet(Uids(f))
           /\ Uids(f) \subseteq Nat
           /\ Uids(f) \subseteq Uid
           /\ \A u \in Uids(f) : Content[f][u] \in Mail
<1>1. Content[f] \in Seq(Mail)
    BY ContentAssumption
<1>2. Uids(f) = 1 .. Len(Content[f]) /\ Len(Content[f]) \in Nat
    BY <1>1 DEF Uids
<1>3. IsFiniteSet(1 .. Len(Content[f]))
    BY <1>2, FS_Interval
<1>4. \A u \in Uids(f) : Content[f][u] \in Mail
    <2> DEFINE mails == Content[f]
    <2>1. mails \in Seq(Mail) /\ Uids(f) = 1 .. Len(mails)
        BY <1>1, <1>2
    <2> HIDE DEF mails
    <2>2. \A u \in 1 .. Len(mails) : mails[u] \in Mail
        BY <2>1
    <2> QED
        BY <2>1, <2>2 DEF mails
<1>5. Uids(f) \subseteq Uid
    BY DEF Uid
<1> QED
    BY <1>2, <1>3, <1>4, <1>5

\* The newest of some mails is one of them.
LEMMA NewestIsOne ==
    ASSUME NEW f \in Folders, NEW uids \in SUBSET Uids(f)
    PROVE  /\ IsFiniteSet(uids) /\ Cardinality(uids) \in Nat
           /\ uids = {} => Newest(uids) = None
           /\ uids # {} => Newest(uids) \in uids
<1>1. IsFiniteSet(uids) /\ Cardinality(uids) \in Nat
    BY MailFacts, FS_Subset, FS_CardinalityType
<1>2. ASSUME uids # {} PROVE \E u \in uids : \A v \in uids : v <= u
    <2> DEFINE id == [u \in uids |-> u]
    <2>1. \A u \in uids : id[u] \in Int
        BY MailFacts
    <2>2. \E s \in uids : \A t \in uids : id[t] <= id[s]
        <3> HIDE DEF id
        <3> QED
            BY <1>1, <1>2, <2>1, GreatestExists
    <2> QED
        BY <2>2
<1> QED
    BY <1>1, <1>2 DEF Newest

-----------------------------------------------------------------------------
LEMMA InitInv == Init => IInv
<1> SUFFICES ASSUME Init PROVE IInv
    OBVIOUS
<1> USE DayAssumption, NoneIsNoValue, NoneIsNoFolder
<1>1. TypeOK
    <2>1. NoThread \in Thread
        BY DEF NoThread, Thread
    <2>2. thread \in [Chains -> Thread]
        BY <2>1 DEF Init
    <2>3. \A f \in Folders : box[f] \in [Uids(f) -> {"absent", "unread", "read", "gone"}]
        BY DEF Init
    <2>4. minute \in Minutes /\ count \in Nat /\ pc \in Label
        BY DEF Init, Minutes, Label
    <2> QED
        BY <2>2, <2>3, <2>4 DEF Init, TypeOK
<1>2. SnapshotInv
    BY DEF Init, SnapshotInv
<1>3. CountInv
    BY DEF Init, CountInv
<1>4. ThreadInv
    BY DEF Init, ThreadInv, NoThread
<1> QED
    BY <1>1, <1>2, <1>3, <1>4 DEF IInv

\* Every step keeps the invariant: one step of the proof per action.
LEMMA StepInv == IInv /\ [Next]_vars => IInv'
<1> SUFFICES ASSUME IInv, [Next]_vars PROVE IInv'
    OBVIOUS
<1> USE DayAssumption, NoneIsNoValue, NoneIsNoFolder
<1>i. TypeOK /\ SnapshotInv /\ CountInv /\ ThreadInv
    BY DEF IInv
<1>p. (\A c \in Chains : UNCHANGED <<chain, minute, header, body>> => (Passes(c)' <=> Passes(c)))
    BY DEF Passes
<1>1. ASSUME BeginPoll PROVE IInv'
    <2>1. TypeOK'
        BY <1>i, <1>1, MailFacts
        DEF BeginPoll, rowVars, snapshotVars, handlerVars, threadVars, pollVars, TypeOK,
            SnapshotInv, Label, Minutes
    <2>2. SnapshotInv'
        BY <1>i, <1>p, <1>1, MailFacts
        DEF BeginPoll, rowVars, snapshotVars, handlerVars, threadVars, pollVars, TypeOK,
            SnapshotInv
    <2>3. CountInv'
        BY <1>i, <1>1
        DEF BeginPoll, rowVars, snapshotVars, handlerVars, threadVars, pollVars, TypeOK,
            SnapshotInv, CountInv
    <2>4. ThreadInv'
        BY <1>i, <1>1
        DEF BeginPoll, rowVars, snapshotVars, handlerVars, threadVars, pollVars, TypeOK, Thread,
            NoThread, SnapshotInv, ThreadInv
    <2> QED
        BY <2>1, <2>2, <2>3, <2>4 DEF IInv
<1>2. ASSUME SearchUnseen PROVE IInv'
    <2> DEFINE U == {u \in Uids(conn) : box[conn][u] = "unread"}
    <2>a. /\ conn \in Folders
          /\ seen' = [folder |-> conn, uids |-> U] /\ count' = Cardinality(U)
          /\ latest' = Newest(U) /\ pc' = IF U = {} THEN "commit" ELSE "header"
        <3>1. conn \in Folders
            BY <1>i, <1>2 DEF SearchUnseen, SnapshotInv
        <3> QED
            BY <1>2, <3>1 DEF SearchUnseen
    <2>b. /\ U \subseteq Uids(conn) /\ Cardinality(U) \in Nat
          /\ U = {} => Newest(U) = None
          /\ U # {} => Newest(U) \in Uids(conn)
        BY <2>a, NewestIsOne
    <2>c. seen' \in Search
        BY <2>a, <2>b, MailFacts DEF Search
    <2> HIDE DEF U
    <2>1. TypeOK'
        <3>1. latest' \in Uid \cup {None} /\ count' \in Nat /\ pc' \in Label
            BY <2>a, <2>b, MailFacts DEF Label
        <3> QED
            BY <1>i, <1>2, <2>c, <3>1 DEF SearchUnseen, rowVars, handlerVars, threadVars, TypeOK
    <2>2. SnapshotInv'
        <3>1. conn' = conn /\ folder' = folder /\ moved' = moved /\ box' = box /\ chain' = chain
              /\ header' = header /\ body' = body /\ minute' = minute /\ verdict' = verdict
              /\ pc' \in {"header", "commit"} /\ pc = "search"
            BY <1>2 DEF SearchUnseen, rowVars, handlerVars, threadVars
        <3>2. header = None /\ body = None /\ (\A c \in Chains : verdict[c] = "none")
              /\ (~moved => folder = conn) /\ box = [f \in Folders |-> box[f]]
            BY <1>i, <3>1 DEF SnapshotInv
        <3>3. seen'.folder = conn
            BY <2>a
        <3>4. /\ latest' # None => latest' \in Uids(conn)
              /\ pc' = "header" => latest' # None
            BY <2>a, <2>b, MailFacts
        <3> QED
            BY <2>a, <2>c, <3>1, <3>2, <3>3, <3>4 DEF SnapshotInv
    <2>3. CountInv'
        BY <1>i, <1>2
        DEF SearchUnseen, rowVars, snapshotVars, handlerVars, threadVars, pollVars, TypeOK,
            SnapshotInv, CountInv
    <2>4. ThreadInv'
        BY <1>i, <1>2
        DEF SearchUnseen, rowVars, snapshotVars, handlerVars, threadVars, pollVars, TypeOK,
            Thread, NoThread, SnapshotInv, ThreadInv
    <2> QED
        BY <2>1, <2>2, <2>3, <2>4 DEF IInv
<1>3. ASSUME FetchHeader PROVE IInv'
    <2>1. TypeOK'
        BY <1>i, <1>3, MailFacts
        DEF FetchHeader, rowVars, snapshotVars, handlerVars, threadVars, pollVars, TypeOK,
            SnapshotInv, Label, Minutes, Mail, Present
    <2>2. SnapshotInv'
        BY <1>i, <1>p, <1>3, MailFacts
        DEF FetchHeader, rowVars, snapshotVars, handlerVars, threadVars, pollVars, TypeOK,
            SnapshotInv
    <2>3. CountInv'
        BY <1>i, <1>3
        DEF FetchHeader, rowVars, snapshotVars, handlerVars, threadVars, pollVars, TypeOK,
            SnapshotInv, CountInv
    <2>4. ThreadInv'
        BY <1>i, <1>3
        DEF FetchHeader, rowVars, snapshotVars, handlerVars, threadVars, pollVars, TypeOK, Thread,
            NoThread, SnapshotInv, ThreadInv
    <2> QED
        BY <2>1, <2>2, <2>3, <2>4 DEF IInv
<1>4. ASSUME SnapshotFails PROVE IInv'
    <2>1. TypeOK'
        BY <1>i, <1>4, MailFacts
        DEF SnapshotFails, Return, Fired, rowVars, snapshotVars, handlerVars, threadVars,
            pollVars, TypeOK, SnapshotInv, Label, Minutes
    <2>2. SnapshotInv'
        BY <1>i, <1>p, <1>4, MailFacts
        DEF SnapshotFails, Return, Fired, rowVars, snapshotVars, handlerVars, threadVars,
            pollVars, TypeOK, SnapshotInv
    <2>3. CountInv'
        BY <1>i, <1>4
        DEF SnapshotFails, Return, Fired, rowVars, snapshotVars, handlerVars, threadVars,
            pollVars, TypeOK, SnapshotInv, CountInv
    <2>4. ThreadInv'
        BY <1>i, <1>4
        DEF SnapshotFails, Return, Fired, rowVars, snapshotVars, handlerVars, threadVars,
            pollVars, TypeOK, Thread, NoThread, SnapshotInv, ThreadInv
    <2> QED
        BY <2>1, <2>2, <2>3, <2>4 DEF IInv
<1>5. ASSUME Commit PROVE IInv'
    <2>1. TypeOK'
        BY <1>i, <1>5, MailFacts
        DEF Commit, Return, Fired, rowVars, snapshotVars, handlerVars, threadVars, pollVars,
            TypeOK, SnapshotInv, Label, Minutes, Search
    <2>2. SnapshotInv'
        BY <1>i, <1>p, <1>5, MailFacts
        DEF Commit, Return, Fired, rowVars, snapshotVars, handlerVars, threadVars, pollVars,
            TypeOK, SnapshotInv
    <2>3. CountInv'
        BY <1>i, <1>5
        DEF Commit, Return, Fired, rowVars, snapshotVars, handlerVars, threadVars, pollVars,
            TypeOK, SnapshotInv, CountInv
    <2>4. ThreadInv'
        BY <1>i, <1>5
        DEF Commit, Return, Fired, rowVars, snapshotVars, handlerVars, threadVars, pollVars,
            TypeOK, Thread, NoThread, SnapshotInv, ThreadInv
    <2> QED
        BY <2>1, <2>2, <2>3, <2>4 DEF IInv
<1>6. ASSUME QueryChains PROVE IInv'
    <2>1. TypeOK'
        BY <1>i, <1>6, MailFacts
        DEF QueryChains, rowVars, snapshotVars, handlerVars, threadVars, pollVars, TypeOK,
            SnapshotInv, Label, Minutes
    <2>2. SnapshotInv'
        BY <1>i, <1>p, <1>6, MailFacts
        DEF QueryChains, rowVars, snapshotVars, handlerVars, threadVars, pollVars, TypeOK,
            SnapshotInv
    <2>3. CountInv'
        BY <1>i, <1>6
        DEF QueryChains, rowVars, snapshotVars, handlerVars, threadVars, pollVars, TypeOK,
            SnapshotInv, CountInv
    <2>4. ThreadInv'
        BY <1>i, <1>6
        DEF QueryChains, rowVars, snapshotVars, handlerVars, threadVars, pollVars, TypeOK, Thread,
            NoThread, SnapshotInv, ThreadInv
    <2> QED
        BY <2>1, <2>2, <2>3, <2>4 DEF IInv
<1>7. ASSUME LoadBody PROVE IInv'
    <2>1. TypeOK'
        BY <1>i, <1>7, MailFacts
        DEF LoadBody, rowVars, snapshotVars, handlerVars, threadVars, pollVars, TypeOK,
            SnapshotInv, Label, Minutes, Mail, Present
    <2>2. SnapshotInv'
        BY <1>i, <1>p, <1>7, MailFacts
        DEF LoadBody, rowVars, snapshotVars, handlerVars, threadVars, pollVars, TypeOK,
            SnapshotInv
    <2>3. CountInv'
        BY <1>i, <1>7
        DEF LoadBody, rowVars, snapshotVars, handlerVars, threadVars, pollVars, TypeOK,
            SnapshotInv, CountInv
    <2>4. ThreadInv'
        BY <1>i, <1>7
        DEF LoadBody, rowVars, snapshotVars, handlerVars, threadVars, pollVars, TypeOK, Thread,
            NoThread, SnapshotInv, ThreadInv
    <2> QED
        BY <2>1, <2>2, <2>3, <2>4 DEF IInv
<1>8. ASSUME HandlerRaises PROVE IInv'
    <2>1. TypeOK'
        BY <1>i, <1>8, MailFacts
        DEF HandlerRaises, Return, Fired, rowVars, snapshotVars, handlerVars, threadVars,
            pollVars, TypeOK, SnapshotInv, Label, Minutes
    <2>2. SnapshotInv'
        BY <1>i, <1>p, <1>8, MailFacts
        DEF HandlerRaises, Return, Fired, rowVars, snapshotVars, handlerVars, threadVars,
            pollVars, TypeOK, SnapshotInv
    <2>3. CountInv'
        BY <1>i, <1>8
        DEF HandlerRaises, Return, Fired, rowVars, snapshotVars, handlerVars, threadVars,
            pollVars, TypeOK, SnapshotInv, CountInv
    <2>4. ThreadInv'
        BY <1>i, <1>8
        DEF HandlerRaises, Return, Fired, rowVars, snapshotVars, handlerVars, threadVars,
            pollVars, TypeOK, Thread, NoThread, SnapshotInv, ThreadInv
    <2> QED
        BY <2>1, <2>2, <2>3, <2>4 DEF IInv
<1>9. ASSUME DispatchDone PROVE IInv'
    <2>1. TypeOK'
        BY <1>i, <1>9, MailFacts
        DEF DispatchDone, Return, Fired, rowVars, snapshotVars, handlerVars, threadVars, pollVars,
            TypeOK, SnapshotInv, Label, Minutes
    <2>2. SnapshotInv'
        BY <1>i, <1>p, <1>9, MailFacts
        DEF DispatchDone, Return, Fired, rowVars, snapshotVars, handlerVars, threadVars, pollVars,
            TypeOK, SnapshotInv
    <2>3. CountInv'
        BY <1>i, <1>9
        DEF DispatchDone, Return, Fired, rowVars, snapshotVars, handlerVars, threadVars, pollVars,
            TypeOK, SnapshotInv, CountInv
    <2>4. ThreadInv'
        BY <1>i, <1>9
        DEF DispatchDone, Return, Fired, rowVars, snapshotVars, handlerVars, threadVars, pollVars,
            TypeOK, Thread, NoThread, SnapshotInv, ThreadInv
    <2> QED
        BY <2>1, <2>2, <2>3, <2>4 DEF IInv
<1>10. ASSUME NEW c \in Chains, SkipChain(c) PROVE IInv'
    <2>1. TypeOK'
        BY <1>i, <1>10, MailFacts
        DEF SkipChain, rowVars, snapshotVars, handlerVars, threadVars, pollVars, TypeOK,
            SnapshotInv, Label, Minutes
    <2>2. SnapshotInv'
        BY <1>i, <1>p, <1>10, MailFacts
        DEF SkipChain, rowVars, snapshotVars, handlerVars, threadVars, pollVars, TypeOK,
            SnapshotInv
    <2>3. CountInv'
        BY <1>i, <1>10
        DEF SkipChain, rowVars, snapshotVars, handlerVars, threadVars, pollVars, TypeOK,
            SnapshotInv, CountInv
    <2>4. ThreadInv'
        BY <1>i, <1>10
        DEF SkipChain, rowVars, snapshotVars, handlerVars, threadVars, pollVars, TypeOK, Thread,
            NoThread, SnapshotInv, ThreadInv
    <2> QED
        BY <2>1, <2>2, <2>3, <2>4 DEF IInv
<1>11. ASSUME NEW c \in Chains, StartChain(c) PROVE IInv'
    <2>1. TypeOK'
        <3>1. thread' \in [Chains -> Thread]
            <4> DEFINE t == [stage |-> "load", uid |-> latest, folder |-> None,
                             mail |-> IF latest = None THEN None ELSE <<seen.folder, latest>>,
                             moved |-> moved]
            <4>1. (IF latest = None THEN None ELSE <<seen.folder, latest>>) \in MailIds \cup {None}
                BY <1>i, <1>11, MailFacts DEF StartChain, TypeOK, SnapshotInv, Search, MailIds
            <4>2. t \in Thread
                BY <1>i, <4>1 DEF TypeOK, Thread
            <4> HIDE DEF t
            <4>3. thread' = thread \/ thread' = [thread EXCEPT ![c] = t]
                BY <1>11 DEF StartChain, t
            <4> QED
                BY <1>i, <4>2, <4>3 DEF TypeOK
        <3> QED
            BY <1>i, <1>11, <3>1 DEF StartChain, rowVars, snapshotVars, TypeOK
    <2>2. SnapshotInv'
        BY <1>i, <1>p, <1>11, MailFacts
        DEF StartChain, rowVars, snapshotVars, handlerVars, threadVars, pollVars, TypeOK,
            SnapshotInv
    <2>3. CountInv'
        BY <1>i, <1>11
        DEF StartChain, rowVars, snapshotVars, handlerVars, threadVars, pollVars, TypeOK,
            SnapshotInv, CountInv
    <2>4. ThreadInv'
        BY <1>i, <1>11
        DEF StartChain, rowVars, snapshotVars, handlerVars, threadVars, pollVars, TypeOK, Thread,
            NoThread, SnapshotInv, ThreadInv
    <2> QED
        BY <2>1, <2>2, <2>3, <2>4 DEF IInv
<1>12. ASSUME NEW c \in Chains, LoadAccount(c) PROVE IInv'
    <2>1. TypeOK'
        <3>1. thread' \in [Chains -> Thread]
            <4>1. thread[c] \in Thread /\ folder \in Folders
                BY <1>i DEF TypeOK
            <4>2. [thread[c] EXCEPT !.stage = "print", !.folder = folder] \in Thread
                BY <4>1 DEF Thread
            <4> QED
                BY <1>i, <1>12, <4>2 DEF LoadAccount, TypeOK
        <3> QED
            BY <1>i, <1>12, <3>1
            DEF LoadAccount, rowVars, snapshotVars, handlerVars, threadVars, pollVars, TypeOK
    <2>2. SnapshotInv'
        BY <1>i, <1>p, <1>12, MailFacts
        DEF LoadAccount, rowVars, snapshotVars, handlerVars, threadVars, pollVars, TypeOK,
            SnapshotInv
    <2>3. CountInv'
        BY <1>i, <1>12
        DEF LoadAccount, rowVars, snapshotVars, handlerVars, threadVars, pollVars, TypeOK,
            SnapshotInv, CountInv
    <2>4. ThreadInv'
        <3> DEFINE Good(t, p, f) ==
                /\ t.stage # "end" => p = None
                /\ p # None => t.uid # None /\ p = <<t.folder, t.uid>>
                /\ t.stage # "none" /\ ~t.moved =>
                    /\ t.uid # None => t.mail = <<f, t.uid>>
                    /\ t.stage # "load" => t.folder = f
                /\ t.stage \in {"print", "end"} => t.folder \in Folders
        <3>1. \A d \in Chains : Good(thread[d], printed[d], folder)
            BY <1>i DEF ThreadInv
        <3>2. thread[c] \in Thread /\ folder' = folder /\ folder \in Folders
            BY <1>i, <1>12 DEF LoadAccount, rowVars, TypeOK
        <3>3. Good(thread'[c], printed'[c], folder)
            <4>1. thread'[c] = [thread[c] EXCEPT !.stage = "print", !.folder = folder]
                BY <1>i, <1>12 DEF LoadAccount, TypeOK
            <4>2. printed[c] = None /\ printed'[c] = printed[c]
                BY <1>i, <1>12, <3>1 DEF LoadAccount, TypeOK
            <4>3. Good(thread[c], printed[c], folder) /\ thread[c].stage = "load"
                BY <1>12, <3>1 DEF LoadAccount
            <4> QED
                BY <3>2, <4>1, <4>2, <4>3 DEF Thread
        <3>4. \A d \in Chains \ {c} : thread'[d] = thread[d] /\ printed'[d] = printed[d]
            BY <1>i, <1>12 DEF LoadAccount, TypeOK
        <3>5. \A d \in Chains : Good(thread'[d], printed'[d], folder')
            <4> HIDE DEF Good
            <4> QED
                BY <3>1, <3>2, <3>3, <3>4
        <3> QED
            BY <3>5 DEF ThreadInv
    <2> QED
        BY <2>1, <2>2, <2>3, <2>4 DEF IInv
<1>13. ASSUME NEW c \in Chains, PrintStep(c) PROVE IInv'
    <2>1. TypeOK'
        <3>1. thread' \in [Chains -> Thread]
            <4>1. thread[c] \in Thread /\ folder \in Folders
                BY <1>i DEF TypeOK
            <4>2. [thread[c] EXCEPT !.stage = "end"] \in Thread
                BY <4>1 DEF Thread
            <4> QED
                BY <1>i, <1>13, <4>2 DEF PrintStep, TypeOK
        <3>2. printed' \in [Chains -> MailIds \cup {None}]
            <4>1. thread[c].uid \in Uid /\ thread[c].folder \in Folders
                BY <1>i, <1>13 DEF PrintStep, ThreadInv, TypeOK, Thread
            <4> QED
                BY <1>i, <1>13, <4>1 DEF PrintStep, TypeOK, MailIds
        <3> QED
            BY <1>i, <1>13, <3>1, <3>2
            DEF PrintStep, rowVars, snapshotVars, handlerVars, threadVars, pollVars, TypeOK
    <2>2. SnapshotInv'
        BY <1>i, <1>p, <1>13, MailFacts
        DEF PrintStep, rowVars, snapshotVars, handlerVars, threadVars, pollVars, TypeOK,
            SnapshotInv
    <2>3. CountInv'
        BY <1>i, <1>13
        DEF PrintStep, rowVars, snapshotVars, handlerVars, threadVars, pollVars, TypeOK,
            SnapshotInv, CountInv
    <2>4. ThreadInv'
        <3> DEFINE Good(t, p, f) ==
                /\ t.stage # "end" => p = None
                /\ p # None => t.uid # None /\ p = <<t.folder, t.uid>>
                /\ t.stage # "none" /\ ~t.moved =>
                    /\ t.uid # None => t.mail = <<f, t.uid>>
                    /\ t.stage # "load" => t.folder = f
                /\ t.stage \in {"print", "end"} => t.folder \in Folders
        <3>1. \A d \in Chains : Good(thread[d], printed[d], folder)
            BY <1>i DEF ThreadInv
        <3>2. thread[c] \in Thread /\ folder' = folder /\ folder \in Folders
            BY <1>i, <1>13 DEF PrintStep, rowVars, TypeOK
        <3>3. Good(thread'[c], printed'[c], folder)
            <4>1. thread'[c] = [thread[c] EXCEPT !.stage = "end"]
                BY <1>i, <1>13 DEF PrintStep, TypeOK
            <4>2. thread[c].uid # None /\ printed'[c] = <<thread[c].folder, thread[c].uid>>
                BY <1>i, <1>13, <3>1 DEF PrintStep, TypeOK
            <4>3. Good(thread[c], printed[c], folder) /\ thread[c].stage = "print"
                BY <1>13, <3>1 DEF PrintStep
            <4> QED
                BY <3>2, <4>1, <4>2, <4>3 DEF Thread
        <3>4. \A d \in Chains \ {c} : thread'[d] = thread[d] /\ printed'[d] = printed[d]
            BY <1>i, <1>13 DEF PrintStep, TypeOK
        <3>5. \A d \in Chains : Good(thread'[d], printed'[d], folder')
            <4> HIDE DEF Good
            <4> QED
                BY <3>1, <3>2, <3>3, <3>4
        <3> QED
            BY <3>5 DEF ThreadInv
    <2> QED
        BY <2>1, <2>2, <2>3, <2>4 DEF IInv
<1>14. ASSUME NEW c \in Chains, ThreadExit(c) PROVE IInv'
    <2>1. TypeOK'
        BY <1>i, <1>14, MailFacts
        DEF ThreadExit, rowVars, snapshotVars, handlerVars, threadVars, pollVars, TypeOK,
            SnapshotInv, Label, Minutes, Thread, NoThread, MailIds
    <2>2. SnapshotInv'
        BY <1>i, <1>p, <1>14, MailFacts
        DEF ThreadExit, rowVars, snapshotVars, handlerVars, threadVars, pollVars, TypeOK,
            SnapshotInv
    <2>3. CountInv'
        BY <1>i, <1>14
        DEF ThreadExit, rowVars, snapshotVars, handlerVars, threadVars, pollVars, TypeOK,
            SnapshotInv, CountInv
    <2>4. ThreadInv'
        BY <1>i, <1>14
        DEF ThreadExit, rowVars, snapshotVars, handlerVars, threadVars, pollVars, TypeOK, Thread,
            NoThread, SnapshotInv, ThreadInv
    <2> QED
        BY <2>1, <2>2, <2>3, <2>4 DEF IInv
<1>15. ASSUME NEW f \in Folders, UpdateFolder(f) PROVE IInv'
    <2>1. TypeOK'
        <3>1. thread' \in [Chains -> Thread]
            <4>1. \A c \in Chains : thread[c] \in Thread
                BY <1>i DEF TypeOK
            <4>2. \A t \in Thread : [t EXCEPT !.moved = TRUE] \in Thread
                BY DEF Thread
            <4> QED
                BY <1>15, <4>1, <4>2 DEF UpdateFolder
        <3> QED
            BY <1>i, <1>15, <3>1 DEF UpdateFolder, pollVars, snapshotVars, handlerVars, TypeOK
    <2>2. SnapshotInv'
        BY <1>i, <1>p, <1>15, MailFacts
        DEF UpdateFolder, rowVars, snapshotVars, handlerVars, threadVars, pollVars, TypeOK,
            SnapshotInv
    <2>3. CountInv'
        BY <1>i, <1>15
        DEF UpdateFolder, rowVars, snapshotVars, handlerVars, threadVars, pollVars, TypeOK,
            SnapshotInv, CountInv
    <2>4. ThreadInv'
        <3>1. printed' = printed /\ folder' \in Folders
            BY <1>15 DEF UpdateFolder
        <3> SUFFICES ASSUME NEW c \in Chains
                     PROVE  /\ thread'[c].stage # "end" => printed[c] = None
                            /\ printed[c] # None =>
                                /\ thread'[c].uid # None
                                /\ printed[c] = <<thread'[c].folder, thread'[c].uid>>
                            /\ thread'[c].stage # "none" => thread'[c].moved
                            /\ thread'[c].stage \in {"print", "end"} => thread'[c].folder \in Folders
            BY <3>1 DEF ThreadInv
        <3>2. thread[c] \in Thread
            BY <1>i DEF TypeOK
        <3>3. CASE thread[c].stage = "none"
            <4>1. thread'[c] = thread[c]
                BY <1>15, <3>3 DEF UpdateFolder
            <4> QED
                BY <1>i, <3>3, <4>1 DEF ThreadInv
        <3>4. CASE thread[c].stage # "none"
            <4>1. thread'[c] = [thread[c] EXCEPT !.moved = TRUE]
                BY <1>15, <3>4 DEF UpdateFolder
            <4>2. /\ thread'[c].stage = thread[c].stage /\ thread'[c].uid = thread[c].uid
                  /\ thread'[c].folder = thread[c].folder /\ thread'[c].moved
                BY <3>2, <4>1 DEF Thread
            <4> QED
                BY <1>i, <4>2 DEF ThreadInv
        <3> QED
            BY <3>3, <3>4
    <2> QED
        BY <2>1, <2>2, <2>3, <2>4 DEF IInv
<1>16. ASSUME NEW f \in Folders, NEW u \in Uids(f), Arrive(f, u) PROVE IInv'
    <2>1. TypeOK'
        BY <1>i, <1>16, MailFacts
        DEF Arrive, rowVars, snapshotVars, handlerVars, threadVars, pollVars, TypeOK, SnapshotInv,
            Label, Minutes
    <2>2. SnapshotInv'
        BY <1>i, <1>p, <1>16, MailFacts
        DEF Arrive, rowVars, snapshotVars, handlerVars, threadVars, pollVars, TypeOK, SnapshotInv
    <2>3. CountInv'
        BY <1>i, <1>16
        DEF Arrive, rowVars, snapshotVars, handlerVars, threadVars, pollVars, TypeOK, SnapshotInv,
            CountInv
    <2>4. ThreadInv'
        BY <1>i, <1>16
        DEF Arrive, rowVars, snapshotVars, handlerVars, threadVars, pollVars, TypeOK, Thread,
            NoThread, SnapshotInv, ThreadInv
    <2> QED
        BY <2>1, <2>2, <2>3, <2>4 DEF IInv
<1>17. ASSUME NEW f \in Folders, NEW u \in Uids(f), NEW state \in {"unread", "read", "gone"}, Change(f, u, state) PROVE IInv'
    <2>1. TypeOK'
        BY <1>i, <1>17, MailFacts
        DEF Change, rowVars, snapshotVars, handlerVars, threadVars, pollVars, TypeOK, SnapshotInv,
            Label, Minutes
    <2>2. SnapshotInv'
        BY <1>i, <1>p, <1>17, MailFacts
        DEF Change, rowVars, snapshotVars, handlerVars, threadVars, pollVars, TypeOK, SnapshotInv
    <2>3. CountInv'
        BY <1>i, <1>17
        DEF Change, rowVars, snapshotVars, handlerVars, threadVars, pollVars, TypeOK, SnapshotInv,
            CountInv
    <2>4. ThreadInv'
        BY <1>i, <1>17
        DEF Change, rowVars, snapshotVars, handlerVars, threadVars, pollVars, TypeOK, Thread,
            NoThread, SnapshotInv, ThreadInv
    <2> QED
        BY <2>1, <2>2, <2>3, <2>4 DEF IInv
<1>18. CASE UNCHANGED vars
    BY <1>i, <1>p, <1>18
    DEF vars, rowVars, snapshotVars, handlerVars, threadVars, pollVars, IInv, TypeOK, SnapshotInv,
        CountInv, ThreadInv
<1> QED
    BY <1>1, <1>2, <1>3, <1>4, <1>5, <1>6, <1>7, <1>8, <1>9, <1>10, <1>11, <1>12, <1>13, <1>14,
       <1>15, <1>16, <1>17, <1>18
    DEF Next, Poll, ThreadStep, Mailbox
-----------------------------------------------------------------------------
\* The invariant holds in every reachable state.
LEMMA Invariant == Spec => []IInv
<1> QED
    BY InitInv, StepInv, PTL DEF Spec

\* The types.
THEOREM TypeCorrect == Spec => []TypeOK
<1>1. IInv => TypeOK
    BY DEF IInv
<1> QED
    BY <1>1, Invariant, PTL

\* What the counts say of the mails behind them.
THEOREM TriggersReal == Spec => []TriggersAreReal
<1>1. IInv => TriggersAreReal
    <2> SUFFICES ASSUME IInv, pc = "commit", lastSeen # None, lastSeen.folder = seen.folder
                 PROVE  /\ "unread_new" \in Fired => seen.uids \ lastSeen.uids # {}
                        /\ "inbox_zero" \in Fired <=> lastSeen.uids # {} /\ seen.uids = {}
                        /\ lastSeen.uids \subseteq seen.uids /\ lastSeen.uids # seen.uids
                                => "unread_new" \in Fired
        BY DEF TriggersAreReal
    <2> DEFINE now == seen.uids
               before == lastSeen.uids
    <2>1. /\ previous = Cardinality(before) /\ count = Cardinality(now)
          /\ previous # None
          /\ seen.folder \in Folders
          /\ now \subseteq Uids(seen.folder) /\ before \subseteq Uids(seen.folder)
        BY DEF IInv, CountInv, SnapshotInv, Search
    <2>2. /\ IsFiniteSet(now) /\ IsFiniteSet(before)
          /\ Cardinality(now) \in Nat /\ Cardinality(before) \in Nat
        BY <2>1, NewestIsOne
    <2>3. /\ "unread_new" \in Fired <=> Cardinality(now) > Cardinality(before)
          /\ "inbox_zero" \in Fired <=> Cardinality(before) > 0 /\ Cardinality(now) = 0
        BY <2>1, <2>2 DEF Fired, DetectTransitions, TriggerType
    <2> HIDE DEF now, before
    <2>4. now \subseteq before => ~(Cardinality(now) > Cardinality(before))
        BY <2>2, FS_Subset
    <2>5. before \subseteq now /\ before # now => Cardinality(now) > Cardinality(before)
        BY <2>2, FS_Subset
    <2>6. (Cardinality(now) = 0 <=> now = {}) /\ (Cardinality(before) = 0 <=> before = {})
        BY <2>2, FS_EmptySet
    <2>7. Cardinality(before) > 0 <=> before # {}
        BY <2>2, <2>6
    <2>8. "unread_new" \in Fired => now \ before # {}
        BY <2>3, <2>4
    <2>9. "inbox_zero" \in Fired <=> before # {} /\ now = {}
        BY <2>3, <2>6, <2>7
    <2>10. before \subseteq now /\ before # now => "unread_new" \in Fired
        BY <2>3, <2>5
    <2> QED
        BY <2>8, <2>9, <2>10 DEF now, before
<1> QED
    BY <1>1, Invariant, PTL

\* The gate decides about the newest unread mail.
THEOREM VerdictCorrect == Spec => []VerdictIsMails
<1>1. IInv => VerdictIsMails
    <2> SUFFICES ASSUME IInv, NEW c \in Chains, pc = "dispatch", verdict[c] # "none",
                        ~moved, header # None,
                        ChainNeedsBody(chain[c].gate) => body # None
                 PROVE  verdict[c] = "run" <=>
                            /\ minute \in Allowed(chain[c].gate)
                            /\ Accepts(chain[c].gate, Content[seen.folder][latest])
        BY DEF VerdictIsMails
    <2> DEFINE gate == chain[c].gate
               mail == Content[seen.folder][latest]
    <2>1. gate \in GateColumns /\ minute \in Minutes /\ body \in Texts \cup {None}
        BY RowAssumption DEF IInv, TypeOK
    <2>2. /\ seen.folder \in Folders /\ latest \in Uids(seen.folder)
          /\ header = [sender |-> mail.sender, subject |-> mail.subject]
          /\ body \in {mail.body, None}
        BY DEF IInv, SnapshotInv, Search
    <2>3. mail \in Mail
        BY <2>2, MailFacts
    <2>4. verdict[c] = "run" <=> Passes(c)
        BY DEF IInv, SnapshotInv
    <2>5. Passes(c) <=> /\ IsWithinTimeWindow(gate, minute)
                        /\ MatchesConditions(gate, mail.sender, mail.subject, body)
        BY <2>2 DEF Passes
    <2> HIDE DEF gate, mail
    <2>6. IsWithinTimeWindow(gate, minute) <=> minute \in Allowed(gate)
        BY <2>1, WindowIsAllowed
    <2>7. ChainNeedsBody(gate) => body # None
        BY DEF gate
    <2>8. MatchesConditions(gate, mail.sender, mail.subject, body) <=> Accepts(gate, mail)
        BY <2>1, <2>2, <2>3, <2>7, ConditionsAccept
    <2>9. verdict[c] = "run" <=> minute \in Allowed(gate) /\ Accepts(gate, mail)
        BY <2>4, <2>5, <2>6, <2>8
    <2> QED
        BY <2>9 DEF gate, mail
<1> QED
    BY <1>1, Invariant, PTL

\* What is printed is the mail that triggered the chain.
THEOREM PrintsRightMail == Spec => []PrintsTriggeringMail
<1>1. IInv => PrintsTriggeringMail
    <2> SUFFICES ASSUME IInv, NEW c \in Chains, printed[c] # None, ~thread[c].moved
                 PROVE  printed[c] = thread[c].mail
        BY DEF PrintsTriggeringMail
    <2>1. thread[c].stage = "end"
        BY DEF IInv, ThreadInv
    <2> QED
        BY <2>1 DEF IInv, ThreadInv
<1> QED
    BY <1>1, Invariant, PTL
=============================================================================
