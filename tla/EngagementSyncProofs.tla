------------------------ MODULE EngagementSyncProofs ------------------------
(***************************************************************************)
(* Proofs about EngagementSync, for any number of changes, fetches, saves  *)
(* and faults, and any event types besides its own.                        *)
(***************************************************************************)
EXTENDS EngagementSync, EventPortsProofs, WellFoundedInduction

-----------------------------------------------------------------------------
(* From a change of a row to the page that shows it.                       *)

\* A request in flight, and one that is where in the queue of requests.
FetchRequest == [table : Tables, read : Version \cup {Unread}]
IsLast(i, S) == i \in S /\ \A j \in S : j <= i

\* What NothingForgotten says of one table.
Known(t) == WillShow(t) \in {db[t], Unread} \/ Announced(t) \/ t \in forgotten

\* The events on their way to the page announce changes of its tables.
TableEvent == [type : {TableChange}, data : Tables]
WireKnown  == \A i \in DOMAIN sources : sources[i].wire \in Seq(TableEvent)

\* A page that shows tables has the listener that keeps them up to date.
Listening == currentUser => TableChange \in decoders

-----------------------------------------------------------------------------
(* Sequences of requests.                                                  *)

\* A set of positions has a last one.
LEMMA LastExists ==
    ASSUME NEW n \in Nat, NEW S \in SUBSET (1 .. n), S # {}
    PROVE  \E i \in S : IsLast(i, S)
  <1> DEFINE T == {n - i : i \in S}
  <1>1. \A i \in S : i \in Nat /\ n - i \in Nat
    OBVIOUS
  <1>2. T \subseteq Nat /\ T # {}
    BY <1>1
  <1>3. PICK m \in T : \A y \in T : ~ (<<y, m>> \in OpToRel(<, Nat))
    BY <1>2, WFMin, NatLessThanWellFounded
  <1>4. ASSUME NEW y \in T PROVE ~ (y < m)
    BY <1>2, <1>3 DEF OpToRel
  <1>5. PICK i \in S : m = n - i
    OBVIOUS
  <1>6. ASSUME NEW j \in S PROVE j <= i
    <2>1. n - j \in T
      OBVIOUS
    <2>2. ~ (n - j < n - i)
      BY <1>4, <1>5, <2>1
    <2>3. i \in Nat /\ j \in Nat
      OBVIOUS
    <2> HIDE DEF T
    <2> QED
      BY <2>2, <2>3
  <1> QED
    BY <1>6 DEF IsLast

\* What is left when a request is taken out of its place.
LEMMA RemoveAtProperties ==
    ASSUME NEW S, NEW s \in Seq(S), NEW i \in 1 .. Len(s)
    PROVE  /\ RemoveAt(s, i) \in Seq(S)
           /\ Len(RemoveAt(s, i)) = Len(s) - 1
           /\ \A j \in 1 .. Len(s) - 1 : RemoveAt(s, i)[j] = IF j < i THEN s[j] ELSE s[j + 1]
  <1> DEFINE a == SubSeq(s, 1, i - 1)
             b == SubSeq(s, i + 1, Len(s))
             n == Len(s)
  <1>1. n \in Nat /\ i \in Nat /\ 1 <= i /\ i <= n /\ \A j \in 1 .. n : s[j] \in S
    OBVIOUS
  <1>2. /\ a \in Seq(S) /\ Len(a) = i - 1
        /\ \A j \in 1 .. i - 1 : a[j] = s[j]
    <2>1. \A j \in 1 .. i - 1 : s[j] \in S /\ 1 + j - 1 = j
      BY <1>1
    <2>2. a \in Seq(S) /\ Len(a) = IF 1 <= i - 1 THEN i - 1 - 1 + 1 ELSE 0
      BY <1>1, <2>1, SubSeqProperties
    <2>3. \A j \in 1 .. i - 1 - 1 + 1 : a[j] = s[1 + j - 1]
      BY <1>1, <2>1, SubSeqProperties
    <2> QED
      BY <1>1, <2>1, <2>2, <2>3
  <1>3. /\ b \in Seq(S) /\ Len(b) = n - i
        /\ \A j \in 1 .. n - i : b[j] = s[i + j]
    <2>1. \A j \in i + 1 .. n : s[j] \in S
      BY <1>1
    <2>2. b \in Seq(S) /\ Len(b) = IF i + 1 <= n THEN n - (i + 1) + 1 ELSE 0
      BY <1>1, <2>1, SubSeqProperties
    <2>3. \A j \in 1 .. n - (i + 1) + 1 : b[j] = s[i + 1 + j - 1]
      BY <1>1, <2>1, SubSeqProperties
    <2> QED
      BY <1>1, <2>2, <2>3
  <1> HIDE DEF a, b
  <1>4. /\ a \o b \in Seq(S) /\ Len(a \o b) = Len(a) + Len(b)
        /\ \A j \in 1 .. Len(a) + Len(b) :
              (a \o b)[j] = IF j <= Len(a) THEN a[j] ELSE b[j - Len(a)]
    BY <1>2, <1>3, ConcatProperties
  <1>5. Len(a) + Len(b) = n - 1
    BY <1>1, <1>2, <1>3
  <1>6. ASSUME NEW j \in 1 .. n - 1
        PROVE  (a \o b)[j] = IF j < i THEN s[j] ELSE s[j + 1]
    <2>1. (a \o b)[j] = IF j <= i - 1 THEN a[j] ELSE b[j - (i - 1)]
      BY <1>2, <1>4, <1>5
    <2>2. CASE j < i
      BY <1>1, <1>2, <2>1, <2>2
    <2>3. CASE ~ (j < i)
      <3>1. j - (i - 1) \in 1 .. n - i /\ i + (j - (i - 1)) = j + 1 /\ ~ (j <= i - 1)
        BY <1>1, <2>3
      <3> QED
        BY <1>3, <2>1, <2>3, <3>1
    <2> QED
      BY <2>2, <2>3
  <1>7. RemoveAt(s, i) = a \o b
    BY DEF RemoveAt, a, b
  <1> QED
    BY <1>4, <1>5, <1>6, <1>7

\* Of a set of positions that has a last one, WillShow chooses it.
LEMMA LastIsChosen ==
    ASSUME NEW S \in SUBSET Nat, NEW i, IsLast(i, S)
    PROVE  (CHOOSE k \in S : \A j \in S : j <= k) = i
  <1> DEFINE c == CHOOSE k \in S : \A j \in S : j <= k
  <1>1. c \in S /\ \A j \in S : j <= c
    BY DEF IsLast
  <1>2. c <= i /\ i <= c /\ c \in Nat /\ i \in Nat
    BY <1>1 DEF IsLast
  <1> QED
    BY <1>2

LEMMA LastRequest ==
    ASSUME fetches \in Seq(FetchRequest), NEW t, NEW S, S \subseteq Fetching(t), S # {}
    PROVE  \E i \in S : IsLast(i, S)
  <1>1. Len(fetches) \in Nat /\ S \subseteq 1 .. Len(fetches)
    BY DEF Fetching
  <1> QED
    BY <1>1, LastExists

\* The last request for a table is the one whose answer will be shown.
LEMMA LastIsShown ==
    ASSUME fetches \in Seq(FetchRequest), NEW t, NEW i, IsLast(i, Fetching(t))
    PROVE  WillShow(t) = fetches[i].read
  <1>1. Fetching(t) \subseteq Nat /\ Fetching(t) # {}
    BY DEF Fetching, IsLast
  <1> QED
    BY <1>1, LastIsChosen DEF WillShow

LEMMA LastIsShownNext ==
    ASSUME fetches' \in Seq(FetchRequest), NEW t, NEW i, IsLast(i, Fetching(t)')
    PROVE  WillShow(t)' = fetches'[i].read
  <1>1. Fetching(t)' \subseteq Nat /\ Fetching(t)' # {}
    BY DEF Fetching, IsLast
  <1> QED
    BY <1>1, LastIsChosen DEF WillShow

\* When a request is answered, the last of the others is the one whose answer
\* will be shown, and without others it is its own.
LEMMA AfterAnswer ==
    ASSUME fetches \in Seq(FetchRequest), NEW i \in DOMAIN fetches,
           fetches' = RemoveAt(fetches, i), NEW t
    PROVE  /\ fetches' \in Seq(FetchRequest)
           /\ Fetching(t) \subseteq {i} => WillShow(t)' = shown'[t]
           /\ \A k : IsLast(k, Fetching(t) \ {i}) => WillShow(t)' = fetches[k].read
  <1> DEFINE n == Len(fetches)
  <1>1. n \in Nat /\ i \in 1 .. n /\ DOMAIN fetches = 1 .. n
    OBVIOUS
  <1>2. /\ fetches' \in Seq(FetchRequest) /\ Len(fetches') = n - 1
        /\ \A j \in 1 .. n - 1 :
              fetches'[j] = IF j < i THEN fetches[j] ELSE fetches[j + 1]
    BY <1>1, RemoveAtProperties
  <1>3. DOMAIN fetches' = 1 .. n - 1
    BY <1>2
  <1>4. \A j \in Fetching(t)' :
            \/ j < i /\ j \in Fetching(t) \ {i}
            \/ ~ (j < i) /\ j + 1 \in Fetching(t) \ {i}
    <2> SUFFICES ASSUME NEW j \in 1 .. n - 1, fetches'[j].table = t
                 PROVE  \/ j < i /\ j \in Fetching(t) \ {i}
                        \/ ~ (j < i) /\ j + 1 \in Fetching(t) \ {i}
      BY <1>3 DEF Fetching
    <2>1. CASE j < i
      BY <1>1, <1>2, <2>1 DEF Fetching
    <2>2. CASE ~ (j < i)
      <3>1. j + 1 \in 1 .. n /\ j + 1 # i
        BY <1>1, <2>2
      <3>2. fetches[j + 1].table = t
        BY <1>2, <2>2
      <3> QED
        BY <1>1, <2>2, <3>1, <3>2 DEF Fetching
    <2> QED
      BY <2>1, <2>2
  <1>5. ASSUME Fetching(t) \subseteq {i} PROVE WillShow(t)' = shown'[t]
    BY <1>4, <1>5 DEF WillShow
  <1>6. ASSUME NEW k, IsLast(k, Fetching(t) \ {i}) PROVE WillShow(t)' = fetches[k].read
    <2> DEFINE m == IF k < i THEN k ELSE k - 1
    <2>1. k \in 1 .. n /\ k # i /\ fetches[k].table = t
          /\ \A j \in Fetching(t) \ {i} : j <= k
      BY <1>1, <1>6 DEF IsLast, Fetching
    <2>2. m \in 1 .. n - 1 /\ (k < i => m < i) /\ (~ (k < i) => ~ (m < i) /\ m + 1 = k)
      BY <1>1, <2>1
    <2>3. fetches'[m] = fetches[k]
      BY <1>2, <2>2
    <2>4. m \in Fetching(t)'
      BY <1>3, <2>1, <2>2, <2>3 DEF Fetching
    <2>5. ASSUME NEW j \in Fetching(t)' PROVE j <= m
      <3>1. j \in 1 .. n - 1
        BY <1>3 DEF Fetching
      <3>2. \/ j < i /\ j <= k
            \/ ~ (j < i) /\ j + 1 <= k
        BY <1>4, <2>1
      <3> QED
        BY <1>1, <2>1, <3>1, <3>2
    <2> HIDE DEF m
    <2>6. IsLast(m, Fetching(t)')
      BY <2>4, <2>5 DEF IsLast
    <2> QED
      BY <1>2, <2>3, <2>6, LastIsShownNext
  <1> QED
    BY <1>2, <1>5, <1>6
-----------------------------------------------------------------------------
(* The types.                                                              *)

\* With what bounds the saves: none is sent while as many are on their way.
SyncTypes ==
    /\ SyncTypeOK
    /\ posts + replies["success"] + replies["failure"] <= MaxPosts

LEMMA TablesKnown == Tables = Payloads /\ Triggered \subseteq Tables
  BY SyncAssumption DEF Tables, Triggered

\* One element less, one element more.
LEMMA ShorterQueue ==
    ASSUME NEW S, NEW s \in Seq(S), s # <<>>
    PROVE  /\ Head(s) \in S /\ Tail(s) \in Seq(S)
           /\ Len(Tail(s)) = Len(s) - 1
           /\ \A j \in 1 .. Len(s) - 1 : Tail(s)[j] = s[j + 1]
  OBVIOUS

\* A commit keeps the types.
LEMMA CommitTypes ==
    ASSUME SyncTypeOK, NEW t \in Tables, Commit(t)
    PROVE  /\ db' \in [Tables -> Version] /\ bridge' \in Seq(Tables)
           /\ forgotten' \subseteq Tables /\ UNCHANGED <<bridgeUp, queue, bound>>
  <1>1. db[t] \in Version /\ db[t] < MaxChanges
    BY DEF Commit, SyncTypeOK
  <1>2. db[t] + 1 \in Version
    BY <1>1, SyncAssumption DEF Version
  <1>3. Append(bridge, t) \in Seq(Tables)
    BY AppendProperties DEF SyncTypeOK
  <1> QED
    BY <1>2, <1>3 DEF Commit, SyncTypeOK

\* An answer to a request, or none.
LEMMA AnswerTypes ==
    ASSUME SyncTypes, NEW i \in DOMAIN fetches, Read(i) \/ OnFetch(i) \/ FetchFails(i)
    PROVE  SyncTypes'
  <1>1. /\ fetches \in Seq(FetchRequest) /\ fetches[i] \in FetchRequest /\ i \in 1 .. Len(fetches)
        /\ fetches[i].table \in Tables /\ fetches[i].read \in Version \cup {Unread}
    <2>1. fetches \in Seq(FetchRequest)
      BY DEF SyncTypes, SyncTypeOK, FetchRequest
    <2>2. fetches[i] \in FetchRequest /\ i \in 1 .. Len(fetches)
      BY <2>1
    <2> QED
      BY <2>1, <2>2 DEF FetchRequest
  <1>2. CASE Read(i)
    <2>1. db[fetches[i].table] \in Version
      BY <1>1 DEF SyncTypes, SyncTypeOK
    <2> DEFINE f == [fetches[i] EXCEPT !.read = db[fetches[i].table]]
    <2>2. f \in FetchRequest
      BY <1>1, <2>1 DEF FetchRequest
    <2>3. fetches' = [fetches EXCEPT ![i] = f]
      BY <1>2 DEF Read
    <2> HIDE DEF f
    <2>4. fetches' \in Seq(FetchRequest)
      BY <1>1, <2>2, <2>3, ExceptSeq
    <2> QED
      BY <1>2, <2>4 DEF Read, SyncTypes, SyncTypeOK, FetchRequest, dbVars, postVars, auxVars
  <1>3. CASE OnFetch(i)
    <2>1. fetches' \in Seq(FetchRequest)
      BY <1>1, <1>3, RemoveAtProperties DEF OnFetch
    <2>2. shown' \in [Tables -> Version \cup {NotShown}] /\ forgotten' \subseteq Tables
      BY <1>1, <1>3 DEF OnFetch, SyncTypes, SyncTypeOK
    <2> QED
      BY <1>3, <2>1, <2>2 DEF OnFetch, SyncTypes, SyncTypeOK, FetchRequest, dbVars, postVars
  <1>4. CASE FetchFails(i)
    <2>1. fetches' \in Seq(FetchRequest)
      BY <1>1, <1>4, RemoveAtProperties DEF FetchFails
    <2>2. shown' \in [Tables -> Version \cup {NotShown}] /\ forgotten' \subseteq Tables
      BY <1>1, <1>4 DEF FetchFails, SyncTypes, SyncTypeOK
    <2>3. faults' \in 0 .. MaxFaults
      BY <1>4, SyncAssumption DEF FetchFails, Fault, SyncTypes, SyncTypeOK
    <2> QED
      BY <1>4, <2>1, <2>2, <2>3
      DEF FetchFails, SyncTypes, SyncTypeOK, FetchRequest, dbVars, postVars
  <1> QED
    BY <1>2, <1>3, <1>4

\* The way from the row to the clients, and what is lost on it.
LEMMA DeliverTypes ==
    ASSUME SyncTypes, Deliver \/ BridgeLost \/ QueueLost
    PROVE  SyncTypes'
  <1> USE DEF SyncTypes, SyncTypeOK, dbVars, modelVars, postVars, auxVars
  <1>1. CASE Publish
    <2>1. Head(bridge) \in Tables /\ Tail(bridge) \in Seq(Tables)
      BY <1>1, ShorterQueue DEF Publish
    <2>2. Append(queue, Head(bridge)) \in Seq(Tables)
      BY <2>1, AppendProperties
    <2> QED
      BY <1>1, <2>1, <2>2 DEF Publish
  <1>2. CASE Broadcast
    BY <1>2, ShorterQueue DEF Broadcast
  <1>3. CASE Dial
    BY <1>3 DEF Dial
  <1>4. CASE BridgeReturns
    BY <1>4 DEF BridgeReturns
  <1>5. ASSUME NEW s \in Seq(Tables) PROVE ToSet(s) \subseteq Tables
    BY DEF ToSet
  <1>6. CASE BridgeLost
    <2>1. faults' \in 0 .. MaxFaults
      BY <1>6, SyncAssumption DEF BridgeLost, Fault
    <2>2. ToSet(bridge) \subseteq Tables
      BY <1>5
    <2>3. <<>> \in Seq(Tables)
      OBVIOUS
    <2> QED
      BY <1>6, <2>1, <2>2, <2>3 DEF BridgeLost
  <1>7. CASE QueueLost
    <2>1. faults' \in 0 .. MaxFaults
      BY <1>7, SyncAssumption DEF QueueLost, Fault
    <2>2. ToSet(queue) \subseteq Tables
      BY <1>5
    <2>3. <<>> \in Seq(Tables)
      OBVIOUS
    <2> QED
      BY <1>7, <2>1, <2>2, <2>3 DEF QueueLost
  <1> QED
    BY <1>1, <1>2, <1>3, <1>4, <1>6, <1>7 DEF Deliver

\* Saves and their answers.
LEMMA SaveTypes ==
    ASSUME SyncTypes, Save \/ OnChangeEngagement
    PROVE  SyncTypes'
  <1> USE DEF SyncTypes, SyncTypeOK, dbVars, modelVars, postVars, auxVars
  <1>1. replies["success"] \in 0 .. MaxPosts /\ replies["failure"] \in 0 .. MaxPosts
        /\ posts \in 0 .. MaxPosts /\ MaxPosts \in Nat
    BY SyncAssumption
  <1>2. CASE OnChangeEngagement
    BY <1>1, <1>2 DEF OnChangeEngagement
  <1>3. CASE ServePost
    <2>1. /\ db' \in [Tables -> Version] /\ bridge' \in Seq(Tables)
          /\ forgotten' \subseteq Tables /\ UNCHANGED <<bridgeUp, queue, bound>>
      <3>1. "engagement" \in Tables
        BY DEF Tables
      <3>2. CASE Commit("engagement")
        BY <3>1, <3>2, CommitTypes
      <3>3. CASE UNCHANGED <<dbVars, forgotten>>
        BY <3>3
      <3> QED
        BY <1>3, <3>2, <3>3 DEF ServePost
    <2>2. /\ posts' \in 0 .. MaxPosts
          /\ replies' \in [{"success", "failure"} -> 0 .. MaxPosts]
          /\ posts' + replies'["success"] + replies'["failure"] <= MaxPosts
      <3>1. posts > 0 /\ posts' = posts - 1
        BY <1>3 DEF ServePost
      <3>2. PICK r \in {"success", "failure"} : replies' = [replies EXCEPT ![r] = @ + 1]
        BY <1>3 DEF ServePost
      <3> QED
        BY <1>1, <3>1, <3>2
    <2> QED
      BY <1>3, <2>1, <2>2 DEF ServePost
  <1>4. ASSUME NEW r \in {"success", "failure"}, OnSubmitEngagementResponse(r)
        PROVE  SyncTypes'
    BY <1>1, <1>4 DEF OnSubmitEngagementResponse
  <1> QED
    BY <1>2, <1>3, <1>4 DEF Save

\* What the page does.
LEMMA PageTypes ==
    ASSUME SyncTypes, TypeOK, Page, \A i \in DOMAIN sources : \A k \in DOMAIN sources[i].wire :
               sources[i].wire[k].data \in Tables
    PROVE  SyncTypes'
  <1> USE DEF SyncTypes, SyncTypeOK, dbVars, modelVars, postVars, auxVars, syncVars
  <1>1. CASE LoadPage
    BY <1>1 DEF LoadPage
  <1>2. CASE CarryOutCommand
    BY <1>2 DEF CarryOutCommand
  <1>3. CASE Subscribe
    BY <1>3 DEF Subscribe
  <1>4. ASSUME NEW t \in Tables
        PROVE  Fetch(t) \in [table : Tables, read : Version \cup {Unread}]
    BY DEF Fetch
  <1>5. CASE OnFetchCurrentUser
    <2>1. Fetch("engagement") \in [table : Tables, read : Version \cup {Unread}]
          /\ Fetch("user") \in [table : Tables, read : Version \cup {Unread}]
      BY <1>4 DEF Tables
    <2> HIDE DEF Fetch
    <2>2. fetches' \in Seq([table : Tables, read : Version \cup {Unread}])
      BY <1>5, <2>1 DEF OnFetchCurrentUser
    <2> QED
      BY <1>5, <2>2 DEF OnFetchCurrentUser
  <1>6. ASSUME NEW i \in DOMAIN sources, OnSSETableChange(i) PROVE SyncTypes'
    <2>1. sources[i].wire \in Seq(Event) /\ sources[i].wire # <<>>
      <3>1. sources[i] \in Source
        BY DEF TypeOK
      <3> QED
        BY <1>6, <3>1 DEF Source, OnSSETableChange
    <2>2. Head(sources[i].wire).data \in Tables
      <3>1. 1 \in DOMAIN sources[i].wire /\ Head(sources[i].wire) = sources[i].wire[1]
        BY <2>1
      <3> QED
        BY <3>1
    <2>3. fetches' \in Seq([table : Tables, read : Version \cup {Unread}])
      BY <1>4, <1>6, <2>2, AppendProperties DEF OnSSETableChange
    <2> QED
      BY <1>6, <2>3 DEF OnSSETableChange
  <1> QED
    BY <1>1, <1>2, <1>3, <1>5, <1>6 DEF Page

LEMMA SyncTypesStep ==
    ASSUME SyncTypes, TypeOK, [Next]_vars,
           WireKnown
    PROVE  SyncTypes'
  <1>0. \A i \in DOMAIN sources : \A k \in DOMAIN sources[i].wire :
            sources[i].wire[k].data \in Tables
    <2> SUFFICES ASSUME NEW i \in DOMAIN sources, NEW k \in DOMAIN sources[i].wire
                 PROVE  sources[i].wire[k].data \in Tables
      OBVIOUS
    <2>1. sources[i].wire \in Seq(TableEvent)
      BY DEF WireKnown
    <2>2. sources[i].wire[k] \in TableEvent
      BY <2>1
    <2> QED
      BY <2>2 DEF TableEvent
  <1>1. ASSUME NEW t \in Tables, RowChange(t) PROVE SyncTypes'
    BY <1>1, CommitTypes DEF RowChange, SyncTypes, SyncTypeOK, modelVars, postVars
  <1>2. CASE Deliver \/ BridgeLost \/ QueueLost
    BY <1>2, DeliverTypes
  <1>3. CASE Page
    BY <1>0, <1>3, PageTypes
  <1>4. CASE Answer \/ \E i \in DOMAIN fetches : FetchFails(i)
    BY <1>4, AnswerTypes DEF Answer
  <1>5. CASE Save \/ OnChangeEngagement
    BY <1>5, SaveTypes
  <1>6. ASSUME NEW i \in DOMAIN sources, ConnectionLost(i) PROVE SyncTypes'
    <2>1. OnWire(i) \subseteq Tables
      BY <1>0 DEF OnWire, ToSet
    <2> QED
      BY <1>6, <2>1 DEF ConnectionLost, SyncTypes, SyncTypeOK, dbVars, modelVars, postVars
  <1>7. CASE UNCHANGED vars
    BY <1>7 DEF vars, SyncTypes, SyncTypeOK, syncVars, dbVars, modelVars, postVars, auxVars
  <1> QED
    BY <1>1, <1>2, <1>3, <1>4, <1>5, <1>6, <1>7 DEF Next, Faulty
-----------------------------------------------------------------------------
(* The page as a user of EventPorts.                                       *)

LEMMA PortsStep ==
    ASSUME SyncTypes, [Next]_vars
    PROVE  [NextPorts]_portVars
  <1>1. CASE Broadcast
    <2> DEFINE e == [type |-> TableChange, data |-> Head(queue)]
    <2>1. queue \in Seq(Tables) /\ queue # <<>>
      BY <1>1 DEF Broadcast, SyncTypes, SyncTypeOK
    <2>2. Head(queue) \in Tables
      BY <2>1, ShorterQueue
    <2>3. e \in Event
      BY <2>2, TablesKnown, SyncAssumption DEF Event
    <2> QED
      BY <1>1, <2>3 DEF Broadcast, NextPorts
  <1>2. CASE OnFetchCurrentUser
    BY <1>2, SyncAssumption DEF OnFetchCurrentUser, NextPorts, Call
  <1>3. CASE LoadPage \/ CarryOutCommand \/ Subscribe
    BY <1>3 DEF LoadPage, CarryOutCommand, Subscribe, NextPorts, Browser
  <1>4. ASSUME NEW i \in DOMAIN sources, OnSSETableChange(i) \/ ConnectionLost(i)
        PROVE  NextPorts
    BY <1>4 DEF OnSSETableChange, ConnectionLost, NextPorts, Browser
  <1>5. CASE UNCHANGED portVars
    BY <1>5
  <1>6. CASE UNCHANGED vars
    BY <1>6 DEF vars
  <1>7. CASE (\E t \in Tables : RowChange(t)) \/ OnChangeEngagement \/ Answer \/ Save
             \/ BridgeLost \/ QueueLost \/ \E i \in DOMAIN fetches : FetchFails(i)
    BY <1>5, <1>7 DEF RowChange, OnChangeEngagement, Answer, Read, OnFetch, Save,
       ServePost, OnSubmitEngagementResponse, BridgeLost, QueueLost, FetchFails
  <1>8. CASE Publish \/ Dial \/ BridgeReturns
    BY <1>5, <1>8 DEF Publish, Dial, BridgeReturns
  <1> QED
    BY <1>1, <1>2, <1>3, <1>4, <1>6, <1>7, <1>8 DEF Next, Deliver, Page, Faulty

\* What a step does to the wires: the service puts an event at the end of those
\* that are open,
LEMMA BroadcastWires ==
    ASSUME SyncTypes, TypeOK, Broadcast
    PROVE  LET e == [type |-> TableChange, data |-> Head(queue)]
           IN  /\ e \in TableEvent /\ DOMAIN sources' = DOMAIN sources
               /\ \A i \in DOMAIN sources :
                     sources'[i].wire = IF sources[i].link = "open" THEN Append(sources[i].wire, e)
                                        ELSE sources[i].wire
  <1> DEFINE e == [type |-> TableChange, data |-> Head(queue)]
  <1>1. queue \in Seq(Tables) /\ queue # <<>>
    BY DEF Broadcast, SyncTypes, SyncTypeOK
  <1>2. e \in TableEvent
    BY <1>1, ShorterQueue DEF TableEvent
  <1>3. \A i \in DOMAIN sources : sources[i] \in Source
    BY DEF TypeOK
  <1>4. sources' = [i \in DOMAIN sources |->
            IF sources[i].link = "open"
            THEN [sources[i] EXCEPT !.wire = Append(@, e)] ELSE sources[i]]
    BY DEF Broadcast, Emit
  <1> HIDE DEF e
  <1>5. DOMAIN sources' = DOMAIN sources
        /\ \A i \in DOMAIN sources :
              sources'[i].wire = IF sources[i].link = "open" THEN Append(sources[i].wire, e)
                                 ELSE sources[i].wire
    BY <1>3, <1>4 DEF Source
  <1> QED
    BY <1>2, <1>5 DEF e

\* a new EventSource has nothing on its wire,
LEMMA CarryOutWires ==
    ASSUME TypeOK, CarryOutCommand
    PROVE  /\ \A i \in DOMAIN sources : i \in DOMAIN sources' /\ sources'[i].wire = sources[i].wire
           /\ \A i \in DOMAIN sources' \ DOMAIN sources : sources'[i].wire = <<>>
  <1> DEFINE Kept(srcs) ==
               /\ \A i \in DOMAIN sources : i \in DOMAIN srcs /\ srcs[i].wire = sources[i].wire
               /\ \A i \in DOMAIN srcs \ DOMAIN sources : srcs[i].wire = <<>>
  <1>1. PICK c \in commands : CarryOut(c)
    BY DEF CarryOutCommand
  <1>2. c.type \in EventTypes \cup {NoType} /\ sources \in Seq(Source)
    BY DEF TypeOK, Command
  <1>3. CreateNewEventSource \in Seq(Source) /\ CreateNewEventSource # <<>>
        /\ Kept(CreateNewEventSource)
    <2> DEFINE n == [link |-> "connecting", typed |-> {}, onmessage |-> FALSE, wire |-> <<>>]
    <2>1. n.wire = <<>> /\ CreateNewEventSource = Append(sources, n)
      BY DEF CreateNewEventSource
    <2> HIDE DEF n
    <2>2. /\ Len(Append(sources, n)) = Len(sources) + 1
          /\ \A i \in 1 .. Len(sources) : Append(sources, n)[i] = sources[i]
          /\ Append(sources, n)[Len(sources) + 1] = n
      BY <1>2
    <2>3. CreateNewEventSource \in Seq(Source) /\ CreateNewEventSource # <<>>
          /\ Len(CreateNewEventSource) = Len(sources) + 1
      BY <1>2, CreateType
    <2>4. DOMAIN CreateNewEventSource = 1 .. Len(sources) + 1 /\ DOMAIN sources = 1 .. Len(sources)
      BY <1>2, <2>3
    <2> QED
      BY <1>2, <2>1, <2>2, <2>3, <2>4
  <1>4. ASSUME NEW srcs \in Seq(Source), srcs # <<>>, sources' = AddEventHandlers(c.type, srcs),
               Kept(srcs)
        PROVE  Kept(sources')
    <2>1. /\ Len(srcs) \in 1 .. Len(srcs) /\ DOMAIN srcs = 1 .. Len(srcs)
          /\ srcs[Len(srcs)] \in Source
      BY <1>4
    <2>2. DOMAIN sources' = DOMAIN srcs /\ \A i \in DOMAIN srcs : sources'[i].wire = srcs[i].wire
      BY <1>4, <2>1 DEF AddEventHandlers, Source
    <2> QED
      BY <1>4, <2>2
  <1>5. Kept(sources)
    OBVIOUS
  <1>6. \/ UNCHANGED sources
        \/ sources' = AddEventHandlers(c.type, CreateNewEventSource)
        \/ sources # <<>> /\ sources' = AddEventHandlers(c.type, sources)
    BY <1>1, <1>3 DEF CarryOut, DoAddListener, Pruned
  <1>7. Kept(sources')
    <2> HIDE DEF Kept
    <2> QED
      BY <1>2, <1>3, <1>4, <1>5, <1>6
  <1> QED
    BY <1>7

\* and the browser takes the first event of one, or loses all of them.
LEMMA BrowserWires ==
    ASSUME TypeOK, NEW i \in DOMAIN sources,
           Connect(i) \/ Drop(i) \/ GiveUp(i) \/ Dispatch(i)
    PROVE  /\ DOMAIN sources' = DOMAIN sources
           /\ \A j \in DOMAIN sources \ {i} : sources'[j] = sources[j]
           /\ Connect(i) \/ GiveUp(i) => sources'[i].wire = sources[i].wire
           /\ Drop(i) => sources'[i].wire = <<>>
           /\ Dispatch(i) => sources[i].wire # <<>> /\ sources'[i].wire = Tail(sources[i].wire)
  <1>1. sources[i] \in Source
    BY DEF TypeOK
  <1>2. \A l : [sources[i] EXCEPT !.link = l].wire = sources[i].wire
    BY <1>1 DEF Source
  <1>3. \A w : /\ [sources[i] EXCEPT !.link = "connecting", !.wire = w].wire = w
               /\ [sources[i] EXCEPT !.wire = w].wire = w
    BY <1>1 DEF Source
  <1>4. ASSUME Connect(i) \/ GiveUp(i) PROVE sources'[i].wire = sources[i].wire
    <2>1. CASE Connect(i)
      BY <1>2, <2>1 DEF Connect
    <2>2. CASE GiveUp(i)
      BY <1>2, <2>2 DEF GiveUp
    <2> QED
      BY <1>4, <2>1, <2>2
  <1>5. ASSUME Drop(i) PROVE sources'[i].wire = <<>>
    BY <1>3, <1>5 DEF Drop
  <1>6. ASSUME Dispatch(i)
        PROVE  sources[i].wire # <<>> /\ sources'[i].wire = Tail(sources[i].wire)
    BY <1>3, <1>6 DEF Dispatch
  <1>7. /\ DOMAIN sources' = DOMAIN sources
        /\ \A j \in DOMAIN sources \ {i} : sources'[j] = sources[j]
    BY DEF Connect, Drop, GiveUp, Dispatch
  <1> QED
    BY <1>4, <1>5, <1>6, <1>7

\* All else leaves the EventSources as they are.
LEMMA SourcesKept ==
    ASSUME [Next]_vars, ~ Broadcast, ~ CarryOutCommand,
           \A i \in DOMAIN sources : ~ (Connect(i) \/ Drop(i) \/ GiveUp(i) \/ Dispatch(i))
    PROVE  UNCHANGED sources
  <1>1. CASE LoadPage \/ OnFetchCurrentUser
    BY <1>1 DEF LoadPage, Load, OnFetchCurrentUser, WithListener, Called, sourceVars
  <1>2. CASE Publish \/ Dial \/ BridgeReturns
    BY <1>2 DEF Publish, Dial, BridgeReturns, portVars, sourceVars
  <1>3. CASE (\E t \in Tables : RowChange(t)) \/ OnChangeEngagement \/ Answer \/ Save
             \/ BridgeLost \/ QueueLost \/ \E i \in DOMAIN fetches : FetchFails(i)
    BY <1>3 DEF RowChange, OnChangeEngagement, Answer, Read, OnFetch, Save,
       ServePost, OnSubmitEngagementResponse, BridgeLost, QueueLost, FetchFails,
       portVars, sourceVars
  <1>4. CASE UNCHANGED vars
    BY <1>4 DEF vars, portVars, sourceVars
  <1> QED
    BY <1>1, <1>2, <1>3, <1>4
    DEF Next, Deliver, Page, Faulty, Subscribe, OnSSETableChange, ConnectionLost

LEMMA WireStep ==
    ASSUME SyncTypes, TypeOK, [Next]_vars, WireKnown
    PROVE  WireKnown'
  <1> DEFINE W == Seq(TableEvent)
  <1>1. <<>> \in W /\ \A i \in DOMAIN sources : sources[i].wire \in W
    BY DEF WireKnown
  <1>2. \A w \in W : w # <<>> => Tail(w) \in W
    BY ShorterQueue
  <1>3. CASE Broadcast
    <2> DEFINE e == [type |-> TableChange, data |-> Head(queue)]
    <2>1. \A i \in DOMAIN sources : Append(sources[i].wire, e) \in W
      BY <1>1, <1>3, BroadcastWires, AppendProperties
    <2> QED
      BY <1>1, <1>3, <2>1, BroadcastWires DEF WireKnown
  <1>4. CASE CarryOutCommand
    BY <1>1, <1>4, CarryOutWires DEF WireKnown
  <1>5. ASSUME NEW i \in DOMAIN sources, Connect(i) \/ Drop(i) \/ GiveUp(i) \/ Dispatch(i)
        PROVE  WireKnown'
    <2> HIDE DEF W
    <2>1. sources'[i].wire \in W
      BY <1>1, <1>2, <1>5, BrowserWires
    <2>2. DOMAIN sources' = DOMAIN sources
          /\ \A j \in DOMAIN sources \ {i} : sources'[j].wire \in W
      BY <1>1, <1>5, BrowserWires
    <2> QED
      BY <2>1, <2>2 DEF WireKnown, W
  <1>6. CASE UNCHANGED sources
    BY <1>1, <1>6 DEF WireKnown
  <1> QED
    BY <1>3, <1>4, <1>5, <1>6, SourcesKept

\* A listener is added before the page shows anything, and never taken away.
LEMMA ListeningStep ==
    ASSUME SyncTypes, [Next]_vars, Listening
    PROVE  Listening'
  <1>1. CASE UNCHANGED <<currentUser, decoders>>
    BY <1>1 DEF Listening
  <1>2. CASE OnFetchCurrentUser
    BY <1>2 DEF OnFetchCurrentUser, WithListener, Called, Listening
  <1>3. CASE Page /\ ~ OnFetchCurrentUser
    BY <1>1, <1>3 DEF Page, LoadPage, Load, CarryOutCommand, CarryOut, Subscribe, Connect,
       OnSSETableChange, Dispatch, syncVars, modelVars, elmVars
  <1>4. CASE Deliver
    BY <1>1, <1>4 DEF Deliver, Publish, Broadcast, Emit, Dial, BridgeReturns,
       modelVars, portVars, elmVars
  <1>5. CASE (\E t \in Tables : RowChange(t)) \/ OnChangeEngagement \/ Answer \/ Save
    BY <1>1, <1>5 DEF RowChange, OnChangeEngagement, Answer, Read, OnFetch, Save,
       ServePost, OnSubmitEngagementResponse, modelVars, portVars, elmVars
  <1>6. CASE Faulty
    BY <1>1, <1>6 DEF Faulty, BridgeLost, QueueLost, FetchFails, ConnectionLost, Drop, GiveUp,
       modelVars, portVars, elmVars
  <1>7. CASE UNCHANGED vars
    BY <1>1, <1>7 DEF vars, portVars, elmVars, syncVars, modelVars
  <1> QED
    BY <1>2, <1>3, <1>4, <1>5, <1>6, <1>7 DEF Next

SyncInv == SyncTypes /\ TypeOK /\ WireKnown /\ Listening

LEMMA SyncInvStep ==
    ASSUME SyncInv, [Next]_vars
    PROVE  SyncInv' /\ [NextPorts]_portVars
  BY PortsStep, TypeStep, SyncTypesStep, WireStep, ListeningStep DEF SyncInv

LEMMA SyncInvInit == Init => SyncInv
  <1> SUFFICES ASSUME Init PROVE SyncInv
    OBVIOUS
  <1>1. TypeOK
    BY InitType DEF Init
  <1>2. SyncTypes
    <2>1. 0 \in Version /\ 0 \in 0 .. MaxPosts /\ 0 \in 0 .. MaxFaults
      BY SyncAssumption DEF Version
    <2>2. <<>> \in Seq(Tables) /\ <<>> \in Seq([table : Tables, read : Version \cup {Unread}])
      OBVIOUS
    <2>3. /\ db \in [Tables -> Version] /\ shown \in [Tables -> Version \cup {NotShown}]
          /\ replies \in [{"success", "failure"} -> 0 .. MaxPosts]
          /\ posts + replies["success"] + replies["failure"] <= MaxPosts
      BY <2>1 DEF Init
    <2> QED
      BY <2>1, <2>2, <2>3 DEF Init, SyncTypes, SyncTypeOK
  <1>3. WireKnown /\ Listening
    BY DEF Init, InitPorts, WireKnown, Listening
  <1> QED
    BY <1>1, <1>2, <1>3 DEF SyncInv

\* The page uses SSE.elm and the browser as EventPorts has them used, so what is
\* proved there of every page holds of this one: what it shows it listens for,
\* on one connection.
THEOREM PageUsesPorts == Spec => SpecPorts
  <1>1. Init => InitPorts
    BY DEF Init
  <1> QED
    BY <1>1, SyncInvInit, SyncInvStep, PTL DEF Spec, SpecPorts

LEMMA SyncInvAlways == Spec => []SyncInv
  BY SyncInvInit, SyncInvStep, PTL DEF Spec
-----------------------------------------------------------------------------
(* Nothing is forgotten.                                                   *)

LEMMA AppendToSet ==
    ASSUME NEW S, NEW s \in Seq(S), NEW e \in S
    PROVE  ToSet(Append(s, e)) = ToSet(s) \cup {e}
  <1>1. /\ Len(Append(s, e)) = Len(s) + 1 /\ Append(s, e)[Len(s) + 1] = e
        /\ \A j \in 1 .. Len(s) : Append(s, e)[j] = s[j]
        /\ Append(s, e) \in Seq(S)
    BY AppendProperties
  <1>2. DOMAIN s = 1 .. Len(s) /\ DOMAIN Append(s, e) = 1 .. Len(s) + 1 /\ Len(s) \in Nat
    BY <1>1
  <1>3. ASSUME NEW x \in ToSet(Append(s, e)) PROVE x \in ToSet(s) \cup {e}
    <2>1. PICK j \in 1 .. Len(s) + 1 : x = Append(s, e)[j]
      BY <1>2 DEF ToSet
    <2>2. CASE j = Len(s) + 1
      BY <1>1, <2>1, <2>2
    <2>3. CASE j # Len(s) + 1
      <3>1. j \in 1 .. Len(s)
        BY <1>2, <2>3
      <3> QED
        BY <1>1, <1>2, <2>1, <3>1 DEF ToSet
    <2> QED
      BY <2>2, <2>3
  <1>4. e \in ToSet(Append(s, e))
    <2>1. Len(s) + 1 \in 1 .. Len(s) + 1
      BY <1>2
    <2> QED
      BY <1>1, <1>2, <2>1 DEF ToSet
  <1>5. ASSUME NEW x \in ToSet(s) PROVE x \in ToSet(Append(s, e))
    <2>1. PICK j \in 1 .. Len(s) : x = s[j]
      BY <1>2 DEF ToSet
    <2>2. j \in 1 .. Len(s) + 1 /\ x = Append(s, e)[j]
      BY <1>1, <1>2, <2>1
    <2> QED
      BY <1>2, <2>2 DEF ToSet
  <1> QED
    BY <1>3, <1>4, <1>5

LEMMA TailToSet ==
    ASSUME NEW S, NEW s \in Seq(S), s # <<>>
    PROVE  ToSet(s) = {Head(s)} \cup ToSet(Tail(s))
  <1>1. /\ Len(s) \in Nat /\ Len(s) >= 1 /\ DOMAIN s = 1 .. Len(s) /\ Head(s) = s[1]
        /\ Tail(s) \in Seq(S) /\ Len(Tail(s)) = Len(s) - 1
        /\ \A j \in 1 .. Len(s) - 1 : Tail(s)[j] = s[j + 1]
    BY ShorterQueue
  <1>2. DOMAIN Tail(s) = 1 .. Len(s) - 1
    BY <1>1
  <1>3. ASSUME NEW x \in ToSet(s) PROVE x \in {Head(s)} \cup ToSet(Tail(s))
    <2>1. PICK j \in 1 .. Len(s) : x = s[j]
      BY <1>1 DEF ToSet
    <2>2. CASE j # 1
      <3>1. j - 1 \in 1 .. Len(s) - 1 /\ (j - 1) + 1 = j
        BY <1>1, <2>2
      <3>2. x = Tail(s)[j - 1]
        BY <1>1, <2>1, <3>1
      <3> QED
        BY <1>2, <3>1, <3>2 DEF ToSet
    <2> QED
      BY <1>1, <2>1, <2>2
  <1>4. Head(s) \in ToSet(s)
    BY <1>1 DEF ToSet
  <1>5. ASSUME NEW x \in ToSet(Tail(s)) PROVE x \in ToSet(s)
    <2>1. PICK j \in 1 .. Len(s) - 1 : x = Tail(s)[j]
      BY <1>2 DEF ToSet
    <2>2. j + 1 \in 1 .. Len(s) /\ x = s[j + 1]
      BY <1>1, <2>1
    <2> QED
      BY <1>1, <2>2 DEF ToSet
  <1> QED
    BY <1>3, <1>4, <1>5

\* The same requests show the same.
LEMMA SameShown ==
    ASSUME fetches \in Seq(FetchRequest), fetches' \in Seq(FetchRequest), NEW t,
           Fetching(t)' = Fetching(t), shown'[t] = shown[t],
           \A j \in Fetching(t) : fetches'[j].read = fetches[j].read
    PROVE  WillShow(t)' = WillShow(t)
  <1>1. CASE Fetching(t) = {}
    BY <1>1 DEF WillShow
  <1>2. CASE Fetching(t) # {}
    <2>1. PICK i \in Fetching(t) : IsLast(i, Fetching(t))
      BY <1>2, LastRequest
    <2>2. IsLast(i, Fetching(t)')
      BY <2>1 DEF IsLast
    <2> QED
      BY <2>1, <2>2, LastIsShown, LastIsShownNext
  <1> QED
    BY <1>1, <1>2

\* What is known of a table stays known while the page's requests are as they
\* were and an announcement is lost only with a note of it.
LEMMA KnownStays ==
    ASSUME SyncInv, SyncInv', NEW t, Known(t), UNCHANGED <<fetches, shown>>, db'[t] = db[t],
           Announced(t) => Announced(t)' \/ t \in forgotten',
           t \in forgotten => t \in forgotten'
    PROVE  Known(t)'
  <1>1. WillShow(t)' = WillShow(t)
    <2>1. fetches \in Seq(FetchRequest) /\ fetches' \in Seq(FetchRequest)
      BY DEF SyncInv, SyncTypes, SyncTypeOK, FetchRequest
    <2> QED
      BY <2>1, SameShown DEF Fetching
  <1> QED
    BY <1>1 DEF Known

\* A change that commits is announced, or noted as lost.
LEMMA CommitKnown ==
    ASSUME SyncInv, SyncInv', NEW u \in Tables, Commit(u), UNCHANGED <<sources, fetches, shown>>,
           NEW t \in Tables, Known(t)
    PROVE  Known(t)'
  <1>1. bridge \in Seq(Tables) /\ db \in [Tables -> Version] /\ UNCHANGED <<queue, sources>>
    BY DEF SyncInv, SyncTypes, SyncTypeOK, Commit
  <1>0. ToSet(Append(bridge, u)) = ToSet(bridge) \cup {u}
    BY <1>1, AppendToSet
  <1>2. ToSet(bridge) \subseteq ToSet(bridge')
    BY <1>0 DEF Commit
  <1>3. Announced(t) => Announced(t)'
    BY <1>1, <1>2 DEF Announced, OnWire
  <1>4. t \in forgotten => t \in forgotten'
    BY DEF Commit
  <1>5. CASE t # u
    <2>1. db'[t] = db[t]
      BY <1>1, <1>5 DEF Commit
    <2> QED
      BY <1>3, <1>4, <2>1, KnownStays
  <1>6. CASE t = u
    <2>1. t \in ToSet(bridge') \/ t \in forgotten'
      BY <1>0, <1>6 DEF Commit
    <2> QED
      BY <2>1 DEF Known, Announced
  <1> QED
    BY <1>5, <1>6

\* On its way an announcement moves on or is noted as lost.
LEMMA DeliverKnown ==
    ASSUME SyncInv, SyncInv', Publish \/ Broadcast \/ BridgeLost \/ QueueLost,
           NEW t \in Tables, Known(t)
    PROVE  Known(t)'
  <1>1. bridge \in Seq(Tables) /\ queue \in Seq(Tables) /\ sources \in Seq(Source)
    BY DEF SyncInv, SyncTypes, SyncTypeOK, TypeOK
  <1>2. CASE Publish
    <2>1. /\ bridge # <<>> /\ bridge' = Tail(bridge) /\ UNCHANGED <<sources, fetches, shown, db>>
          /\ \/ queue' = Append(queue, Head(bridge)) /\ UNCHANGED forgotten
             \/ forgotten' = forgotten \cup {Head(bridge)} /\ UNCHANGED queue
      BY <1>2 DEF Publish, portVars, sourceVars, modelVars
    <2>2. Head(bridge) \in Tables /\ ToSet(bridge) = {Head(bridge)} \cup ToSet(bridge')
      BY <1>1, <2>1, ShorterQueue, TailToSet
    <2>3. \/ ToSet(queue') = ToSet(queue) \cup {Head(bridge)} /\ UNCHANGED forgotten
          \/ forgotten' = forgotten \cup {Head(bridge)} /\ UNCHANGED queue
      <3>1. ToSet(Append(queue, Head(bridge))) = ToSet(queue) \cup {Head(bridge)}
        BY <1>1, <2>2, AppendToSet
      <3> QED
        BY <2>1, <3>1
    <2>4. Announced(t) => Announced(t)' \/ t \in forgotten'
      BY <2>1, <2>2, <2>3 DEF Announced, OnWire
    <2> QED
      BY <2>1, <2>4, KnownStays
  <1>3. CASE Broadcast
    <2> DEFINE e == [type |-> TableChange, data |-> Head(queue)]
    <2>1. /\ queue # <<>> /\ queue' = Tail(queue) /\ UNCHANGED <<bridge, fetches, shown, db>>
          /\ forgotten' = IF Subscribed THEN forgotten ELSE forgotten \cup {Head(queue)}
      BY <1>3 DEF Broadcast, modelVars
    <2>2. ToSet(queue) = {Head(queue)} \cup ToSet(queue')
      BY <1>1, <2>1, TailToSet
    <2>3. e \in TableEvent /\ e.data = Head(queue) /\ DOMAIN sources' = DOMAIN sources
          /\ \A i \in DOMAIN sources :
                sources'[i].wire = IF sources[i].link = "open" THEN Append(sources[i].wire, e)
                                   ELSE sources[i].wire
      BY <1>3, BroadcastWires DEF SyncInv
    <2> HIDE DEF e
    <2>4. \A i \in DOMAIN sources :
              /\ ToSet(sources[i].wire) \subseteq ToSet(sources'[i].wire)
              /\ sources[i].link = "open" => e \in ToSet(sources'[i].wire)
      <3> SUFFICES ASSUME NEW i \in DOMAIN sources
                   PROVE  /\ ToSet(sources[i].wire) \subseteq ToSet(sources'[i].wire)
                          /\ sources[i].link = "open" => e \in ToSet(sources'[i].wire)
        OBVIOUS
      <3>1. sources[i].wire \in Seq(TableEvent)
        BY DEF SyncInv, WireKnown
      <3>2. ToSet(Append(sources[i].wire, e)) = ToSet(sources[i].wire) \cup {e}
        BY <2>3, <3>1, AppendToSet
      <3> QED
        BY <2>3, <3>2
    <2>5. ASSUME NEW u, \E i \in DOMAIN sources : u \in OnWire(i)
          PROVE  \E i \in DOMAIN sources' : u \in OnWire(i)'
      BY <2>3, <2>4, <2>5 DEF OnWire
    <2>6. Subscribed => \E i \in DOMAIN sources' : Head(queue) \in OnWire(i)'
      <3> SUFFICES ASSUME Subscribed PROVE \E i \in DOMAIN sources' : Head(queue) \in OnWire(i)'
        OBVIOUS
      <3>1. Len(sources) \in DOMAIN sources /\ sources[Len(sources)].link = "open"
        BY <1>1 DEF Subscribed, Last
      <3>2. e \in ToSet(sources'[Len(sources)].wire)
        BY <2>4, <3>1
      <3> QED
        BY <2>3, <3>1, <3>2 DEF OnWire
    <2>7. Announced(t) => Announced(t)' \/ t \in forgotten'
      BY <2>1, <2>2, <2>5, <2>6 DEF Announced
    <2> QED
      BY <2>1, <2>7, KnownStays
  <1>4. CASE BridgeLost
    BY <1>4, KnownStays DEF BridgeLost, Announced, OnWire, portVars, sourceVars, modelVars
  <1>5. CASE QueueLost
    BY <1>5, KnownStays DEF QueueLost, Announced, OnWire, portVars, sourceVars, modelVars
  <1> QED
    BY <1>2, <1>3, <1>4, <1>5

\* The page, once its first fetches are sent: an event that reaches it is
\* answered by a fetch, and one that a lost connection takes is noted.
LEMMA PageKnown ==
    ASSUME SyncInv, SyncInv', Heard, OneSource, currentUser,
           Page \/ \E i \in DOMAIN sources : ConnectionLost(i), NEW t \in Tables, Known(t)
    PROVE  Known(t)'
  <1>1. /\ sources \in Seq(Source) /\ fetches \in Seq(FetchRequest)
        /\ fetches' \in Seq(FetchRequest) /\ TypeOK
        /\ \A i \in DOMAIN sources : sources[i].wire \in Seq(TableEvent)
    BY DEF SyncInv, SyncTypes, SyncTypeOK, TypeOK, FetchRequest, WireKnown
  <1>2. ASSUME UNCHANGED <<bridge, queue, fetches, shown, db>>,
               t \in forgotten => t \in forgotten',
               \A i \in DOMAIN sources :
                   t \in OnWire(i) =>
                       (i \in DOMAIN sources' /\ t \in OnWire(i)') \/ t \in forgotten'
        PROVE  Known(t)'
    <2>1. Announced(t) => Announced(t)' \/ t \in forgotten'
      BY <1>2 DEF Announced
    <2> QED
      BY <1>2, <2>1, KnownStays
  <1>3. CASE LoadPage
    BY <1>2, <1>3 DEF LoadPage, Load, sourceVars, syncVars, dbVars, modelVars, auxVars, OnWire
  <1>4. CASE OnFetchCurrentUser
    BY <1>4 DEF OnFetchCurrentUser
  <1>5. CASE CarryOutCommand
    <2>1. UNCHANGED <<bridge, queue, fetches, shown, db, forgotten>>
      BY <1>5 DEF CarryOutCommand, syncVars, dbVars, modelVars, auxVars
    <2>2. \A i \in DOMAIN sources : i \in DOMAIN sources' /\ sources'[i].wire = sources[i].wire
      BY <1>1, <1>5, CarryOutWires
    <2> QED
      BY <1>2, <2>1, <2>2 DEF OnWire
  <1>6. CASE Subscribe
    <2>1. PICK i \in DOMAIN sources : Connect(i)
      BY <1>6 DEF Subscribe
    <2>2. UNCHANGED <<bridge, queue, fetches, shown, db, forgotten>>
      BY <1>6 DEF Subscribe, syncVars, dbVars, modelVars, auxVars
    <2>3. DOMAIN sources' = DOMAIN sources /\ \A j \in DOMAIN sources : sources'[j].wire = sources[j].wire
      BY <1>1, <2>1, BrowserWires
    <2> QED
      BY <1>2, <2>2, <2>3 DEF OnWire
  <1>7. ASSUME NEW i \in DOMAIN sources, ConnectionLost(i) PROVE Known(t)'
    <2>1. /\ UNCHANGED <<bridge, queue, fetches, shown, db>>
          /\ forgotten' = forgotten \cup OnWire(i)
      BY <1>7 DEF ConnectionLost, dbVars, modelVars
    <2>2. DOMAIN sources' = DOMAIN sources
          /\ \A j \in DOMAIN sources \ {i} : sources'[j] = sources[j]
      BY <1>1, <1>7, BrowserWires DEF ConnectionLost
    <2> QED
      BY <1>2, <2>1, <2>2 DEF OnWire
  <1>8. ASSUME NEW i \in DOMAIN sources, OnSSETableChange(i) PROVE Known(t)'
    <2> DEFINE w == sources[i].wire
               e == Head(w)
    <2>1. w \in Seq(TableEvent) /\ w # <<>> /\ Dispatch(i) /\ commands = {}
          /\ UNCHANGED <<bridge, queue, shown, db, forgotten>>
      BY <1>1, <1>8 DEF OnSSETableChange, Dispatch, dbVars, auxVars
    <2>2. e \in TableEvent /\ e.type = TableChange /\ e.data \in Tables /\ e.type # Message
      <3>1. e \in TableEvent
        BY <2>1, ShorterQueue
      <3> HIDE DEF e
      <3> QED
        BY <3>1, SyncAssumption DEF TableEvent
    <2>3. sources[i] = Last(sources)
      <3>1. Len(sources) <= 1 /\ i \in 1 .. Len(sources)
        BY <1>1 DEF OneSource
      <3>2. i = Len(sources)
        BY <1>1, <3>1
      <3> QED
        BY <3>2 DEF Last
    <2>4. TableChange \in decoders /\ TableChange \in sources[i].typed
      BY <2>1, <2>3 DEF SyncInv, Listening, Heard
    <2>5. fetches' = Append(fetches, Fetch(e.data))
      <3>1. Decoded(sources[i], e)
        BY <2>2, <2>4 DEF Decoded
      <3> QED
        BY <1>8, <3>1 DEF OnSSETableChange
    <2>6. DOMAIN sources' = DOMAIN sources /\ sources'[i].wire = Tail(w)
          /\ \A j \in DOMAIN sources \ {i} : sources'[j] = sources[j]
      BY <1>1, <2>1, BrowserWires
    <2>7. ToSet(w) = {e} \cup ToSet(sources'[i].wire)
      BY <2>1, <2>6, TailToSet
    <2> DEFINE n == Len(fetches)
               r == Fetch(e.data)
    <2>8. r \in FetchRequest /\ r.table = e.data /\ r.read = Unread
      BY <2>2 DEF Fetch, FetchRequest
    <2> HIDE DEF w, e, r
    <2>9. /\ n \in Nat /\ DOMAIN fetches = 1 .. n /\ DOMAIN fetches' = 1 .. n + 1
          /\ fetches'[n + 1] = r /\ \A j \in 1 .. n : fetches'[j] = fetches[j]
      BY <1>1, <2>5, <2>8, AppendProperties DEF r
    <2>10. CASE t = e.data
      <3>1. n + 1 \in Fetching(t)' /\ \A j \in Fetching(t)' : j <= n + 1
        BY <2>8, <2>9, <2>10 DEF Fetching
      <3>2. WillShow(t)' = Unread
        BY <1>1, <2>8, <2>9, <3>1, LastIsShownNext DEF IsLast
      <3> QED
        BY <3>2 DEF Known, Unread
    <2>11. CASE t # e.data
      <3>1. Fetching(t)' = Fetching(t)
        <4>1. ASSUME NEW j \in 1 .. n + 1, fetches'[j].table = t
              PROVE  j \in 1 .. n /\ fetches[j].table = t
          BY <2>8, <2>9, <2>11, <4>1
        <4>2. ASSUME NEW j \in 1 .. n, fetches[j].table = t
              PROVE  j \in 1 .. n + 1 /\ fetches'[j].table = t
          BY <2>9, <4>2
        <4> QED
          BY <2>9, <4>1, <4>2 DEF Fetching
      <3>2. \A j \in Fetching(t) : fetches'[j].read = fetches[j].read
        BY <2>9 DEF Fetching
      <3>3. WillShow(t)' = WillShow(t)
        BY <1>1, <2>1, <3>1, <3>2, SameShown
      <3>4. \A j \in DOMAIN sources : t \in OnWire(j) => t \in OnWire(j)'
        BY <2>6, <2>7, <2>11 DEF OnWire, w
      <3>5. Announced(t) => Announced(t)'
        BY <2>1, <2>6, <3>4 DEF Announced
      <3> QED
        BY <2>1, <3>3, <3>5 DEF Known
    <2> QED
      BY <2>10, <2>11
  <1> QED
    BY <1>3, <1>4, <1>5, <1>6, <1>7, <1>8 DEF Page

\* The answer that comes last is the one that shows the newest rows, or the
\* table is noted as out of date.
LEMMA AnswerKnown ==
    ASSUME SyncInv, SyncInv', NEW i \in DOMAIN fetches,
           Read(i) \/ OnFetch(i) \/ FetchFails(i), NEW t \in Tables, Known(t)
    PROVE  Known(t)'
  <1>1. /\ fetches \in Seq(FetchRequest) /\ fetches' \in Seq(FetchRequest)
        /\ shown \in [Tables -> Version \cup {NotShown}]
    BY DEF SyncInv, SyncTypes, SyncTypeOK, FetchRequest
  <1> DEFINE u == fetches[i].table
             n == fetches[i].read
  <1>2. i \in 1 .. Len(fetches) /\ u \in Tables /\ i \in Fetching(u)
        /\ Others(i) = Fetching(u) \ {i}
    <2>1. i \in 1 .. Len(fetches) /\ fetches[i] \in FetchRequest
      BY <1>1
    <2> QED
      BY <2>1 DEF FetchRequest, Fetching, Others
  <1>3. UNCHANGED <<bridge, queue, sources, db>> /\ Announced(t)' = Announced(t)
    BY DEF Read, OnFetch, FetchFails, dbVars, portVars, sourceVars, Announced, OnWire
  <1>4. CASE Read(i)
    <2>1. /\ DOMAIN fetches' = DOMAIN fetches /\ UNCHANGED <<shown, forgotten>>
          /\ \A j \in DOMAIN fetches : /\ fetches'[j].table = fetches[j].table
                                       /\ j # i => fetches'[j].read = fetches[j].read
          /\ fetches'[i].read = db[u]
      BY <1>1, <1>2, <1>4 DEF Read, auxVars, FetchRequest
    <2>2. Fetching(t)' = Fetching(t)
      BY <2>1 DEF Fetching
    <2>3. CASE Fetching(t) = {} \/ t # u
      <3>1. \A j \in Fetching(t) : fetches'[j].read = fetches[j].read
        BY <2>1, <2>3 DEF Fetching
      <3>2. WillShow(t)' = WillShow(t)
        BY <1>1, <2>1, <2>2, <3>1, SameShown
      <3> QED
        BY <1>3, <2>1, <3>2 DEF Known
    <2>4. CASE Fetching(t) # {} /\ t = u
      <3>1. PICK k \in Fetching(t) : IsLast(k, Fetching(t))
        BY <1>1, <2>4, LastRequest
      <3>2. WillShow(t)' = fetches'[k].read /\ WillShow(t) = fetches[k].read
        BY <1>1, <2>2, <3>1, LastIsShown, LastIsShownNext
      <3>3. WillShow(t)' = WillShow(t) \/ WillShow(t)' = db'[t]
        BY <1>3, <2>1, <2>4, <3>1, <3>2 DEF Fetching
      <3> QED
        BY <1>3, <2>1, <3>3 DEF Known
    <2> QED
      BY <2>3, <2>4
  <1>5. CASE OnFetch(i) \/ FetchFails(i)
    <2>1. fetches' = RemoveAt(fetches, i) /\ (t # u => shown'[t] = shown[t])
          /\ (t \in forgotten => t \in forgotten' \/ (t = u /\ OnFetch(i)))
      BY <1>1, <1>2, <1>5 DEF OnFetch, FetchFails
    <2>2. /\ Fetching(t) \subseteq {i} => WillShow(t)' = shown'[t]
          /\ \A k : IsLast(k, Fetching(t) \ {i}) => WillShow(t)' = fetches[k].read
      BY <1>1, <2>1, AfterAnswer
    <2>3. CASE t # u
      <3>1. i \notin Fetching(t)
        BY <2>3 DEF Fetching
      <3>2. WillShow(t)' = WillShow(t)
        <4>1. CASE Fetching(t) = {}
          BY <2>1, <2>2, <2>3, <4>1 DEF WillShow
        <4>2. CASE Fetching(t) # {}
          <5>1. PICK k \in Fetching(t) : IsLast(k, Fetching(t))
            BY <1>1, <4>2, LastRequest
          <5>2. IsLast(k, Fetching(t) \ {i})
            BY <3>1, <5>1 DEF IsLast
          <5> QED
            BY <1>1, <2>2, <5>1, <5>2, LastIsShown
        <4> QED
          BY <4>1, <4>2
      <3> QED
        BY <1>3, <2>1, <2>3, <3>2 DEF Known
    <2>4. CASE t = u /\ FetchFails(i)
      BY <2>4 DEF FetchFails, Known
    <2>5. CASE t = u /\ OnFetch(i)
      <3>1. /\ n # Unread /\ shown'[t] = n
            /\ forgotten' = IF n = db[t] /\ \A j \in Others(i) : fetches[j].read \in {n, Unread}
                            THEN forgotten \ {t}
                            ELSE IF Overtaken(i) # {} THEN forgotten \cup {t} ELSE forgotten
        BY <1>1, <2>5 DEF OnFetch
      <3>2. CASE Others(i) = {}
        <4>1. WillShow(t)' = n
          BY <1>2, <2>2, <2>5, <3>1, <3>2
        <4>2. IsLast(i, Fetching(t))
          BY <1>2, <2>5, <3>2 DEF IsLast
        <4>3. WillShow(t) = n
          BY <1>1, <4>2, LastIsShown
        <4>4. n = db[t] \/ (t \in forgotten => t \in forgotten')
          BY <3>1
        <4> QED
          BY <1>3, <3>1, <4>1, <4>3, <4>4 DEF Known
      <3>3. CASE Others(i) # {}
        <4>1. PICK k \in Others(i) : IsLast(k, Others(i))
          <5>1. Others(i) \subseteq Fetching(t)
            BY <1>2, <2>5
          <5> QED
            BY <1>1, <3>3, <5>1, LastRequest
        <4>2. WillShow(t)' = fetches[k].read
          BY <1>2, <2>2, <2>5, <4>1
        <4>3. CASE n = db[t] /\ \A j \in Others(i) : fetches[j].read \in {n, Unread}
          BY <1>3, <4>1, <4>2, <4>3 DEF Known, Unread
        <4>4. CASE ~ (n = db[t] /\ \A j \in Others(i) : fetches[j].read \in {n, Unread})
          <5>1. CASE Overtaken(i) # {}
            BY <3>1, <4>4, <5>1 DEF Known
          <5>2. CASE Overtaken(i) = {}
            <6>1. k \in Nat /\ i \in Nat /\ ~ (k < i)
              BY <1>1, <1>2, <4>1, <5>2 DEF Overtaken, Others
            <6>2. IsLast(k, Fetching(t))
              <7>1. k \in Fetching(t)
                BY <1>2, <2>5, <4>1
              <7>2. ASSUME NEW j \in Fetching(t) PROVE j <= k
                <8>1. j = i \/ j \in Others(i)
                  BY <1>2, <2>5
                <8>2. i <= k
                  BY <6>1
                <8> QED
                  BY <4>1, <8>1, <8>2 DEF IsLast
              <7> QED
                BY <7>1, <7>2 DEF IsLast
            <6>3. WillShow(t) = fetches[k].read
              BY <1>1, <6>2, LastIsShown
            <6> QED
              BY <1>3, <3>1, <4>2, <4>4, <5>2, <6>3 DEF Known
          <5> QED
            BY <5>1, <5>2
        <4> QED
          BY <4>3, <4>4
      <3> QED
        BY <3>2, <3>3
    <2> QED
      BY <1>5, <2>3, <2>4, <2>5
  <1> QED
    BY <1>4, <1>5

LEMMA NothingForgottenStep ==
    ASSUME SyncInv, SyncInv', Heard, OneSource, NothingForgotten, [Next]_vars
    PROVE  NothingForgotten'
  <1>1. CASE OnFetchCurrentUser
    <2> SUFFICES ASSUME NEW t \in Tables PROVE Known(t)'
      BY DEF NothingForgotten, Known
    <2>1. /\ fetches' = <<Fetch("engagement"), Fetch("user")>>
          /\ fetches' \in Seq(FetchRequest)
      BY <1>1 DEF OnFetchCurrentUser, SyncInv, SyncTypes, SyncTypeOK, FetchRequest
    <2>2. DOMAIN fetches' = {1, 2} /\ fetches'[1] = Fetch("engagement") /\ fetches'[2] = Fetch("user")
      BY <2>1
    <2>3. Fetching("engagement")' = {1} /\ Fetching("user")' = {2}
      BY <2>2 DEF Fetching, Fetch
    <2>4. WillShow(t)' = Unread
      <3>1. CASE t = "engagement"
        <4>1. IsLast(1, Fetching(t)')
          BY <2>3, <3>1 DEF IsLast
        <4> QED
          BY <2>1, <2>2, <4>1, LastIsShownNext DEF Fetch
      <3>2. CASE t = "user"
        <4>1. IsLast(2, Fetching(t)')
          BY <2>3, <3>2 DEF IsLast
        <4> QED
          BY <2>1, <2>2, <4>1, LastIsShownNext DEF Fetch
      <3> QED
        BY <3>1, <3>2 DEF Tables
    <2> QED
      BY <2>4 DEF Known, Unread
  <1>2. CASE ~ OnFetchCurrentUser
    <2>1. currentUser' = currentUser
      BY <1>2 DEF Next, vars, syncVars, dbVars, postVars, auxVars, modelVars, portVars,
         RowChange, OnChangeEngagement, Deliver, Publish, Broadcast, Dial, BridgeReturns,
         Page, LoadPage, CarryOutCommand, Subscribe, OnSSETableChange, Answer, Read, OnFetch,
         Save, ServePost, OnSubmitEngagementResponse, Faulty, BridgeLost, QueueLost,
         FetchFails, ConnectionLost
    <2> SUFFICES ASSUME currentUser, NEW t \in Tables, Known(t) PROVE Known(t)'
      BY <2>1 DEF NothingForgotten, Known
    <2>2. CASE UNCHANGED <<fetches, shown, db, bridge, queue, sources, forgotten>>
      BY <2>2, KnownStays DEF Announced, OnWire
    <2>3. ASSUME NEW v \in Tables, RowChange(v) PROVE Known(t)'
      BY <2>3, CommitKnown DEF RowChange, portVars, sourceVars, modelVars
    <2>4. CASE ServePost
      <3>1. UNCHANGED <<sources, fetches, shown>>
        BY <2>4 DEF ServePost, portVars, sourceVars, modelVars
      <3>2. CASE Commit("engagement")
        BY <3>1, <3>2, CommitKnown DEF Tables
      <3>3. CASE UNCHANGED <<dbVars, forgotten>>
        BY <2>2, <3>1, <3>3 DEF dbVars
      <3> QED
        BY <2>4, <3>2, <3>3 DEF ServePost
    <2>5. CASE Publish \/ Broadcast \/ BridgeLost \/ QueueLost
      BY <2>5, DeliverKnown
    <2>6. CASE Page \/ \E i \in DOMAIN sources : ConnectionLost(i)
      BY <2>6, PageKnown
    <2>7. ASSUME NEW i \in DOMAIN fetches, Read(i) \/ OnFetch(i) \/ FetchFails(i)
          PROVE  Known(t)'
      BY <2>7, AnswerKnown
    <2>8. CASE Dial \/ BridgeReturns
      BY <2>2, <2>8 DEF Dial, BridgeReturns, portVars, sourceVars, modelVars, auxVars
    <2>9. CASE OnChangeEngagement \/ \E q \in {"success", "failure"} : OnSubmitEngagementResponse(q)
      BY <2>2, <2>9 DEF OnChangeEngagement, OnSubmitEngagementResponse, portVars, sourceVars,
         dbVars, modelVars, auxVars
    <2>10. CASE UNCHANGED vars
      BY <2>2, <2>10 DEF vars, syncVars, portVars, sourceVars, dbVars, modelVars, auxVars
    <2> QED
      BY <2>3, <2>4, <2>5, <2>6, <2>7, <2>8, <2>9, <2>10 DEF Next, Deliver, Answer, Save, Faulty
  <1> QED
    BY <1>1, <1>2

\* Whatever is lost, late or refused on the way, and however many rows change, a
\* page of staff is out of date only while the change is announced or fetched,
\* or by a loss that no later answer has made up for.
THEOREM ChangesFollowed == Spec => []NothingForgotten
  <1>1. Init => NothingForgotten
    BY DEF Init, NothingForgotten
  <1>2. OnlyAdds
    BY SyncAssumption DEF OnlyAdds
  <1>3. Spec => [](Heard /\ OneSource)
    BY <1>2, PageUsesPorts, ListenersHeard, OneConnection, PTL
  <1>4. SyncInv /\ SyncInv' /\ Heard /\ OneSource /\ NothingForgotten /\ [Next]_vars
          => NothingForgotten'
    BY NothingForgottenStep
  <1> QED
    BY <1>1, <1>3, <1>4, SyncInvAlways, PTL DEF Spec
=============================================================================
