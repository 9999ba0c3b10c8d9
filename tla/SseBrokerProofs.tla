-------------------------- MODULE SseBrokerProofs --------------------------
(***************************************************************************)
(* Proofs about SseBroker for every set of clients and events and any      *)
(* number of messages.                                                     *)
(***************************************************************************)
EXTENDS SseBroker, SequenceTheorems, TLAPS

-----------------------------------------------------------------------------
(* The types.                                                              *)

\* A broadcast keeps the types.
LEMMA BroadcastType ==
    ASSUME BrokerTypeOK, NEW m \in Messages, SendMessage(m),
           UNCHANGED <<conns, amqp, mailbox, events>>,
           hand' \in Events \cup {NoEvent}, ticks' \in 0 .. MaxTicks
    PROVE  BrokerTypeOK'
  <1>1. log' \in Seq(Messages)
    BY AppendProperties DEF BrokerTypeOK, SendMessage
  <1> QED
    BY <1>1 DEF BrokerTypeOK, SendMessage, conns

\* A send keeps the types.
LEMMA SendType ==
    ASSUME BrokerTypeOK, NEW c \in Clients, Send(c), log # <<>>
    PROVE  BrokerTypeOK'
  <1>1. log[Len(log)] \in Messages
    BY DEF BrokerTypeOK
  <1>2. got' \in [Clients -> Seq(Messages)]
    BY <1>1 DEF BrokerTypeOK, Send
  <1> QED
    BY <1>2 DEF BrokerTypeOK, Send, source

-----------------------------------------------------------------------------
(* The broker's map, the channels and the goroutines.  The map, its        *)
(* watchers and its handlers agree, and the clients the broker still has   *)
(* to send to are in it: they are taken out only when it is not sending.   *)

MapInv ==
    /\ pc = "select" => todo = {}
    /\ pc = "sending" => log # <<>>
    /\ todo \subseteq clients
    /\ clients \cap closed = {}
    /\ \A c \in Clients :
        /\ c \in clients <=> notifier[c] # "none"
        /\ handler[c] \in {"reading", "writing"} <=> c \in clients \cup closed

BrokerInv == BrokerTypeOK /\ MapInv

\* Every step of a browser's connection or its goroutines keeps the invariant.
LEMMA ConnectionInv ==
    ASSUME BrokerInv, NEW c \in Clients,
           ServeHTTP(c) \/ Disconnect(c) \/ Notice(c) \/ Write(c) \/ HandlerReturns(c)
    PROVE  BrokerInv'
  <1> USE DEF BrokerInv, BrokerTypeOK, MapInv, broker, source, history
  <1>1. CASE ServeHTTP(c)
    BY <1>1 DEF ServeHTTP
  <1>2. CASE Disconnect(c)
    BY <1>2 DEF Disconnect
  <1>3. CASE Notice(c)
    BY <1>3 DEF Notice
  <1>4. CASE Write(c)
    BY <1>4 DEF Write
  <1>5. CASE HandlerReturns(c)
    BY <1>5 DEF HandlerReturns
  <1> QED
    BY <1>1, <1>2, <1>3, <1>4, <1>5

\* So does every step of the broker.
LEMMA BrokerStepInv ==
    ASSUME BrokerInv,
           Take \/ Tick \/ Sent \/ \E c \in Clients : Join(c) \/ Leave(c) \/ Send(c)
    PROVE  BrokerInv'
  <1> USE DEF BrokerInv
  <1>1. ASSUME NEW c \in Clients, Join(c)
        PROVE  BrokerInv'
    <2>1. Len(log) \in Nat /\ <<>> \in Seq(Messages)
      BY DEF BrokerTypeOK
    <2>2. BrokerTypeOK'
      BY <1>1, <2>1 DEF BrokerTypeOK, Join, source
    <2>3. MapInv'
      BY <1>1 DEF BrokerTypeOK, MapInv, Join
    <2> QED
      BY <2>2, <2>3
  <1>2. ASSUME NEW c \in Clients, Leave(c)
        PROVE  BrokerInv'
    BY <1>2 DEF BrokerTypeOK, MapInv, Leave, source, history
  <1>3. ASSUME NEW c \in Clients, Send(c)
        PROVE  BrokerInv'
    <2>1. log # <<>>
      BY <1>3 DEF MapInv, Send
    <2>2. BrokerTypeOK'
      BY <1>3, <2>1, SendType
    <2>3. MapInv'
      BY <1>3 DEF BrokerTypeOK, MapInv, Send
    <2> QED
      BY <2>2, <2>3
  <1>4. ASSUME NEW m \in Messages, SendMessage(m), UNCHANGED conns
        PROVE  MapInv'
    <2>1. log' # <<>>
      BY <1>4, AppendProperties DEF BrokerTypeOK, SendMessage
    <2> QED
      BY <1>4, <2>1 DEF BrokerTypeOK, MapInv, SendMessage, conns
  <1>5. CASE Take
    <2>1. hand \in Messages
      BY <1>5 DEF BrokerTypeOK, Take, Messages
    <2> QED
      BY <1>4, <1>5, <2>1, BroadcastType DEF BrokerTypeOK, Take
  <1>6. CASE Tick
    <2>1. ticks' \in 0 .. MaxTicks
      BY <1>6, SseAssumption DEF BrokerTypeOK, Tick
    <2> QED
      BY <1>4, <1>6, <2>1, BroadcastType DEF BrokerTypeOK, Tick, Messages, source
  <1>7. CASE Sent
    BY <1>7 DEF BrokerTypeOK, MapInv, Sent, conns, source, history
  <1> QED
    BY <1>1, <1>2, <1>3, <1>5, <1>6, <1>7

\* And every step of RabbitMQ and the goroutine that reads it.
LEMMA SourceInv ==
    ASSUME BrokerInv,
           GetMessages \/ MessagesEnd \/ Delivery \/ \E e \in Events : RowChangeQueued(e)
    PROVE  BrokerInv'
  <1> USE DEF BrokerInv, BrokerTypeOK, MapInv, broker, conns, history
  <1>1. CASE GetMessages
    BY <1>1 DEF GetMessages
  <1>2. CASE MessagesEnd
    <2>1. mailbox' \in Seq(Events)
      <3>1. <<>> \in Seq(Events)
        OBVIOUS
      <3> QED
        BY <1>2, <3>1 DEF MessagesEnd
    <2> QED
      BY <1>2, <2>1 DEF MessagesEnd
  <1>3. CASE Delivery
    <2>1. Head(mailbox) \in Events /\ Tail(mailbox) \in Seq(Events)
      BY <1>3, HeadTailProperties DEF Delivery
    <2>2. hand' \in Events \cup {NoEvent} /\ mailbox' \in Seq(Events)
      BY <1>3, <2>1 DEF Delivery
    <2> QED
      BY <1>3, <2>2 DEF Delivery
  <1>4. ASSUME NEW e \in Events, RowChangeQueued(e)
        PROVE  BrokerInv'
    <2>1. Append(mailbox, e) \in Seq(Events)
      BY AppendProperties
    <2> QED
      BY <1>4, <2>1, SseAssumption DEF RowChangeQueued
  <1> QED
    BY <1>1, <1>2, <1>3, <1>4

\* The invariant holds initially and in every step.
LEMMA InitInv == BrokerInit => BrokerInv
  <1> SUFFICES ASSUME BrokerInit
               PROVE  BrokerTypeOK /\ MapInv
    BY DEF BrokerInv
  <1>1. <<>> \in Seq(Events) /\ <<>> \in Seq(Messages)
    OBVIOUS
  <1>2. BrokerTypeOK
    <2>1. mailbox \in Seq(Events) /\ log \in Seq(Messages)
      BY <1>1 DEF BrokerInit
    <2>2. got \in [Clients -> Seq(Messages)]
      BY <1>1 DEF BrokerInit
    <2>3. events \in 0 .. MaxRowChanges /\ ticks \in 0 .. MaxTicks
      BY SseAssumption DEF BrokerInit
    <2>4. since \in [Clients -> Nat]
      BY DEF BrokerInit
    <2>5. /\ handler \in [Clients -> {"none", "joining", "reading", "writing"}]
          /\ notifier \in [Clients -> {"none", "waiting", "leaving"}]
          /\ up \in [Clients -> BOOLEAN]
      BY DEF BrokerInit
    <2>6. /\ clients \subseteq Clients /\ todo \subseteq Clients /\ closed \subseteq Clients
          /\ pc \in {"select", "sending"} /\ amqp \in BOOLEAN
          /\ hand \in Events \cup {NoEvent}
      BY DEF BrokerInit
    <2> QED
      BY <2>1, <2>2, <2>3, <2>4, <2>5, <2>6 DEF BrokerTypeOK
  <1>3. MapInv
    BY DEF BrokerInit, MapInv
  <1> QED
    BY <1>2, <1>3

LEMMA NextInv == BrokerInv /\ [BrokerNext]_brokerVars => BrokerInv'
  <1>1. BrokerInv /\ UNCHANGED brokerVars => BrokerInv'
    BY DEF BrokerInv, BrokerTypeOK, MapInv, brokerVars, broker, conns, source, history
  <1> QED
    BY <1>1, ConnectionInv, BrokerStepInv, SourceInv DEF BrokerNext

\* Every channel, map and goroutine has its type in every state.
THEOREM TypeCorrect == BrokerSpec => []BrokerTypeOK
  <1>1. BrokerInv => BrokerTypeOK
    BY DEF BrokerInv
  <1> QED
    BY <1>1, InitInv, NextInv, PTL DEF BrokerSpec

\* The broker never sends on a closed channel nor closes one twice.
THEOREM PanicFree == BrokerSpec => []NoPanic
  <1>1. BrokerInv => NoPanic
    BY DEF BrokerInv, MapInv, NoPanic, BrokerTypeOK
  <1> QED
    BY <1>1, InitInv, NextInv, PTL DEF BrokerSpec

\* No connection, and no goroutine of one, is forgotten.
THEOREM LeakFree == BrokerSpec => []NoLeak
  <1>1. BrokerInv => NoLeak
    BY DEF BrokerInv, MapInv, NoLeak
  <1> QED
    BY <1>1, InitInv, NextInv, PTL DEF BrokerSpec

-----------------------------------------------------------------------------
(* What a client has received.                                             *)

FeedInv ==
    /\ FeedComplete
    /\ \A c \in clients : since[c] + (IF c \in todo THEN 1 ELSE 0) <= Len(log)

\* Appending to a sequence changes none of its parts.
LEMMA SubSeqOfAppend ==
    ASSUME NEW S, NEW s \in Seq(S), NEW e \in S, NEW i \in 0 .. Len(s)
    PROVE  SubSeq(Append(s, e), i + 1, Len(s)) = SubSeq(s, i + 1, Len(s))
  <1>1. CASE i = Len(s)
    BY <1>1, SubSeqEmpty, AppendProperties
  <1>2. CASE i < Len(s)
    <2>1. Append(s, e) = s \o <<e>> /\ <<e>> \in Seq(S)
      BY AppendIsConcat
    <2>2. i + 1 \in 1 .. Len(s) /\ Len(s) \in 1 .. Len(s)
      BY <1>2
    <2> QED
      BY <2>1, <2>2, SubSeqOfConcat1
  <1> QED
    BY <1>1, <1>2

\* The last element completes a part that stops before it.
LEMMA SubSeqToEnd ==
    ASSUME NEW S, NEW s \in Seq(S), NEW i \in 0 .. Len(s) - 1
    PROVE  Append(SubSeq(s, i + 1, Len(s) - 1), s[Len(s)]) = SubSeq(s, i + 1, Len(s))
  <1>1. i + 1 \in 1 .. Len(s) /\ Len(s) \in i + 1 .. Len(s)
    OBVIOUS
  <1>2. SubSeq(s, i + 1, Len(s)) = SubSeq(s, i + 1, Len(s) - 1) \o <<s[Len(s)]>>
    BY <1>1, SubSeqRecursiveSecond
  <1>3. s[Len(s)] \in S /\ SubSeq(s, i + 1, Len(s) - 1) \in Seq(S)
    BY SubSeqProperties
  <1> QED
    BY <1>2, <1>3, AppendIsConcat

\* A client that joins has received nothing and is owed nothing.
LEMMA JoinFeed ==
    ASSUME BrokerInv, FeedInv, NEW c \in Clients, Join(c)
    PROVE  FeedInv'
  <1> USE DEF BrokerInv, BrokerTypeOK, MapInv, FeedInv, FeedComplete, Join
  <1>1. Len(log) \in Nat
    OBVIOUS
  <1>2. SubSeq(log, Len(log) + 1, Len(log)) = <<>>
    BY <1>1, SubSeqEmpty
  <1>3. todo' = {} /\ log' = log
    OBVIOUS
  <1>4. since'[c] = Len(log) /\ got'[c] = <<>>
    BY <1>1
  <1>5. \A d \in clients \ {c} : since'[d] = since[d] /\ got'[d] = got[d]
    OBVIOUS
  <1>6. clients' = clients \cup {c}
    OBVIOUS
  <1>7. \A d \in clients' : got'[d] = SubSeq(log', since'[d] + 1, Len(log'))
    BY <1>1, <1>2, <1>3, <1>4, <1>5, <1>6
  <1>8. \A d \in clients' : since'[d] <= Len(log')
    BY <1>1, <1>3, <1>4, <1>5, <1>6
  <1> QED
    BY <1>1, <1>3, <1>7, <1>8

\* A broadcast owes every client one message more.
LEMMA BroadcastFeed ==
    ASSUME BrokerInv, FeedInv, NEW m \in Messages, SendMessage(m)
    PROVE  FeedInv'
  <1> SUFFICES ASSUME NEW c \in clients
               PROVE  /\ got[c] = SubSeq(log', since[c] + 1, Len(log') - 1)
                      /\ since[c] + 1 <= Len(log')
    BY DEF FeedInv, FeedComplete, SendMessage
  <1>1. log \in Seq(Messages) /\ log' = Append(log, m) /\ Len(log') = Len(log) + 1
    BY AppendProperties DEF BrokerInv, BrokerTypeOK, SendMessage
  <1>2. c \notin todo /\ since[c] \in Nat
    BY DEF BrokerInv, BrokerTypeOK, MapInv, SendMessage
  <1>3. since[c] \in 0 .. Len(log) /\ got[c] = SubSeq(log, since[c] + 1, Len(log))
    BY <1>1, <1>2 DEF FeedInv, FeedComplete
  <1> QED
    BY <1>1, <1>3, SubSeqOfAppend

\* A send settles the debt to one client and leaves the others' alone.
LEMMA SendFeed ==
    ASSUME BrokerInv, FeedInv, NEW c \in Clients, Send(c)
    PROVE  FeedInv'
  <1> USE DEF BrokerInv, BrokerTypeOK, MapInv, Send
  <1>1. /\ c \in clients /\ c \in todo
        /\ log \in Seq(Messages) /\ Len(log) \in Nat /\ since[c] \in Nat
    OBVIOUS
  <1>2. /\ since[c] \in 0 .. Len(log) - 1
        /\ got[c] = SubSeq(log, since[c] + 1, Len(log) - 1)
    BY <1>1 DEF FeedInv, FeedComplete
  <1>3. Append(got[c], log[Len(log)]) = SubSeq(log, since[c] + 1, Len(log))
    BY <1>1, <1>2, SubSeqToEnd
  <1>4. /\ clients' = clients /\ log' = log /\ since' = since /\ todo' = todo \ {c}
        /\ got'[c] = Append(got[c], log[Len(log)])
        /\ \A d \in clients \ {c} : got'[d] = got[d]
    OBVIOUS
  <1>5. ASSUME NEW d \in clients
        PROVE  /\ got'[d] = SubSeq(log', since'[d] + 1,
                                   Len(log') - IF d \in todo' THEN 1 ELSE 0)
               /\ since'[d] + (IF d \in todo' THEN 1 ELSE 0) <= Len(log')
    <2>1. CASE d = c
      <3>1. (IF d \in todo' THEN 1 ELSE 0) = 0
        BY <1>4, <2>1
      <3>2. Len(log') - 0 = Len(log) /\ since[c] + 0 <= Len(log)
        BY <1>1, <1>2, <1>4
      <3> QED
        BY <1>3, <1>4, <2>1, <3>1, <3>2
    <2>2. CASE d # c
      <3>1. d \in todo' <=> d \in todo
        BY <1>4, <2>2
      <3> QED
        BY <1>4, <2>2, <3>1 DEF FeedInv, FeedComplete
    <2> QED
      BY <2>1, <2>2
  <1> QED
    BY <1>4, <1>5 DEF FeedInv, FeedComplete

\* Every step of the service keeps it.
LEMMA NextFeed == BrokerInv /\ FeedInv /\ [BrokerNext]_brokerVars => FeedInv'
  <1> SUFFICES ASSUME BrokerInv, FeedInv, [BrokerNext]_brokerVars
               PROVE  FeedInv'
    OBVIOUS
  <1>1. ASSUME UNCHANGED <<todo, history>>, clients' \subseteq clients
        PROVE  FeedInv'
    BY <1>1 DEF FeedInv, FeedComplete, history
  <1>2. CASE UNCHANGED brokerVars
    BY <1>1, <1>2 DEF brokerVars, broker
  <1>3. ASSUME NEW c \in Clients,
               ServeHTTP(c) \/ Disconnect(c) \/ Notice(c) \/ Write(c) \/ HandlerReturns(c)
               \/ Leave(c)
        PROVE  FeedInv'
    BY <1>1, <1>3 DEF ServeHTTP, Disconnect, Notice, Write, HandlerReturns, Leave, broker
  <1>4. CASE Take
    <2>1. hand \in Messages
      BY <1>4 DEF BrokerInv, BrokerTypeOK, Take, Messages
    <2> QED
      BY <1>4, <2>1, BroadcastFeed DEF Take
  <1>5. CASE Tick
    BY <1>5, BroadcastFeed DEF Tick, Messages
  <1>6. CASE Sent \/ GetMessages \/ MessagesEnd \/ Delivery \/ \E e \in Events : RowChangeQueued(e)
    BY <1>1, <1>6 DEF Sent, GetMessages, MessagesEnd, Delivery, RowChangeQueued, broker
  <1> QED
    BY <1>2, <1>3, <1>4, <1>5, <1>6, JoinFeed, SendFeed DEF BrokerNext

\* A client in the map has received every message since it joined, once and
\* in order, but for the one that is being sent.
THEOREM FeedCorrect == BrokerSpec => []FeedComplete
  <1>1. BrokerInit => FeedInv
    BY DEF BrokerInit, FeedInv, FeedComplete
  <1>2. FeedInv => FeedComplete
    BY DEF FeedInv
  <1> QED
    BY <1>1, <1>2, InitInv, NextInv, NextFeed, PTL DEF BrokerSpec

-----------------------------------------------------------------------------
(* The service implements EventFeed: a broadcast, a join, a send and a     *)
(* leave are the feed's steps, and everything else stutters.               *)

\* How many messages a client in the map has received.
LEMMA ReceivedSoFar ==
    ASSUME BrokerInv, FeedInv, NEW c \in clients
    PROVE  since[c] + Len(got[c]) = IF c \in todo THEN Len(log) - 1 ELSE Len(log)
  <1>1. c \in Clients /\ since[c] \in Nat /\ log \in Seq(Messages) /\ Len(log) \in Nat
    BY DEF BrokerInv, BrokerTypeOK
  <1>2. CASE c \in todo
    <2>1. since[c] + 1 <= Len(log) /\ got[c] = SubSeq(log, since[c] + 1, Len(log) - 1)
      BY <1>2 DEF FeedInv, FeedComplete
    <2>2. Len(got[c]) = Len(log) - 1 - since[c]
      BY <1>1, <2>1, SubSeqProperties
    <2> QED
      BY <1>1, <1>2, <2>2
  <1>3. CASE c \notin todo
    <2>1. since[c] <= Len(log) /\ got[c] = SubSeq(log, since[c] + 1, Len(log))
      BY <1>1, <1>3 DEF FeedInv, FeedComplete
    <2>2. Len(got[c]) = Len(log) - since[c]
      BY <1>1, <2>1, SubSeqProperties
    <2> QED
      BY <1>1, <1>3, <2>2
  <1> QED
    BY <1>2, <1>3

\* Each step of the service is a step of the feed or a stutter.
LEMMA NextRefines == BrokerInv /\ FeedInv /\ [BrokerNext]_brokerVars => [Feed!Next]_(Feed!vars)
  <1> SUFFICES ASSUME BrokerInv, FeedInv, [BrokerNext]_brokerVars
               PROVE  [Feed!Next]_(Feed!vars)
    OBVIOUS
  <1>1. ASSUME UNCHANGED <<log, since, got, clients>>
        PROVE  [Feed!Next]_(Feed!vars)
    BY <1>1 DEF Feed!vars
  <1>2. ASSUME NEW c \in Clients, Join(c)
        PROVE  Feed!Subscribe(c)
    <2>1. c \notin clients
      BY <1>2 DEF BrokerInv, MapInv, Join
    <2> QED
      BY <1>2, <2>1 DEF Join, Feed!Subscribe
  <1>3. ASSUME NEW c \in Clients, Leave(c)
        PROVE  Feed!Unsubscribe(c)
    <2>1. c \in clients /\ c \notin todo
      BY <1>3 DEF BrokerInv, MapInv, Leave
    <2>2. since[c] + Len(got[c]) = Len(log)
      BY <2>1, ReceivedSoFar
    <2> QED
      BY <1>3, <2>1, <2>2 DEF Leave, Feed!Unsubscribe, Feed!Received, history
  <1>4. ASSUME NEW c \in Clients, Send(c)
        PROVE  Feed!Receive(c)
    <2>1. c \in todo /\ c \in clients /\ Len(log) \in Nat
      BY <1>4 DEF BrokerInv, BrokerTypeOK, MapInv, Send
    <2>2. since[c] + Len(got[c]) = Len(log) - 1
      BY <2>1, ReceivedSoFar
    <2>3. Len(log) - 1 < Len(log) /\ Len(log) - 1 + 1 = Len(log)
      BY <2>1
    <2> QED
      BY <1>4, <2>1, <2>2, <2>3 DEF Send, Feed!Receive, Feed!Received
  <1>5. ASSUME NEW m \in Messages, SendMessage(m)
        PROVE  Feed!Broadcast
    BY <1>5 DEF SendMessage, Feed!Broadcast
  <1>6. CASE Take
    <2>1. hand \in Messages
      BY <1>6 DEF BrokerInv, BrokerTypeOK, Take, Messages
    <2> QED
      BY <1>5, <1>6, <2>1 DEF Take, Feed!Next
  <1>7. CASE Tick
    BY <1>5, <1>7 DEF Tick, Messages, Feed!Next
  <1>8. ASSUME NEW c \in Clients,
               ServeHTTP(c) \/ Disconnect(c) \/ Notice(c) \/ Write(c) \/ HandlerReturns(c)
        PROVE  [Feed!Next]_(Feed!vars)
    BY <1>1, <1>8 DEF ServeHTTP, Disconnect, Notice, Write, HandlerReturns, broker, history
  <1>9. CASE \/ Sent \/ GetMessages \/ MessagesEnd \/ Delivery \/ UNCHANGED brokerVars
             \/ \E e \in Events : RowChangeQueued(e)
    BY <1>1, <1>9 DEF Sent, GetMessages, MessagesEnd, Delivery, RowChangeQueued, brokerVars, broker, history
  <1> QED
    BY <1>2, <1>3, <1>4, <1>6, <1>7, <1>8, <1>9 DEF BrokerNext, Feed!Next

\* The SSE service is an event feed: a subscriber gets every message from its
\* subscription on, in order and once each, until it leaves.
THEOREM FeedRefined == BrokerSpec => FeedSpec
  <1>1. BrokerInit => FeedInv
    BY DEF BrokerInit, FeedInv, FeedComplete
  <1>2. BrokerInit => Feed!Init
    BY DEF BrokerInit, Feed!Init
  <1> QED
    BY <1>1, <1>2, InitInv, NextInv, NextFeed, NextRefines, PTL DEF BrokerSpec, FeedSpec, Feed!Spec
=============================================================================
