----------------------------- MODULE SseBroker -----------------------------
(***************************************************************************)
(* The SSE service: the broker goroutine, the two goroutines of each       *)
(* browser connection (the handler and the one that waits for the          *)
(* connection to close) and the goroutine that reads RabbitMQ.  They meet  *)
(* on unbuffered channels, so a send and its receive are one step.         *)
(*                                                                         *)
(* A member of Clients is a browser tab.  It opens one connection at a     *)
(* time, each with a channel of its own; the state of a client is that of  *)
(* its latest channel.                                                     *)
(***************************************************************************)
EXTENDS Naturals, Sequences, FiniteSets

CONSTANTS
    Clients,
    Events,        \* routing keys of row changes
    TickEvent,     \* the keep-alive
    NoEvent,       \* nothing in hand
    MaxRowChanges, \* bound on the row changes that reach the service
    MaxTicks       \* bound on the keep-alives

ASSUME SseAssumption ==
    /\ TickEvent \notin Events
    /\ NoEvent \notin Events \cup {TickEvent}
    /\ MaxRowChanges \in Nat /\ MaxTicks \in Nat

Messages == Events \cup {TickEvent}

VARIABLES
    clients,    \* the broker's map
    pc,         \* the broker is in "select" or "sending"
    todo,       \* the clients it has still to send the current message to
    handler,    \* handler[c]: where ServeHTTP is
    notifier,   \* notifier[c]: where the goroutine that watches it is
    up,         \* up[c]: the HTTP connection is open
    closed,     \* the clients whose channel is closed
    amqp,       \* the connection to RabbitMQ is open
    mailbox,    \* the service's queue at RabbitMQ
    hand,       \* the message the reading goroutine is sending, or NoEvent
    events,     \* row changes queued so far
    ticks,      \* keep-alives so far
    log,        \* history: the messages broadcast
    since,      \* history: since[c], length of log when c joined
    got         \* history: got[c], the messages c has received

broker     == <<clients, pc, todo>>
conns      == <<handler, notifier, up, closed>>
source     == <<amqp, mailbox, hand, events>>
history    == <<log, since, got>>
brokerVars == <<broker, conns, source, ticks, history>>

BrokerTypeOK ==
    /\ clients \subseteq Clients
    /\ pc \in {"select", "sending"}
    /\ todo \subseteq Clients
    /\ handler \in [Clients -> {"none", "joining", "reading", "writing"}]
    /\ notifier \in [Clients -> {"none", "waiting", "leaving"}]
    /\ up \in [Clients -> BOOLEAN]
    /\ closed \subseteq Clients
    /\ amqp \in BOOLEAN
    /\ mailbox \in Seq(Events)
    /\ hand \in Events \cup {NoEvent}
    /\ events \in 0 .. MaxRowChanges
    /\ ticks \in 0 .. MaxTicks
    /\ log \in Seq(Messages)
    /\ since \in [Clients -> Nat]
    /\ got \in [Clients -> Seq(Messages)]

BrokerInit ==
    /\ clients = {} /\ pc = "select" /\ todo = {}
    /\ handler = [c \in Clients |-> "none"]
    /\ notifier = [c \in Clients |-> "none"]
    /\ up = [c \in Clients |-> FALSE]
    /\ closed = {}
    /\ amqp = FALSE /\ mailbox = <<>> /\ hand = NoEvent
    /\ events = 0 /\ ticks = 0
    /\ log = <<>>
    /\ since = [c \in Clients |-> 0]
    /\ got = [c \in Clients |-> <<>>]

-----------------------------------------------------------------------------
(* A browser's connection.                                                 *)

\* ServeHTTP makes a channel and blocks sending it on newClients.
ServeHTTP(c) ==
    /\ handler[c] = "none"
    /\ handler' = [handler EXCEPT ![c] = "joining"]
    /\ up' = [up EXCEPT ![c] = TRUE]
    /\ UNCHANGED <<broker, notifier, closed, source, ticks, history>>

Disconnect(c) ==
    /\ up[c]
    /\ up' = [up EXCEPT ![c] = FALSE]
    /\ UNCHANGED <<broker, handler, notifier, closed, source, ticks, history>>

\* CloseNotify fires; the goroutine blocks sending the channel on
\* defunctClients.
Notice(c) ==
    /\ notifier[c] = "waiting"
    /\ ~up[c]
    /\ notifier' = [notifier EXCEPT ![c] = "leaving"]
    /\ UNCHANGED <<broker, handler, up, closed, source, ticks, history>>

\* The handler has written and flushed the message, or failed to: it does not
\* look at the result.
Write(c) ==
    /\ handler[c] = "writing"
    /\ handler' = [handler EXCEPT ![c] = "reading"]
    /\ UNCHANGED <<broker, notifier, up, closed, source, ticks, history>>

\* The handler finds its channel closed and returns.
HandlerReturns(c) ==
    /\ handler[c] = "reading"
    /\ c \in closed
    /\ handler' = [handler EXCEPT ![c] = "none"]
    /\ closed' = closed \ {c}
    /\ UNCHANGED <<broker, notifier, up, source, ticks, history>>

-----------------------------------------------------------------------------
(* The broker's select, and its sends.                                     *)

\* The notifier starts once the broker has the channel.
Join(c) ==
    /\ pc = "select"
    /\ handler[c] = "joining"
    /\ clients' = clients \cup {c}
    /\ handler' = [handler EXCEPT ![c] = "reading"]
    /\ notifier' = [notifier EXCEPT ![c] = "waiting"]
    /\ since' = [since EXCEPT ![c] = Len(log)]
    /\ got' = [got EXCEPT ![c] = <<>>]
    /\ UNCHANGED <<pc, todo, up, closed, source, ticks, log>>

\* Mutant: the client is taken out while the broker sends.
Leave_AnyTime(c) ==
    /\ notifier[c] = "leaving"
    /\ clients' = clients \ {c}
    /\ closed' = closed \cup {c}
    /\ notifier' = [notifier EXCEPT ![c] = "none"]
    /\ UNCHANGED <<pc, todo, handler, up, source, ticks, history>>

\* Mutant: the client stays in the map.
Leave_KeepsClient(c) ==
    /\ pc = "select"
    /\ notifier[c] = "leaving"
    /\ closed' = closed \cup {c}
    /\ notifier' = [notifier EXCEPT ![c] = "none"]
    /\ UNCHANGED <<broker, handler, up, source, ticks, history>>

\* Mutant: the channel is not closed.
Leave_KeepsChannel(c) ==
    /\ pc = "select"
    /\ notifier[c] = "leaving"
    /\ clients' = clients \ {c}
    /\ notifier' = [notifier EXCEPT ![c] = "none"]
    /\ UNCHANGED <<pc, todo, handler, up, closed, source, ticks, history>>

\* The broker takes the client out and closes its channel.
Leave(c) ==
    /\ pc = "select"
    /\ notifier[c] = "leaving"
    /\ clients' = clients \ {c}
    /\ closed' = closed \cup {c}
    /\ notifier' = [notifier EXCEPT ![c] = "none"]
    /\ UNCHANGED <<pc, todo, handler, up, source, ticks, history>>

SendMessage(m) ==
    /\ pc = "select"
    /\ pc' = "sending"
    /\ todo' = clients
    /\ log' = Append(log, m)
    /\ UNCHANGED <<clients, since, got>>

\* The broker receives a row change.
Take ==
    /\ hand # NoEvent
    /\ SendMessage(hand)
    /\ hand' = NoEvent
    /\ UNCHANGED <<conns, amqp, mailbox, events, ticks>>

Tick ==
    /\ ticks < MaxTicks
    /\ ticks' = ticks + 1
    /\ SendMessage(TickEvent)
    /\ UNCHANGED <<conns, source>>

\* Mutant: a client that is not ready is passed over.
Send_SkipsBusy(c) ==
    /\ pc = "sending"
    /\ c \in todo
    /\ todo' = todo \ {c}
    /\ handler' = [handler EXCEPT ![c] = IF @ = "reading" THEN "writing" ELSE @]
    /\ got' = [got EXCEPT ![c] = IF handler[c] = "reading"
                                 THEN Append(@, log[Len(log)]) ELSE @]
    /\ UNCHANGED <<clients, pc, notifier, up, closed, source, ticks, log, since>>

\* Mutant: a message is sent again to a client that has had it.
Send_Retried(c) ==
    /\ pc = "sending"
    /\ c \in todo
    /\ handler[c] = "reading"
    /\ handler' = [handler EXCEPT ![c] = "writing"]
    /\ todo' = IF up[c] THEN todo \ {c} ELSE todo
    /\ got' = [got EXCEPT ![c] = IF up[c] THEN Append(@, log[Len(log)]) ELSE @]
    /\ UNCHANGED <<clients, pc, notifier, up, closed, source, ticks, log, since>>

\* The broker visits its clients in any order and blocks until each reads.
Send(c) ==
    /\ pc = "sending"
    /\ c \in todo
    /\ handler[c] = "reading"
    /\ todo' = todo \ {c}
    /\ handler' = [handler EXCEPT ![c] = "writing"]
    /\ got' = [got EXCEPT ![c] = Append(@, log[Len(log)])]
    /\ UNCHANGED <<clients, pc, notifier, up, closed, source, ticks, log, since>>

Sent ==
    /\ pc = "sending"
    /\ todo = {}
    /\ pc' = "select"
    /\ UNCHANGED <<clients, todo, conns, source, ticks, history>>

-----------------------------------------------------------------------------
(* RabbitMQ and the goroutine that reads it.                               *)

\* getMessages connects and declares a queue of its own.  It cannot while the
\* goroutine still has a message of the connection before in its hand.
GetMessages ==
    /\ ~amqp
    /\ hand = NoEvent
    /\ amqp' = TRUE
    /\ UNCHANGED <<broker, conns, mailbox, hand, events, ticks, history>>

\* The connection ends, and the exclusive queue with it.
MessagesEnd ==
    /\ amqp
    /\ amqp' = FALSE
    /\ mailbox' = <<>>
    /\ UNCHANGED <<broker, conns, hand, events, ticks, history>>

\* A row change is routed to the queue.  Without one it goes nowhere.
RowChangeQueued(e) ==
    /\ amqp
    /\ events < MaxRowChanges
    /\ events' = events + 1
    /\ mailbox' = Append(mailbox, e)
    /\ UNCHANGED <<broker, conns, amqp, hand, ticks, history>>

\* Auto-acknowledged as it is delivered.
Delivery ==
    /\ mailbox # <<>>
    /\ hand = NoEvent
    /\ hand' = Head(mailbox)
    /\ mailbox' = Tail(mailbox)
    /\ UNCHANGED <<broker, conns, amqp, events, ticks, history>>

-----------------------------------------------------------------------------
BrokerNext ==
    \/ \E c \in Clients :
        \/ ServeHTTP(c) \/ Disconnect(c) \/ Notice(c) \/ Write(c) \/ HandlerReturns(c)
        \/ Join(c) \/ Leave(c) \/ Send(c)
    \/ Take \/ Tick \/ Sent
    \/ GetMessages \/ MessagesEnd \/ Delivery \/ \E e \in Events : RowChangeQueued(e)

BrokerSpec == BrokerInit /\ [][BrokerNext]_brokerVars

\* Every goroutine that can run does: who watches a connection, its handler, the
\* broker and the reader of RabbitMQ; a write returns, because the browser reads
\* or the connection dies.  select chooses at random among the channels that are
\* ready, so none that is ready again and again is passed over.  (A connection is
\* never ready to join and to leave at once.)
\* Nobody has to connect, leave, change a row or lose the connection.
BrokerFairness ==
    /\ \A c \in Clients :
        /\ WF_brokerVars(Notice(c)) /\ WF_brokerVars(Write(c) \/ HandlerReturns(c))
        /\ SF_brokerVars(Join(c) \/ Leave(c))
    /\ SF_brokerVars(Take) /\ WF_brokerVars(Sent \/ \E c \in Clients : Send(c))
    /\ WF_brokerVars(Delivery)

FairBrokerSpec == BrokerSpec /\ BrokerFairness

-----------------------------------------------------------------------------
(* Invariants.                                                             *)

\* The broker never sends on a closed channel and never closes one twice;
\* either would end the process with a panic.
NoPanic ==
    /\ todo \cap closed = {}
    /\ \A c \in Clients : notifier[c] = "leaving" => c \notin closed

\* No connection is leaked: every client in the map has a goroutine that
\* takes it out, and every handler that is past joining is either in the map
\* or about to find its channel closed.
NoLeak ==
    \A c \in Clients :
        /\ c \in clients <=> notifier[c] # "none"
        /\ handler[c] \in {"reading", "writing"} => c \in clients \cup closed

\* A client in the map has received exactly the messages broadcast since it
\* joined, but for the one the broker is sending.
FeedComplete ==
    \A c \in clients :
        got[c] = SubSeq(log, since[c] + 1, Len(log) - IF c \in todo THEN 1 ELSE 0)

-----------------------------------------------------------------------------
(* Progress.                                                               *)

\* Clients that come and go, or write slowly, never stop a broadcast.
BroadcastEnds == pc = "sending" ~> pc = "select"

\* A row change the service has in hand is broadcast.
EventTaken == hand # NoEvent ~> hand = NoEvent

\* A browser that connects is joined.
ConnectionJoins == \A c \in Clients : handler[c] = "joining" ~> c \in clients

\* A connection that closes is forgotten and its handler returns.
ConnectionEnds ==
    \A c \in Clients : handler[c] # "none" /\ ~up[c] ~> handler[c] = "none"

-----------------------------------------------------------------------------
(* The service is an event feed.                                           *)

Feed == INSTANCE EventFeed WITH
    Events <- Messages, feed <- log, subscribed <- clients

FeedSpec == Feed!Spec
=============================================================================
