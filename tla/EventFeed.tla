----------------------------- MODULE EventFeed -----------------------------
(***************************************************************************)
(* What the SSE service promises its clients: a subscriber receives every  *)
(* event from the one after its subscription on, in order and once each,   *)
(* until it leaves.                                                        *)
(***************************************************************************)
EXTENDS Naturals, Sequences

CONSTANTS Clients, Events

VARIABLES feed,        \* all events broadcast so far
          since,       \* since[c]: length of the feed when c subscribed
          got,         \* got[c]: the events c has received
          subscribed   \* the clients that are subscribed

vars == <<feed, since, got, subscribed>>

Init ==
    /\ feed = <<>>
    /\ since = [c \in Clients |-> 0]
    /\ got = [c \in Clients |-> <<>>]
    /\ subscribed = {}

Broadcast ==
    /\ \E e \in Events : feed' = Append(feed, e)
    /\ UNCHANGED <<since, got, subscribed>>

Subscribe(c) ==
    /\ c \notin subscribed
    /\ subscribed' = subscribed \cup {c}
    /\ since' = [since EXCEPT ![c] = Len(feed)]
    /\ got' = [got EXCEPT ![c] = <<>>]
    /\ UNCHANGED feed

Received(c) == since[c] + Len(got[c])

Receive(c) ==
    /\ c \in subscribed
    /\ Received(c) < Len(feed)
    /\ got' = [got EXCEPT ![c] = Append(@, feed[Received(c) + 1])]
    /\ UNCHANGED <<feed, since, subscribed>>

\* A client leaves with nothing owed to it.
Unsubscribe(c) ==
    /\ c \in subscribed
    /\ Received(c) = Len(feed)
    /\ subscribed' = subscribed \ {c}
    /\ UNCHANGED <<feed, since, got>>

Next == Broadcast \/ \E c \in Clients : Subscribe(c) \/ Receive(c) \/ Unsubscribe(c)

Spec == Init /\ [][Next]_vars
=============================================================================
