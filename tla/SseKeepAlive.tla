--------------------------- MODULE SseKeepAlive ---------------------------
(***************************************************************************)
(* The keep-alive of the SSE service in time.  The broker's loop makes a   *)
(* new timer each time it comes round to its select, so whatever it        *)
(* handles restarts the wait for the next tick.  Handling something is     *)
(* instantaneous here; SseBroker has its steps.                            *)
(***************************************************************************)
EXTENDS Integers

CONSTANTS
    Connections,
    Period,    \* the wait before a tick (30 s in the code)
    MaxChurn   \* bound on the joins and leaves without a message

ASSUME KeepAliveAssumption == Period \in Nat \ {0} /\ MaxChurn \in Nat

VARIABLES
    attached,  \* the broker's map
    timer,     \* time since the select's timer was made
    quiet,     \* quiet[c]: time since c was attached or sent something
    churn      \* churn[c]: joins and leaves handled since then

keepAliveVars == <<attached, timer, quiet, churn>>

KeepAliveTypeOK ==
    /\ attached \subseteq Connections
    /\ timer \in 0 .. Period
    /\ quiet \in [Connections -> Nat]
    /\ churn \in [Connections -> 0 .. MaxChurn]

KeepAliveInit ==
    /\ attached = {}
    /\ timer = 0
    /\ quiet = [c \in Connections |-> 0]
    /\ churn = [c \in Connections |-> 0]

\* Mutant: the timer is left out of the select.
Wait_NoTimer ==
    /\ timer' = timer + 1
    /\ quiet' = [c \in Connections |-> IF c \in attached THEN quiet[c] + 1 ELSE 0]
    /\ UNCHANGED <<attached, churn>>

\* A unit of time passes with nothing on any channel.
Wait ==
    /\ timer < Period
    /\ timer' = timer + 1
    /\ quiet' = [c \in Connections |-> IF c \in attached THEN quiet[c] + 1 ELSE 0]
    /\ UNCHANGED <<attached, churn>>

\* A client joins or leaves: the others hear nothing, and the timer is new.
Changes(c, set) ==
    /\ \A d \in Connections : churn[d] < MaxChurn
    /\ attached' = set
    /\ timer' = 0
    /\ quiet' = [quiet EXCEPT ![c] = 0]
    /\ churn' = [d \in Connections |-> IF d \in attached \ {c} THEN churn[d] + 1 ELSE 0]

Join(c) == c \notin attached /\ Changes(c, attached \cup {c})

Leave(c) == c \in attached /\ Changes(c, attached \ {c})

SendAll ==
    /\ timer' = 0
    /\ quiet' = [c \in Connections |-> 0]
    /\ churn' = [c \in Connections |-> 0]
    /\ UNCHANGED attached

Message == SendAll

SendTick == timer = Period /\ SendAll

KeepAliveNext == Wait \/ Message \/ SendTick \/ \E c \in Connections : Join(c) \/ Leave(c)

KeepAliveSpec == KeepAliveInit /\ [][KeepAliveNext]_keepAliveVars

\* "This tick is sent in order to keep the SSE connection alive": a client is
\* silent for a period at most, and for another one for each client that joins
\* or leaves meanwhile.
SilenceBounded ==
    \A c \in attached : quiet[c] <= (churn[c] + 1) * Period
=============================================================================
