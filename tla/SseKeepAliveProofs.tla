-------------------------- MODULE SseKeepAliveProofs --------------------------
(***************************************************************************)
(* Proofs about SseKeepAlive for any clients and period and any number of  *)
(* joins and leaves.                                                       *)
(***************************************************************************)
EXTENDS SseKeepAlive, TLAPS

\* A client's silence is made of full periods, one at most for each join or
\* leave since it was sent something, and of what the timer has counted since
\* the last of them.
SilenceInv == \A c \in attached : quiet[c] <= churn[c] * Period + timer

KeepAliveInv == KeepAliveTypeOK /\ SilenceInv

\* One more period for one more join or leave.
LEMMA OneMore ==
    ASSUME NEW n \in Nat
    PROVE  n * Period \in Nat /\ (n + 1) * Period = n * Period + Period
  BY KeepAliveAssumption

LEMMA InitKeepAlive == KeepAliveInit => KeepAliveInv
  BY KeepAliveAssumption DEF KeepAliveInit, KeepAliveInv, KeepAliveTypeOK, SilenceInv

\* A unit of time is counted by the timer and by every attached client alike.
LEMMA WaitKeepsInv == KeepAliveInv /\ Wait => KeepAliveInv'
  <1> SUFFICES ASSUME KeepAliveInv, Wait PROVE KeepAliveInv'
    OBVIOUS
  <1> USE KeepAliveAssumption DEF KeepAliveInv, KeepAliveTypeOK, Wait
  <1>1. KeepAliveTypeOK'
    OBVIOUS
  <1>2. SilenceInv'
    <2> SUFFICES ASSUME NEW c \in attached
                 PROVE  quiet[c] + 1 <= churn[c] * Period + timer + 1
      BY DEF SilenceInv
    <2>1. churn[c] * Period \in Nat
      BY OneMore
    <2> QED
      BY <2>1 DEF SilenceInv
  <1> QED
    BY <1>1, <1>2

\* A join or a leave starts the timer anew, and is counted by every client that
\* was attached and still is.
LEMMA ChangesKeepsInv ==
    ASSUME KeepAliveInv, NEW c \in Connections, Join(c) \/ Leave(c)
    PROVE  KeepAliveInv'
  <1> USE KeepAliveAssumption DEF KeepAliveInv, KeepAliveTypeOK, Join, Leave, Changes
  <1>1. KeepAliveTypeOK'
    OBVIOUS
  <1>2. ASSUME NEW d \in attached', d # c
        PROVE  quiet'[d] <= churn'[d] * Period + timer'
    <2>1. d \in attached /\ d \in Connections
      BY <1>2
    <2>2. churn'[d] = churn[d] + 1 /\ quiet'[d] = quiet[d] /\ timer' = 0
      BY <1>2, <2>1
    <2>3. /\ churn[d] * Period \in Nat
          /\ (churn[d] + 1) * Period = churn[d] * Period + Period
      BY <2>1, OneMore
    <2>4. quiet[d] <= churn[d] * Period + timer
      BY <2>1 DEF SilenceInv
    <2> QED
      BY <2>1, <2>2, <2>3, <2>4
  <1>3. quiet'[c] <= churn'[c] * Period + timer'
    <2>1. quiet'[c] = 0 /\ churn'[c] = 0 /\ timer' = 0
      OBVIOUS
    <2> QED
      BY <2>1
  <1>4. SilenceInv'
    BY <1>2, <1>3 DEF SilenceInv
  <1> QED
    BY <1>1, <1>4

\* After a message or a tick nobody is silent.
LEMMA SendAllKeepsInv == KeepAliveInv /\ SendAll => KeepAliveInv'
  BY KeepAliveAssumption DEF KeepAliveInv, KeepAliveTypeOK, SilenceInv, SendAll

\* The invariant holds from the start and through every step.
LEMMA KeepAliveInvariant == KeepAliveSpec => []KeepAliveInv
  <1>1. KeepAliveInv /\ [KeepAliveNext]_keepAliveVars => KeepAliveInv'
    <2> SUFFICES ASSUME KeepAliveInv, [KeepAliveNext]_keepAliveVars PROVE KeepAliveInv'
      OBVIOUS
    <2>1. CASE Wait
      BY <2>1, WaitKeepsInv
    <2>2. CASE Message \/ SendTick
      BY <2>2, SendAllKeepsInv DEF Message, SendTick
    <2>3. ASSUME NEW c \in Connections, Join(c) \/ Leave(c) PROVE KeepAliveInv'
      BY <2>3, ChangesKeepsInv
    <2>4. CASE UNCHANGED keepAliveVars
      BY <2>4 DEF keepAliveVars, KeepAliveInv, KeepAliveTypeOK, SilenceInv
    <2> QED
      BY <2>1, <2>2, <2>3, <2>4 DEF KeepAliveNext
  <1> QED
    BY InitKeepAlive, <1>1, PTL DEF KeepAliveSpec

\* The broker's timer and what is counted with it stay in their ranges: a tick
\* is never overdue.
THEOREM TimerCorrect == KeepAliveSpec => []KeepAliveTypeOK
  BY KeepAliveInvariant, PTL DEF KeepAliveInv

\* Whatever the period and however many clients come and go, a client is silent
\* for one period at most and one more for each of them.
THEOREM SilenceBound == KeepAliveSpec => []SilenceBounded
  <1>1. KeepAliveInv => SilenceBounded
    <2> SUFFICES ASSUME KeepAliveInv, NEW c \in attached
                 PROVE  quiet[c] <= (churn[c] + 1) * Period
      BY DEF SilenceBounded
    <2> USE KeepAliveAssumption DEF KeepAliveInv, KeepAliveTypeOK
    <2>1. /\ churn[c] * Period \in Nat
          /\ (churn[c] + 1) * Period = churn[c] * Period + Period
      BY OneMore
    <2>2. quiet[c] <= churn[c] * Period + timer
      BY DEF SilenceInv
    <2> QED
      BY <2>1, <2>2
  <1> QED
    BY <1>1, KeepAliveInvariant, PTL
=============================================================================
