----------------------------- MODULE LiveUpdates -----------------------------
(***************************************************************************)
(* The SSE service goroutine by goroutine (SseBroker) and the way from a   *)
(* changed row to a page (EngagementSync, of which the service is one      *)
(* hop), side by side: they share no variable.  A behaviour moves the one  *)
(* that `part` names and leaves the other as it begins.                    *)
(***************************************************************************)
EXTENDS EngagementSync, SseBroker

VARIABLE part

live == <<part, brokerVars, vars>>

LiveInit == part \in {"service", "page"} /\ BrokerInit /\ Init

LiveNext ==
    \/ part = "service" /\ BrokerNext /\ UNCHANGED <<part, vars>>
    \/ part = "page" /\ Next /\ UNCHANGED <<part, brokerVars>>

\* The fairness of each: of the service as it is, for until a step of its own has
\* happened nothing there is ready.
OnPage(A) == part = "page" /\ A /\ UNCHANGED <<part, brokerVars>>

LiveFairness ==
    /\ BrokerFairness
    /\ WF_live(OnPage(Deliver)) /\ WF_live(OnPage(Page))
    /\ WF_live(OnPage(Answer)) /\ WF_live(OnPage(Save))

LiveSpec == LiveInit /\ [][LiveNext]_live /\ LiveFairness
-----------------------------------------------------------------------------
\* The page settles on what the tables hold but for what was lost
\* (EngagementSync), if it is the part that moves.
PageConverges == part = "page" => Converges
=============================================================================
