------------------------------- MODULE Server -------------------------------
(***************************************************************************)
(* Three parts of the server side that share no state with each other: the *)
(* sessions of nginx (Sessions), the command that grades quizzes (Grading) *)
(* and the keep-alive of the SSE service (SseKeepAlive).  A behaviour      *)
(* moves the one `part` names and leaves the others as they begin.         *)
(***************************************************************************)
EXTENDS Sessions, Grading, SseKeepAlive

VARIABLE part

all == <<part, vars, gradingVars, keepAliveVars>>

ServerInit ==
    /\ part \in {"sessions", "grading", "keep-alive"}
    /\ Init /\ GradingInit /\ KeepAliveInit
    /\ part # "sessions" => role = "none"
    /\ part # "grading" => correct = {} /\ submissions = {}

\* A step A of the sessions, and one of the grading.
InSessions(A) == part = "sessions" /\ A /\ UNCHANGED <<part, gradingVars, keepAliveVars>>
InGrading(A)  == part = "grading" /\ A /\ UNCHANGED <<part, vars, keepAliveVars>>

ServerNext ==
    \/ part = "sessions" /\ Next /\ UNCHANGED <<part, gradingVars, keepAliveVars>>
    \/ part = "grading" /\ GradingNext /\ UNCHANGED <<part, vars, keepAliveVars>>
    \/ part = "keep-alive" /\ KeepAliveNext /\ UNCHANGED <<part, vars, gradingVars>>

\* The fairness of the first two.
ServerFairness ==
    /\ \A t \in Tabs :
          /\ WF_all(InSessions(Nginx(t))) /\ WF_all(InSessions(Receive(t)))
          /\ WF_all(InSessions(Follow(t)))
          /\ SF_all(InSessions(CasReturns(t))) /\ SF_all(InSessions(ValidateWithCAS(t)))
    /\ WF_all(InGrading(Grader)) /\ WF_all(InGrading(Clock))

ServerSpec == ServerInit /\ [][ServerNext]_all /\ ServerFairness
-----------------------------------------------------------------------------
\* All parts keep their types.
ServerTypeOK == TypeOK /\ GradingTypeOK /\ KeepAliveTypeOK
=============================================================================
