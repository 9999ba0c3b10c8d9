------------------------------ MODULE WebClient ------------------------------
(***************************************************************************)
(* The four parts of the web client that share no state: its build         *)
(* (ClientBuild), the ports of server-sent events (EventPorts), the        *)
(* quizzes (QuizPage) and the assignments (AssignmentPage) of a tab.  As   *)
(* no step of one can be told from the others, a behaviour moves one of    *)
(* them, which `part` names, and leaves the rest as they begin.            *)
(***************************************************************************)
EXTENDS ClientBuild, EventPorts, QuizPage

CONSTANTS Assignments, Texts, Empty

VARIABLES
    part,
    written, aRequests, aSubmissions, aPendingBegin, pendingSave, aInputs

Work == INSTANCE AssignmentPage WITH
    requests <- aRequests, submissions <- aSubmissions,
    pendingBegin <- aPendingBegin, inputs <- aInputs

ASSUME PagesAssumption == QuizPageAssumption /\ Work!AssignmentPageAssumption

quizVars == <<started, saved, requests, submissions, pendingBegin, pendingSubmit,
              quizQuestions, quizAnswers, inputs, toggled>>
workVars == <<written, aRequests, aSubmissions, aPendingBegin, pendingSave, aInputs>>
all      == <<part, buildVars, portVars, quizVars, workVars>>

Parts == {"build", "ports", "quizzes", "assignments"}

ClientInit ==
    /\ part \in Parts
    /\ BuildInit /\ InitPorts /\ Init /\ Work!Init
    /\ part # "quizzes" => started = {}
    /\ part # "assignments" => written = Work!Nothing

\* A step A of part p, the state of the others being rest.
Only(p, A, rest) == part = p /\ A /\ UNCHANGED <<part, rest>>

BuildRest == <<portVars, quizVars, workVars>>
QuizRest  == <<buildVars, portVars, workVars>>
WorkRest  == <<buildVars, portVars, quizVars>>

ClientNext ==
    \/ part = "build" /\ BuildNext /\ UNCHANGED <<part, portVars, quizVars, workVars>>
    \/ part = "ports" /\ NextPorts /\ UNCHANGED <<part, buildVars, quizVars, workVars>>
    \/ part = "quizzes" /\ Next /\ UNCHANGED <<part, buildVars, portVars, workVars>>
    \/ part = "assignments" /\ Work!Next /\ UNCHANGED <<part, buildVars, portVars, quizVars>>

\* The fairness of each part.
ClientFairness ==
    /\ WF_all(Only("build", Rebuild, BuildRest))
    /\ WF_all(Only("build", \E f \in todo : Write(f), BuildRest))
    /\ \A i \in Slots :
          /\ WF_all(Only("quizzes", Serve(i), QuizRest))
          /\ WF_all(Only("quizzes", Receive(i), QuizRest))
          /\ WF_all(Only("assignments", Work!Serve(i), WorkRest))
          /\ WF_all(Only("assignments", Work!Receive(i), WorkRest))

ClientSpec == ClientInit /\ [][ClientNext]_all /\ ClientFairness
-----------------------------------------------------------------------------
\* Every part keeps its types.
ClientTypeOK == BuildTypeOK /\ TypeOK /\ QuizTypeOK /\ Work!TypeOK

\* Assignments: what is shown, what a begin waits for and how it ends
\* (AssignmentPage).
ExistingShown == Work!ExistingShown
BeginAwaited  == Work!BeginAwaited
BeginEnds     == Work!BeginEnds
=============================================================================
