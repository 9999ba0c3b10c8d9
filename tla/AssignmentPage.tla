---------------------------- MODULE AssignmentPage ----------------------------
(***************************************************************************)
(* The assignments of the web client in one browser tab: beginning one,    *)
(* typing into its form and submitting that, with the requests this sends. *)
(* A request is carried out and answered at any time, in any order, or     *)
(* fails before or after it has been carried out.  The tables are those of *)
(* module Assignments, seen from one student who works alone; an           *)
(* assignment has one field.                                               *)
(***************************************************************************)
EXTENDS Naturals, FiniteSets

CONSTANTS
    Assignments,
    Texts,     \* what can be typed
    Empty,     \* a field that has not been written, or typed into
    Slots,     \* bound: as many requests are in flight at once
    Patient    \* whether she waits for the answers before she sends the next

AssignmentPageAssumption == Empty \notin Texts /\ Patient \in BOOLEAN /\ Assignments # {}

VARIABLES
    written,       \* tables assignment_submission and assignment_field_submission
    requests,      \* the requests in flight
    submissions,   \* model.assignmentSubmissions
    pendingBegin,  \* model.pendingBeginAssignments
    pendingSave,   \* model.pendingAssignmentFieldSubmissionRequests
    inputs         \* model.assignmentFieldSubmissionInputs

forms == <<pendingSave, inputs>>
vars  == <<written, requests, submissions, pendingBegin, forms>>

\* A partial function from the assignments begun to what is in the field.
Lists  == UNION {[A -> Texts \cup {Empty}] : A \in SUBSET Assignments}
States == {"NotAsked", "Loading", "Failure"}

Free    == [kind |-> "free"]
Request ==
    [kind : {"begin", "save", "fetch"}, assignment : Assignments, body : Texts \cup {Empty},
     response : {"waiting", "success", "failure"}, list : Lists]

TypeOK ==
    /\ written \in Lists
    /\ requests \in [Slots -> Request \cup {Free}]
    /\ submissions \in [is : {"Loading", "Failure", "Success"}, list : Lists]
    /\ pendingBegin \in [Assignments -> States]
    /\ pendingSave \in [Assignments -> {"NotAsked", "Loading"}]
    /\ inputs \in [Assignments -> Texts \cup {Empty}]

Nothing == [a \in {} |-> Empty]

InFlight == {i \in Slots : requests[i] # Free}
Unused   == CHOOSE i \in Slots \ InFlight : TRUE
Call(kind, a, body) ==
    [kind |-> kind, assignment |-> a, body |-> body, response |-> "waiting", list |-> Nothing]

\* The page has loaded and asks for the submissions.
Init ==
    /\ written \in Lists
    /\ LET i == CHOOSE i \in Slots : TRUE
           any == CHOOSE a \in Assignments : TRUE
       IN  requests = [[j \in Slots |-> Free] EXCEPT ![i] = Call("fetch", any, Empty)]
    /\ submissions = [is |-> "Loading", list |-> Nothing]
    /\ pendingBegin = [a \in Assignments |-> "NotAsked"]
    /\ pendingSave = [a \in Assignments |-> "NotAsked"]
    /\ inputs = [a \in Assignments |-> Empty]
-----------------------------------------------------------------------------
(* What the student does.                                                  *)

Listed(a) == submissions.is = "Success" /\ a \in DOMAIN submissions.list

MayAct == Patient => InFlight = {}

\* "Begin assignment" is shown for one that the page does not know as begun, and
\* is greyed out for good once it has been pressed.
OnBeginAssignment(a) ==
    /\ MayAct /\ InFlight # Slots
    /\ submissions.is = "Success" /\ ~Listed(a)
    /\ pendingBegin[a] = "NotAsked"
    /\ pendingBegin' = [pendingBegin EXCEPT ![a] = "Loading"]
    /\ requests' = [requests EXCEPT ![Unused] = Call("begin", a, Empty)]
    /\ UNCHANGED <<written, submissions, forms>>

\* OnUpdateAssignmentFieldSubmissionInput.  The text is in the element, whose
\* value the page does not set, and in the dictionary.
OnUpdateInput(a, text) ==
    /\ Listed(a)
    /\ inputs' = [inputs EXCEPT ![a] = text]
    /\ UNCHANGED <<written, requests, submissions, pendingBegin, pendingSave>>

\* OnSubmitAssignmentFieldSubmissions, from a button that is always there.
OnSubmit(a) ==
    /\ MayAct /\ InFlight # Slots
    /\ Listed(a)
    /\ pendingSave' = [pendingSave EXCEPT ![a] = "Loading"]
    /\ requests' = [requests EXCEPT ![Unused] = Call("save", a, inputs[a])]
    /\ UNCHANGED <<written, submissions, pendingBegin, inputs>>
-----------------------------------------------------------------------------
(* The requests.                                                           *)

Waiting(i, kind) ==
    requests[i] # Free /\ requests[i].kind = kind /\ requests[i].response = "waiting"

Answer(i, response) == requests' = [requests EXCEPT ![i].response = response]

\* POST of a submission, of which there is one.
Begin(i) ==
    /\ Waiting(i, "begin")
    /\ LET it == requests[i].assignment
       IN  IF it \in DOMAIN written
           THEN Answer(i, "failure") /\ UNCHANGED written
           ELSE /\ Answer(i, "success")
                /\ written' = [w \in DOMAIN written \cup {it} |->
                                  IF w = it THEN Empty ELSE written[w]]
    /\ UNCHANGED <<submissions, pendingBegin, forms>>

\* POST of the fields typed into: of none, if none was.
Save(i) ==
    /\ Waiting(i, "save")
    /\ Answer(i, "success")
    /\ written' = IF requests[i].body = Empty THEN written
                  ELSE [written EXCEPT ![requests[i].assignment] = requests[i].body]
    /\ UNCHANGED <<submissions, pendingBegin, forms>>

Read(i) ==
    /\ Waiting(i, "fetch")
    /\ requests' = [requests EXCEPT ![i].response = "success", ![i].list = written]
    /\ UNCHANGED <<written, submissions, pendingBegin, forms>>

\* A request is refused, or its response is lost.
Fails(i) ==
    /\ requests[i] # Free /\ requests[i].response # "failure"
    /\ Answer(i, "failure")
    /\ UNCHANGED <<written, submissions, pendingBegin, forms>>
-----------------------------------------------------------------------------
(* The responses.                                                          *)

Arrives(i, kind, response) ==
    requests[i] # Free /\ requests[i].kind = kind /\ requests[i].response = response

Done(i) == [requests EXCEPT ![i] = Free]

\* Mutant: the new submission is left to the next fetch.
OnBeginAssignmentComplete_NoAppend(i) ==
    /\ \/ /\ Arrives(i, "begin", "failure")
          /\ pendingBegin' = [pendingBegin EXCEPT ![requests[i].assignment] = "Failure"]
       \/ Arrives(i, "begin", "success") /\ UNCHANGED pendingBegin
    /\ requests' = Done(i)
    /\ UNCHANGED <<written, submissions, forms>>

\* The new submission is put at the end of the list, behind one of the same
\* assignment if that has been fetched meanwhile.
OnBeginAssignmentComplete(i) ==
    /\ \/ /\ Arrives(i, "begin", "failure")
          /\ pendingBegin' = [pendingBegin EXCEPT ![requests[i].assignment] = "Failure"]
          /\ UNCHANGED submissions
       \/ /\ Arrives(i, "begin", "success")
          /\ LET it == requests[i].assignment
             IN  IF submissions.is = "Success" /\ ~Listed(it)
                 THEN submissions' = [submissions EXCEPT !.list =
                          [w \in DOMAIN @ \cup {it} |-> IF w = it THEN Empty ELSE @[w]]]
                 ELSE UNCHANGED submissions
          /\ UNCHANGED pendingBegin
    /\ requests' = Done(i)
    /\ UNCHANGED <<written, forms>>

\* Mutant: the submissions are not fetched again.
OnSubmitResponse_NoFetch(i) ==
    /\ \E r \in {"success", "failure"} :
          /\ Arrives(i, "save", r)
          /\ IF r = "success" /\ submissions.is = "Success"
             THEN /\ pendingSave' = [pendingSave EXCEPT ![requests[i].assignment] = "NotAsked"]
                  /\ inputs' = [a \in Assignments |-> Empty]
             ELSE UNCHANGED <<pendingSave, inputs>>
    /\ requests' = Done(i)
    /\ UNCHANGED <<written, submissions, pendingBegin>>

\* OnSubmitAssignmentFieldSubmissionsResponse: every input is forgotten and all
\* submissions are fetched again.  A failure is passed over in silence.
OnSubmitResponse(i) ==
    /\ \E r \in {"success", "failure"} :
          /\ Arrives(i, "save", r)
          /\ IF r = "success" /\ submissions.is = "Success"
             THEN /\ pendingSave' = [pendingSave EXCEPT ![requests[i].assignment] = "NotAsked"]
                  /\ inputs' = [a \in Assignments |-> Empty]
                  /\ requests' = [requests EXCEPT ![i] =
                        Call("fetch", requests[i].assignment, Empty)]
             ELSE UNCHANGED <<pendingSave, inputs>> /\ requests' = Done(i)
    /\ UNCHANGED <<written, submissions, pendingBegin>>

\* The list is replaced by what arrives, a failure too.
OnFetchAssignmentSubmissions(i) ==
    /\ \/ /\ Arrives(i, "fetch", "success")
          /\ submissions' = [is |-> "Success", list |-> requests[i].list]
       \/ /\ Arrives(i, "fetch", "failure")
          /\ submissions' = [is |-> "Failure", list |-> Nothing]
    /\ requests' = Done(i)
    /\ UNCHANGED <<written, pendingBegin, forms>>

Student ==
    \E a \in Assignments :
        OnBeginAssignment(a) \/ OnSubmit(a) \/ \E text \in Texts : OnUpdateInput(a, text)

Serve(i) == Begin(i) \/ Save(i) \/ Read(i)

Receive(i) ==
    OnBeginAssignmentComplete(i) \/ OnSubmitResponse(i) \/ OnFetchAssignmentSubmissions(i)

Next == Student \/ \E i \in Slots : Serve(i) \/ Fails(i) \/ Receive(i)

Spec == Init /\ [][Next]_vars

\* A request is carried out or fails, and the page handles what arrives.
FairSpec == Spec /\ \A i \in Slots : WF_vars(Serve(i)) /\ WF_vars(Receive(i))
-----------------------------------------------------------------------------
(* Properties.                                                             *)

\* "Your existing submission": with nothing in flight, the page shows what is
\* saved, unless the answer to a save has been lost.
ExistingShown ==
    InFlight = {} => \A a \in Assignments :
        Listed(a) /\ pendingSave[a] = "NotAsked" => submissions.list[a] = written[a]

\* The button of an assignment that is neither listed nor shown as failed is
\* greyed out only while its begin is in flight, if there is a list to add to.
Begins(a) == \E i \in InFlight : requests[i].kind = "begin" /\ requests[i].assignment = a
BeginAwaited ==
    \A a \in Assignments :
        pendingBegin[a] = "Loading" /\ submissions.is = "Success" /\ ~Listed(a) => Begins(a)

\* "Begin assignment", once pressed and while the page has a list to add to, leads
\* to an assignment that can be written to or to the failure being shown.
BeginEnds ==
    \A a \in Assignments :
        pendingBegin[a] = "Loading" /\ submissions.is = "Success" /\ ~Listed(a)
            ~> Listed(a) \/ pendingBegin[a] = "Failure"
=============================================================================
