------------------------------ MODULE QuizPage ------------------------------
(***************************************************************************)
(* The quizzes of the web client in one browser tab: starting a quiz,      *)
(* opening it, ticking options, saving, with the requests it sends.  A     *)
(* request is carried out and answered at any time, in any order, or fails *)
(* before or after it has been carried out.  The tables are those of       *)
(* module QuizTaking, seen from one student who uses one tab: a save is    *)
(* one step, and time and policies are left out.                           *)
(***************************************************************************)
EXTENDS Naturals, FiniteSets

CONSTANTS
    Quizzes, Questions, Options,
    QuizOf,       \* QuizOf[k]: the quiz of question k
    QuestionOf,   \* QuestionOf[o]: the question of option o
    Radio,        \* the questions without multiple_correct
    Slots,        \* bound: as many requests are in flight at once
    Patient       \* whether she opens a quiz only when nothing of it is in flight, and
                  \* begins one only when none is being begun

QuizPageAssumption ==
    /\ QuizOf \in [Questions -> Quizzes] /\ QuestionOf \in [Options -> Questions]
    /\ Radio \subseteq Questions /\ Patient \in BOOLEAN
    /\ Quizzes # {} /\ Slots # {} /\ IsFiniteSet(Slots)

OptionsOf(q) == {o \in Options : QuizOf[QuestionOf[o]] = q}
Alternatives(o) == {x \in Options : QuestionOf[x] = QuestionOf[o]}

VARIABLES
    started,            \* table quiz_submission, her rows
    saved,              \* table quiz_answer, her rows
    requests,           \* the requests in flight
    submissions,        \* model.quizSubmissions
    pendingBegin,       \* model.pendingBeginQuizzes
    pendingSubmit,      \* model.pendingSubmitQuizzes
    quizQuestions,      \* model.quizQuestions, without the questions
    quizAnswers,        \* model.quizAnswers
    inputs,             \* model.quizQuestionOptionInputs
    toggled             \* history: options she changed since their quiz was fetched

db      == <<started, saved>>
begins  == <<submissions, pendingBegin>>
answers == <<pendingSubmit, quizQuestions, quizAnswers, inputs, toggled>>
vars    == <<db, requests, begins, answers>>

\* RemoteData, and Nothing where the page's dictionary has no entry.
NotAsked   == [is |-> "NotAsked"]
Loading    == [is |-> "Loading"]
Failure    == [is |-> "Failure"]
Success(x) == [is |-> "Success", value |-> x]
WebData(S) == {NotAsked, Loading, Failure} \cup {Success(x) : x \in S}

\* "begin" is a POST and then, as "begun", a GET of all the submissions.
Kinds == {"submissions", "begin", "begun", "questions", "answers", "save"}
Free  == [kind |-> "free"]
Request ==
    [kind : Kinds, quiz : Quizzes, body : SUBSET Options,
     response : WebData((SUBSET Options) \cup (SUBSET Quizzes))]

QuizTypeOK ==
    /\ started \subseteq Quizzes /\ saved \subseteq {o \in Options : QuizOf[QuestionOf[o]] \in started}
    /\ requests \in [Slots -> Request \cup {Free}]
    /\ submissions \in WebData(SUBSET Quizzes)
    /\ pendingBegin \in [Quizzes -> {NotAsked, Loading, Failure}]
    /\ pendingSubmit \in [Quizzes -> {NotAsked, Loading, Failure}]
    /\ quizQuestions \in [Quizzes -> {NotAsked, Loading, Failure, Success({})}]
    /\ quizAnswers \in [Quizzes -> WebData(SUBSET Options)]
    /\ inputs \subseteq Options /\ toggled \subseteq Options

InFlight == {i \in Slots : requests[i] # Free}
Of(q)    == {i \in InFlight : requests[i].quiz = q}

\* The slots that the requests of a step are put in.
Unused  == Slots \ InFlight
First   == CHOOSE i \in Unused : TRUE
Second  == CHOOSE i \in Unused \ {First} : TRUE
Ask(kind, q, body) == [kind |-> kind, quiz |-> q, body |-> body, response |-> Loading]

\* The page has loaded and asks for the submissions; some of the quizzes have
\* been started, and some answers saved, before.
Init ==
    /\ started \in SUBSET Quizzes
    /\ saved \in SUBSET {o \in Options : QuizOf[QuestionOf[o]] \in started}
    /\ LET i == CHOOSE i \in Slots : TRUE
           q == CHOOSE q \in Quizzes : TRUE
       IN  requests = [[j \in Slots |-> Free] EXCEPT ![i] = Ask("submissions", q, {})]
    /\ submissions = Loading
    /\ pendingBegin = [q \in Quizzes |-> NotAsked]
    /\ pendingSubmit = [q \in Quizzes |-> NotAsked]
    /\ quizQuestions = [q \in Quizzes |-> NotAsked]
    /\ quizAnswers = [q \in Quizzes |-> NotAsked]
    /\ inputs = {} /\ toggled = {}
-----------------------------------------------------------------------------
(* What the student does.                                                  *)

Shown(q, list) == list.is = "Success" /\ q \in list.value

\* "Begin quiz" is shown for a quiz that the page does not know as started, and
\* disabled once it has been pressed, until it succeeds.
OnBeginQuiz(q) ==
    /\ submissions.is = "Success" /\ q \notin submissions.value
    /\ pendingBegin[q] = NotAsked
    /\ Patient => \A i \in InFlight : requests[i].kind \notin {"begin", "begun"}
    /\ Unused # {}
    /\ pendingBegin' = [pendingBegin EXCEPT ![q] = Loading]
    /\ requests' = [requests EXCEPT ![First] = Ask("begin", q, {})]
    /\ UNCHANGED <<db, submissions, answers>>

\* takeQuiz, from "Edit quiz" or when a quiz has been begun.
TakeQuiz(q, rest) ==
    LET i == CHOOSE i \in {j \in Slots : rest[j] = Free} : TRUE
        j == CHOOSE j \in {j \in Slots \ {i} : rest[j] = Free} : TRUE
    IN  /\ Cardinality({k \in Slots : rest[k] = Free}) >= 2
        /\ requests' = [rest EXCEPT ![i] = Ask("questions", q, {}), ![j] = Ask("answers", q, {})]
        /\ quizQuestions' = [quizQuestions EXCEPT ![q] = Loading]
        /\ quizAnswers' = [quizAnswers EXCEPT ![q] = Loading]
        /\ UNCHANGED <<pendingSubmit, inputs, toggled>>

EditQuiz(q) ==
    /\ Shown(q, submissions)
    /\ Patient => Of(q) = {}
    /\ TakeQuiz(q, requests)
    /\ UNCHANGED <<db, begins>>

\* The form of a quiz is shown, under its own address, when all it needs is there.
FormShown(q) ==
    /\ Shown(q, submissions)
    /\ quizQuestions[q].is = "Success" /\ quizAnswers[q].is = "Success"

OnToggleQuizQuestionOption(o) ==
    /\ QuestionOf[o] \notin Radio /\ FormShown(QuizOf[QuestionOf[o]])
    /\ inputs' = IF o \in inputs THEN inputs \ {o} ELSE inputs \cup {o}
    /\ toggled' = toggled \cup {o}
    /\ UNCHANGED <<db, requests, begins, pendingSubmit, quizQuestions, quizAnswers>>

OnSelectQuizQuestionOption(o) ==
    /\ QuestionOf[o] \in Radio /\ FormShown(QuizOf[QuestionOf[o]])
    /\ inputs' = (inputs \ Alternatives(o)) \cup {o}
    /\ toggled' = toggled \cup Alternatives(o)
    /\ UNCHANGED <<db, requests, begins, pendingSubmit, quizQuestions, quizAnswers>>

OnSubmitQuizAnswers(q) ==
    /\ FormShown(q) /\ pendingSubmit[q] # Loading
    /\ Unused # {}
    /\ pendingSubmit' = [pendingSubmit EXCEPT ![q] = Loading]
    /\ requests' = [requests EXCEPT ![First] = Ask("save", q, inputs \cap OptionsOf(q))]
    /\ UNCHANGED <<db, begins, quizQuestions, quizAnswers, inputs, toggled>>
-----------------------------------------------------------------------------
(* The requests.                                                           *)

Waiting(i, kind) == requests[i] # Free /\ requests[i].kind = kind /\ requests[i].response = Loading

Answer(i, response) == requests' = [requests EXCEPT ![i].response = response]

\* GET of submissions, questions or answers.
Read(i) ==
    /\ \/ /\ Waiting(i, "submissions") \/ Waiting(i, "begun")
          /\ Answer(i, Success(started))
       \/ Waiting(i, "questions") /\ Answer(i, Success({}))
       \/ Waiting(i, "answers") /\ Answer(i, Success(saved \cap OptionsOf(requests[i].quiz)))
    /\ UNCHANGED <<db, begins, answers>>

\* POST of a submission; the key refuses a second one.
Insert(i) ==
    /\ Waiting(i, "begin")
    /\ IF requests[i].quiz \in started
       THEN Answer(i, Failure) /\ UNCHANGED started
       ELSE /\ started' = started \cup {requests[i].quiz}
            /\ requests' = [requests EXCEPT ![i].kind = "begun"]
    /\ UNCHANGED <<saved, begins, answers>>

\* Mutant: the answers to every quiz are replaced.
SaveQuiz_EveryQuiz(i) ==
    /\ Waiting(i, "save")
    /\ saved' = requests[i].body
    /\ Answer(i, Success(requests[i].body))
    /\ UNCHANGED <<started, begins, answers>>

\* POST to save_quiz, which returns the rows it has inserted.
SaveQuiz(i) ==
    /\ Waiting(i, "save")
    /\ saved' = (saved \ OptionsOf(requests[i].quiz)) \cup requests[i].body
    /\ Answer(i, Success(requests[i].body))
    /\ UNCHANGED <<started, begins, answers>>

\* A request is refused, or its response is lost.
Fails(i) ==
    /\ requests[i] # Free /\ requests[i].response # Failure
    /\ Answer(i, Failure)
    /\ UNCHANGED <<db, begins, answers>>
-----------------------------------------------------------------------------
(* The responses.                                                          *)

Arrives(i, kinds) == requests[i] # Free /\ requests[i].kind \in kinds /\ requests[i].response # Loading
Done(i) == [requests EXCEPT ![i] = Free]

OnFetchQuizSubmissions(i) ==
    /\ Arrives(i, {"submissions"})
    /\ submissions' = requests[i].response
    /\ requests' = Done(i)
    /\ UNCHANGED <<db, pendingBegin, answers>>

\* Mutant: the entry of the quiz is replaced by the response, not removed.
OnBeginQuizComplete_Kept(i) ==
    /\ Arrives(i, {"begin", "begun"})
    /\ LET response == requests[i].response
       IN  /\ pendingBegin' = [pendingBegin EXCEPT ![requests[i].quiz] = response]
           /\ submissions' = IF response.is = "Success" THEN response ELSE submissions
           /\ TakeQuiz(requests[i].quiz, Done(i))
    /\ UNCHANGED db

\* The quiz is opened whether or not it could be begun.
OnBeginQuizComplete(i) ==
    /\ Arrives(i, {"begin", "begun"})
    /\ LET q == requests[i].quiz
           response == requests[i].response
       IN  /\ IF response.is = "Success"
              THEN /\ pendingBegin' = [pendingBegin EXCEPT ![q] = NotAsked]
                   /\ submissions' = response
              ELSE /\ pendingBegin' = [pendingBegin EXCEPT ![q] = response]
                   /\ UNCHANGED submissions
           /\ TakeQuiz(q, Done(i))
    /\ UNCHANGED db

OnFetchQuizQuestions(i) ==
    /\ Arrives(i, {"questions"})
    /\ quizQuestions' = [quizQuestions EXCEPT ![requests[i].quiz] = requests[i].response]
    /\ requests' = Done(i)
    /\ UNCHANGED <<db, begins, pendingSubmit, quizAnswers, inputs, toggled>>

\* The inputs of every quiz are replaced by the answers saved for this one.
OnFetchQuizAnswers(i) ==
    /\ Arrives(i, {"answers"})
    /\ LET q == requests[i].quiz
           response == requests[i].response
       IN  /\ quizAnswers' = [quizAnswers EXCEPT ![q] = response]
           /\ IF response.is = "Success"
              THEN inputs' = response.value /\ toggled' = toggled \ OptionsOf(q)
              ELSE UNCHANGED <<inputs, toggled>>
    /\ requests' = Done(i)
    /\ UNCHANGED <<db, begins, pendingSubmit, quizQuestions>>

\* Mutant: a failure leaves the button greyed out.
OnSubmitQuizAnswersComplete_StillPending(i) ==
    /\ Arrives(i, {"save"})
    /\ LET q == requests[i].quiz
           response == requests[i].response
       IN  /\ pendingSubmit' = [pendingSubmit EXCEPT ![q] =
                                   IF response.is = "Success" THEN NotAsked ELSE Loading]
           /\ quizAnswers' = [quizAnswers EXCEPT ![q] = response]
    /\ requests' = Done(i)
    /\ UNCHANGED <<db, begins, quizQuestions, inputs, toggled>>

OnSubmitQuizAnswersComplete(i) ==
    /\ Arrives(i, {"save"})
    /\ LET q == requests[i].quiz
           response == requests[i].response
       IN  /\ pendingSubmit' = [pendingSubmit EXCEPT ![q] =
                                   IF response.is = "Success" THEN NotAsked ELSE response]
           /\ quizAnswers' = [quizAnswers EXCEPT ![q] = response]
    /\ requests' = Done(i)
    /\ UNCHANGED <<db, begins, quizQuestions, inputs, toggled>>

Student ==
    \/ \E q \in Quizzes : OnBeginQuiz(q) \/ EditQuiz(q) \/ OnSubmitQuizAnswers(q)
    \/ \E o \in Options : OnToggleQuizQuestionOption(o) \/ OnSelectQuizQuestionOption(o)

Serve(i) == Read(i) \/ Insert(i) \/ SaveQuiz(i)

Receive(i) ==
    \/ OnFetchQuizSubmissions(i) \/ OnBeginQuizComplete(i) \/ OnFetchQuizQuestions(i)
    \/ OnFetchQuizAnswers(i) \/ OnSubmitQuizAnswersComplete(i)

Next == Student \/ \E i \in Slots : Serve(i) \/ Fails(i) \/ Receive(i)

Spec == Init /\ [][Next]_vars

\* A request is carried out or fails, and the page handles what arrives.
FairSpec == Spec /\ \A i \in Slots : WF_vars(Serve(i)) /\ WF_vars(Receive(i))
-----------------------------------------------------------------------------
(* Properties.                                                             *)

\* "show "SAVED" next to particular quiz question options": with nothing of the
\* quiz in flight, the form marks the answers that are saved and no others.
LabelsTrue ==
    \A q \in Quizzes : FormShown(q) /\ Of(q) = {} => quizAnswers[q].value = saved \cap OptionsOf(q)

\* "if an option is saved it also shows up as initially checked": an option of a
\* form she has not changed since the form was fetched is checked if and only if
\* it is marked as saved.
SavedChecked ==
    \A q \in Quizzes : FormShown(q) =>
        \A o \in OptionsOf(q) \ toggled : (o \in inputs) = (o \in quizAnswers[q].value)

\* Saving takes back only answers that she has changed in the form.
KeepsUntouched == [][saved \ saved' \subseteq toggled]_vars

\* Of a quiz the page knows as started it does not say again "You did not yet
\* start the quiz": the list that a begin brings is no older than the one it
\* replaces.  (It can be, when two begins are answered out of order.)
StartedKnown == [][\A q \in Quizzes : Shown(q, submissions) => Shown(q, submissions')]_vars

\* What the page shows as under way is under way: a greyed-out button, or a part
\* that is "loading", waits for a request in flight, however answers overlap.
Sent(q, kinds) == \E i \in Of(q) : requests[i].kind \in kinds
LoadingAwaited ==
    /\ submissions = Loading => \E i \in InFlight : requests[i].kind = "submissions"
    /\ \A q \in Quizzes :
        /\ pendingBegin[q] = Loading => Sent(q, {"begin", "begun"})
        /\ pendingSubmit[q] = Loading => Sent(q, {"save"})
        /\ quizQuestions[q] = Loading => Sent(q, {"questions"})
        /\ quizAnswers[q] = Loading => Sent(q, {"answers"})

\* A save comes to an end on the page, whatever fails or is lost: "Save Answers"
\* is not greyed out for ever ("HTTP Error!" takes the form's place if it failed).
PendingEnds == \A q \in Quizzes : pendingSubmit[q] = Loading ~> pendingSubmit[q] # Loading
=============================================================================
