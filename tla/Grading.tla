------------------------------ MODULE Grading -------------------------------
(***************************************************************************)
(* grade_quizzes, a command that is run now and then beside the rest of    *)
(* the system.  It reads and writes in one short transaction after         *)
(* another, while students save answers (those with an extension after the *)
(* quiz has closed, and all of them may delete theirs) and faculty correct *)
(* the quiz.                                                               *)
(***************************************************************************)
EXTENDS Naturals, SequencesExt

CONSTANTS
    Students, Quizzes, Questions, Options,
    QuizOf,      \* QuizOf[k]: the quiz of question k
    QuestionOf,  \* QuestionOf[o]: the question of option o
    Drafts,      \* the quizzes with is_draft
    Extended,    \* pairs of a student and a quiz that have an extension
    MaxPoints,   \* bound on points_possible
    MaxEdits     \* bound on the changes made by students and faculty

ASSUME GradingAssumption ==
    /\ QuizOf \in [Questions -> Quizzes] /\ QuestionOf \in [Options -> Questions]
    /\ Drafts \subseteq Quizzes /\ Extended \subseteq Students \X Quizzes
    /\ IsFiniteSet(Students) /\ IsFiniteSet(Quizzes) /\ IsFiniteSet(Options)
    /\ MaxPoints \in Nat \ {0} /\ MaxEdits \in Nat

OptionsOf(q) == {o \in Options : QuizOf[QuestionOf[o]] = q}

VARIABLES
    closed,       \* the quizzes whose closed_at is past
    answering,    \* pairs of a student and a quiz: she may still answer it
    possible,     \* possible[q]: points_possible
    correct,      \* the options with is_correct
    submissions,  \* pairs of a student and a quiz
    answers,      \* pairs of a student and an option
    grades,       \* the grade of a pair of a student and a quiz, of those graded
    pc,           \* what the command does next
    quizIds,      \* the quizzes it has still to grade, the current one first
    quiz,         \* points_possible as get_quiz read it
    todo,         \* the students whose submissions it has still to grade
    points,       \* the points it is about to write
    done,         \* history: the quizzes it has graded
    touched,      \* history: pairs changed since the run, or their quiz, was begun
    edits         \* changes so far

dbVars      == <<closed, answering, possible, correct, submissions, answers>>
graderVars  == <<pc, quizIds, quiz, todo, points, done>>
gradingVars == <<dbVars, grades, graderVars, touched, edits>>

Pairs    == Students \X Quizzes
NoPoints == [num |-> 0, den |-> 0]

GradingTypeOK ==
    /\ closed \subseteq Quizzes /\ answering \subseteq Pairs
    /\ possible \in [Quizzes -> 0 .. MaxPoints]
    /\ correct \subseteq Options
    /\ submissions \subseteq Pairs /\ answers \subseteq Students \X Options
    /\ DOMAIN grades \subseteq submissions
    /\ \A p \in DOMAIN grades : grades[p].den > 0 /\ grades[p].num <= possible[p[2]] * grades[p].den
    /\ pc \in {"idle", "get_quiz", "get_submissions", "get_answers", "upsert_grade",
               "ended", "raised"}
    /\ quizIds \in Seq(Quizzes)
    /\ quiz \in 0 .. MaxPoints
    /\ todo \in Seq(Students)
    /\ points \in [num : Nat, den : Nat]
    /\ done \subseteq Quizzes
    /\ touched \subseteq Pairs
    /\ edits \in 0 .. MaxEdits

\* Some of the students have begun some of the quizzes; nobody has answered.
GradingInit ==
    /\ closed = {} /\ answering = Pairs
    /\ possible = [q \in Quizzes |-> MaxPoints]
    /\ correct \in SUBSET Options
    /\ submissions \in SUBSET Pairs /\ answers = {}
    /\ grades = [p \in {} |-> NoPoints]
    /\ pc = "idle" /\ quizIds = <<>> /\ quiz = 0 /\ todo = <<>> /\ points = NoPoints
    /\ done = {} /\ touched = {} /\ edits = 0
-----------------------------------------------------------------------------
(* Students, faculty and the clock.                                        *)

Edit == edits < MaxEdits /\ edits' = edits + 1

OfQuiz(q) == Students \X {q}

\* A quiz closes; who has no extension can no longer answer it.
QuizCloses(q) ==
    /\ q \notin closed
    /\ closed' = closed \cup {q}
    /\ answering' = answering \ (OfQuiz(q) \ Extended)
    /\ UNCHANGED <<possible, correct, submissions, answers, grades, graderVars, touched, edits>>

\* An extension ends.
ExtensionEnds(s, q) ==
    /\ q \in closed /\ <<s, q>> \in answering
    /\ answering' = answering \ {<<s, q>>}
    /\ UNCHANGED <<closed, possible, correct, submissions, answers, grades, graderVars,
                   touched, edits>>

\* A student starts a quiz while she may answer it.
BeginQuiz(s, q) ==
    /\ Edit
    /\ q \notin Drafts /\ <<s, q>> \in answering \ submissions
    /\ submissions' = submissions \cup {<<s, q>>}
    /\ touched' = touched \cup {<<s, q>>}
    /\ UNCHANGED <<closed, answering, possible, correct, answers, grades, graderVars>>

\* save_quiz, which refuses answers when no submission of hers is open, be it of
\* another quiz, but never their removal.
Save(s, q, selected) ==
    /\ Edit
    /\ <<s, q>> \in submissions
    /\ selected = {} \/ \E r \in Quizzes \ Drafts : <<s, r>> \in answering \cap submissions
    /\ answers' = (answers \ ({s} \X OptionsOf(q))) \cup ({s} \X selected)
    /\ touched' = touched \cup {<<s, q>>}
    /\ UNCHANGED <<closed, answering, possible, correct, submissions, grades, graderVars>>

\* upsert_quiz corrects an option.
CorrectOption(o) ==
    /\ Edit
    /\ correct' = IF o \in correct THEN correct \ {o} ELSE correct \cup {o}
    /\ touched' = touched \cup OfQuiz(QuizOf[QuestionOf[o]])
    /\ UNCHANGED <<closed, answering, possible, submissions, answers, grades, graderVars>>

\* A change of points_possible cascades to the grades, and is refused if one of
\* them is above it.
SetPointsPossible(q, n) ==
    /\ Edit
    /\ \A p \in DOMAIN grades \cap OfQuiz(q) : grades[p].num <= n * grades[p].den
    /\ possible' = [possible EXCEPT ![q] = n]
    /\ touched' = touched \cup OfQuiz(q)
    /\ UNCHANGED <<closed, answering, correct, submissions, answers, grades, graderVars>>

\* Faculty delete a submission that has neither answers nor a grade.
DeleteSubmission(s, q) ==
    /\ Edit
    /\ <<s, q>> \in submissions \ DOMAIN grades
    /\ answers \cap ({s} \X OptionsOf(q)) = {}
    /\ submissions' = submissions \ {<<s, q>>}
    /\ touched' = touched \cup {<<s, q>>}
    /\ UNCHANGED <<closed, answering, possible, correct, answers, grades, graderVars>>
-----------------------------------------------------------------------------
(* The command.                                                            *)

\* Mutant: quizzes that have a grade already are left out.
GetGradableQuizIds_Ungraded ==
    /\ pc \in {"idle", "ended", "raised"}
    /\ quizIds' \in SetToSeqs({q \in closed \ Drafts : OfQuiz(q) \cap DOMAIN grades = {}})
    /\ done' = {}
    /\ pc' = IF quizIds' = <<>> THEN "ended" ELSE "get_quiz"
    /\ touched' = {}
    /\ UNCHANGED <<dbVars, grades, quiz, todo, points, edits>>

\* get_gradable_quiz_ids: in whatever order the database returns them.
GetGradableQuizIds ==
    /\ pc \in {"idle", "ended", "raised"}
    /\ quizIds' \in SetToSeqs(closed \ Drafts)
    /\ done' = {}
    /\ pc' = IF quizIds' = <<>> THEN "ended" ELSE "get_quiz"
    /\ touched' = {}
    /\ UNCHANGED <<dbVars, grades, quiz, todo, points, edits>>

GetQuiz ==
    /\ pc = "get_quiz"
    /\ quiz' = possible[Head(quizIds)]
    /\ touched' = touched \ OfQuiz(Head(quizIds))
    /\ pc' = "get_submissions"
    /\ UNCHANGED <<dbVars, grades, quizIds, todo, points, done, edits>>

\* The loop over submissions goes on, or the loop over quizzes.
NextSubmission(left) ==
    /\ todo' = left
    /\ IF left # <<>>
       THEN pc' = "get_answers" /\ UNCHANGED <<quizIds, done>>
       ELSE /\ quizIds' = Tail(quizIds)
            /\ done' = done \cup {Head(quizIds)}
            /\ pc' = IF Tail(quizIds) = <<>> THEN "ended" ELSE "get_quiz"

GetSubmissions ==
    /\ pc = "get_submissions"
    /\ \E left \in SetToSeqs({s \in Students : <<s, Head(quizIds)>> \in submissions}) :
          NextSubmission(left)
    /\ UNCHANGED <<dbVars, grades, quiz, points, touched, edits>>

\* Mutant: without ORDER BY.
GetAnswers_Unordered(s, q) == SetToSeqs(OptionsOf(q))

\* get_answers: one row for each option of the quiz, question by question, and
\* in any order within a question.
GetAnswers(s, q) ==
    {rows \in SetToSeqs(OptionsOf(q)) :
        \A i, j, k \in DOMAIN rows :
            i < j /\ j < k /\ QuestionOf[rows[i]] = QuestionOf[rows[k]]
                => QuestionOf[rows[j]] = QuestionOf[rows[i]]}

ChoseCorrectly(s, o) == (o \in correct) = (<<s, o>> \in answers)

\* groupby makes a group of each run of rows with the same question.
GroupBy(rows) ==
    LET Same(i, j) == QuestionOf[rows[i]] = QuestionOf[rows[j]]
        Begins(i)  == i = 1 \/ ~ Same(i - 1, i)
    IN  {{rows[j] : j \in {j \in DOMAIN rows : i <= j /\ \A k \in i .. j : Same(i, k)}} :
            i \in {i \in DOMAIN rows : Begins(i)}}

\* grade_submission up to its write: the share of the groups that have all() of
\* their answers right.  Without a question the division raises.
GradeSubmission ==
    /\ pc = "get_answers"
    /\ \E rows \in GetAnswers(Head(todo), Head(quizIds)) :
          LET groups == GroupBy(rows)
              right  == {g \in groups : \A o \in g : ChoseCorrectly(Head(todo), o)}
          IN  IF groups = {}
              THEN pc' = "raised" /\ UNCHANGED points
              ELSE /\ points' = [num |-> quiz * Cardinality(right), den |-> Cardinality(groups)]
                   /\ pc' = "upsert_grade"
    /\ UNCHANGED <<dbVars, grades, quizIds, quiz, todo, done, touched, edits>>

\* Mutant: the range is not checked.
UpsertGrade_AnyPoints ==
    /\ pc = "upsert_grade"
    /\ LET p == <<Head(todo), Head(quizIds)>>
       IN  IF p \in submissions
           THEN /\ grades' = [x \in DOMAIN grades \cup {p} |->
                                IF x = p THEN points ELSE grades[x]]
                /\ NextSubmission(Tail(todo))
           ELSE pc' = "raised" /\ UNCHANGED <<grades, todo, quizIds, done>>
    /\ UNCHANGED <<dbVars, quiz, points, touched, edits>>

\* upsert_grade: the grade must have a submission and be in range.
UpsertGrade ==
    /\ pc = "upsert_grade"
    /\ LET p == <<Head(todo), Head(quizIds)>>
       IN  IF p \in submissions /\ points.num <= possible[p[2]] * points.den
           THEN /\ grades' = [x \in DOMAIN grades \cup {p} |->
                                IF x = p THEN points ELSE grades[x]]
                /\ NextSubmission(Tail(todo))
           ELSE pc' = "raised" /\ UNCHANGED <<grades, todo, quizIds, done>>
    /\ UNCHANGED <<dbVars, quiz, points, touched, edits>>

Grader == GetGradableQuizIds \/ GetQuiz \/ GetSubmissions \/ GradeSubmission \/ UpsertGrade

Clock ==
    \/ \E q \in Quizzes : QuizCloses(q)
    \/ \E s \in Students, q \in Quizzes : ExtensionEnds(s, q)

StudentsAct ==
    \E s \in Students, q \in Quizzes :
        \/ BeginQuiz(s, q)
        \/ \E selected \in SUBSET OptionsOf(q) : Save(s, q, selected)

FacultyAct ==
    \/ \E o \in Options : CorrectOption(o)
    \/ \E q \in Quizzes, n \in 0 .. MaxPoints : SetPointsPossible(q, n)
    \/ \E s \in Students, q \in Quizzes : DeleteSubmission(s, q)

GradingNext == Grader \/ Clock \/ StudentsAct \/ FacultyAct

GradingSpec == GradingInit /\ [][GradingNext]_gradingVars

\* Time passes, and the command is run again and again and takes its steps.
FairGradingSpec == GradingSpec /\ WF_gradingVars(Grader) /\ WF_gradingVars(Clock)
-----------------------------------------------------------------------------
(* Properties.                                                             *)

\* What the answers of a submission are worth: the share of the questions with
\* options of which exactly the correct options are selected.
Worth(p) ==
    LET asked == {QuestionOf[o] : o \in OptionsOf(p[2])}
        right == {k \in asked : \A o \in Options :
                      QuestionOf[o] = k => ChoseCorrectly(p[1], o)}
    IN  [num |-> possible[p[2]] * Cardinality(right), den |-> Cardinality(asked)]

Right(p) == p \in DOMAIN grades /\ grades[p] = Worth(p)

\* A submission whose quiz has been graded has a grade that is worth what its
\* answers are, unless it or its quiz has changed since the quiz was begun,
\* whatever happened between the transactions of the command.
GradedRight == \A p \in submissions : p[2] \in done /\ p \notin touched => Right(p)

\* Extensions end and the command is run once more: every submission gets the
\* grade it is worth, and keeps it.
FinallyRight == <>[](\A p \in submissions : p[2] \notin Drafts => Right(p))
=============================================================================
