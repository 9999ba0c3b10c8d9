----------------------------- MODULE QuizTaking -----------------------------
(***************************************************************************)
(* Taking a quiz: the rows of quiz, quiz_grade_exception, quiz_submission  *)
(* and quiz_answer, the row-level policies that guard them, and the        *)
(* requests students and faculty send to them.                             *)
(*                                                                         *)
(* PostgREST runs every request in one READ COMMITTED transaction.         *)
(* Requests that write answers (save_quiz, and inserts and deletes on the  *)
(* quiz_answers view) touch several rows, so they are modelled statement   *)
(* by statement and row by row; they interleave with each other and with   *)
(* everything else.  Requests of a single statement on a single row are    *)
(* one step.                                                               *)
(***************************************************************************)
EXTENDS Integers, FiniteSets

CONSTANTS
    Students,     \* users with role student or ta
    Quizzes,
    Options,      \* quiz_question_option rows
    QuizOf,       \* the quiz_id of an option
    QuizRows,     \* the dates, duration and draft flag faculty may give a quiz
    Extensions,   \* the closing times faculty may put in an exception
    Conns,        \* PostgREST's database connections
    Serves,       \* the students whose answer requests a connection carries
    MaxTime,      \* bound on the clock
    NoRow,        \* there is no such row
    NoRequest     \* the connection is idle

Time == 0 .. MaxTime
QuizRow == [draft : BOOLEAN, open : Nat, close : Nat, dur : Nat \ {0}]

ASSUME QuizTakingAssumption ==
    /\ QuizOf \in [Options -> Quizzes]
    /\ QuizRows \subseteq {r \in QuizRow : r.open < r.close}
    /\ Extensions \subseteq Nat
    /\ Serves \in [Conns -> SUBSET Students]
    /\ MaxTime \in Nat
    /\ NoRow \notin Nat

VARIABLES
    now,    \* the clock
    quiz,   \* quiz[q]: the row of quiz q
    exc,    \* exc[q][u]: closed_at of the exception of u for q, or NoRow
    sub,    \* sub[q][u]: created_at of the submission of u for q, or NoRow
    began,  \* history: when u really started q, or the start faculty gave her
    ans,    \* the committed quiz_answer rows
    req,    \* req[c]: the request the transaction on connection c serves
    phase,  \* phase[c]: the statement that transaction is in
    todo,   \* todo[c]: rows the statement has still to delete or insert
    del,    \* del[c]: rows the transaction has deleted (and locked)
    new     \* new[c]: rows the transaction has inserted

tables == <<quiz, exc, sub, began>>
txs    == <<req, phase, todo, del, new>>
vars   == <<now, quiz, exc, sub, began, ans, req, phase, todo, del, new>>

\* The primary key of quiz_answer: quiz, user and option.
Row == Quizzes \X Students \X Options

\* An idle connection is not mistaken for one that serves a request.
ASSUME NoRequestAssumption == NoRequest \notin [drop : SUBSET Row, want : SUBSET Row]

\* start is the transaction's current_timestamp, drop the options its DELETE
\* selects, want the options its INSERT adds.
Request == [user : Students, quiz : Quizzes, faculty : BOOLEAN, start : Time,
            drop : SUBSET Options, want : SUBSET Options]

Phases == {"idle", "begun", "deleting", "deleted", "inserting", "ready"}

\* Mutant: the columns are written in another order.
RowsOf_Swapped(r, S) == {<<r.user, r.quiz, o>> : o \in S}

RowsOf(r, S) == {<<r.quiz, r.user, o>> : o \in S}

TypeOK ==
    /\ now \in Time
    /\ quiz \in [Quizzes -> QuizRow]
    /\ exc \in [Quizzes -> [Students -> Nat \cup {NoRow}]]
    /\ sub \in [Quizzes -> [Students -> Time \cup {NoRow}]]
    /\ began \in [Quizzes -> [Students -> Time \cup {NoRow}]]
    /\ ans \subseteq Row
    /\ req \in [Conns -> Request \cup {NoRequest}]
    /\ phase \in [Conns -> Phases]
    /\ \A c \in Conns : phase[c] # "idle" => req[c] \in Request
    /\ todo \in [Conns -> SUBSET Row]
    /\ del \in [Conns -> SUBSET Row]
    /\ new \in [Conns -> SUBSET Row]

Init ==
    /\ now = 0
    /\ quiz \in [Quizzes -> QuizRows]
    /\ exc \in [Quizzes -> [Students -> Extensions \cup {NoRow}]]
    /\ sub = [q \in Quizzes |-> [u \in Students |-> NoRow]]
    /\ began = sub
    /\ ans = {}
    /\ req = [c \in Conns |-> NoRequest]
    /\ phase = [c \in Conns |-> "idle"]
    /\ todo = [c \in Conns |-> {}]
    /\ del = [c \in Conns |-> {}]
    /\ new = [c \in Conns |-> {}]

-----------------------------------------------------------------------------
(* The dates.  A transaction sees the time at which it started, t.         *)

Published(q, t) == ~quiz[q].draft /\ quiz[q].open < t

\* Mutant: the quiz is open at its close, too.
IsOpen_AtClose(q, t) == Published(q, t) /\ t <= quiz[q].close

\* The view api.quizzes.
IsOpen(q, t) == Published(q, t) /\ t < quiz[q].close

Earlier(a, b) == IF a < b THEN a ELSE b

\* The earlier of the closing time of the quiz (the exception's, if the
\* student has one) and of the student's own time limit.
Deadline(q, u) ==
    Earlier(IF exc[q][u] # NoRow THEN exc[q][u] ELSE quiz[q].close,
            sub[q][u] + quiz[q].dur)

\* The view api.quiz_submissions_info.
SubmissionOpen(q, u, t) ==
    /\ sub[q][u] # NoRow
    /\ Published(q, t)
    /\ t < Deadline(q, u)

-----------------------------------------------------------------------------
(* The policies.                                                           *)

\* Who may insert a quiz_submission.
MayStart(q, u, t) ==
    \/ IsOpen(q, t)
    \/ /\ exc[q][u] # NoRow
       /\ exc[q][u] > t
       /\ Published(q, t)

\* Mutant: the submission need not be open.
MayAnswer_AnyTime(r) ==
    r.faculty \/ \E q \in Quizzes : sub[q][r.user] # NoRow

\* Who may insert a quiz_answer.  The policy's sub-query compares the
\* submission's quiz_id and user_id with an unqualified quiz_id and user_id,
\* which the sub-query's own FROM captures: any open submission the student
\* can see, that is any of her own, satisfies it.
MayAnswer(r) ==
    r.faculty \/ \E q \in Quizzes : SubmissionOpen(q, r.user, r.start)

-----------------------------------------------------------------------------
(* Time and the requests of one statement on one row.                      *)

Tick ==
    /\ now < MaxTime
    /\ now' = now + 1
    /\ UNCHANGED <<tables, ans, txs>>

\* Mutant: created_at may be after updated_at.
BeginQuiz_Future(q, u, created) ==
    /\ sub[q][u] = NoRow
    /\ MayStart(q, u, now)
    /\ sub' = [sub EXCEPT ![q][u] = created]
    /\ began' = [began EXCEPT ![q][u] = now]
    /\ UNCHANGED <<now, quiz, exc, ans, txs>>

\* A student starts a quiz.  She may send her own created_at; the trigger
\* sets updated_at to the current time and the table checks that created_at
\* is not after it.
BeginQuiz(q, u, created) ==
    /\ sub[q][u] = NoRow                        \* primary key
    /\ MayStart(q, u, now)
    /\ created <= now                           \* CHECK updated_after_created
    /\ sub' = [sub EXCEPT ![q][u] = created]
    /\ began' = [began EXCEPT ![q][u] = now]
    /\ UNCHANGED <<now, quiz, exc, ans, txs>>

FacultySetQuiz(q, row) ==
    /\ quiz' = [quiz EXCEPT ![q] = row]
    /\ UNCHANGED <<now, exc, sub, began, ans, txs>>

FacultySetException(q, u, t) ==
    /\ exc' = [exc EXCEPT ![q][u] = t]
    /\ UNCHANGED <<now, quiz, sub, began, ans, txs>>

\* Faculty insert a submission for a student or move its start.
FacultySetStart(q, u, created) ==
    /\ created <= now
    /\ sub' = [sub EXCEPT ![q][u] = created]
    /\ began' = [began EXCEPT ![q][u] = created]
    /\ UNCHANGED <<now, quiz, exc, ans, txs>>

\* An answer request holds a key-share lock on the submission from the end of
\* its INSERT, when the foreign key was checked, until it commits.
HoldsSubmission(c, q, u) ==
    /\ phase[c] = "ready"
    /\ \E row \in new[c] : row[1] = q /\ row[2] = u

\* Mutant: the row is deleted under a request that refers to it.
FacultyDeleteSubmission_NoLock(q, u) ==
    /\ sub[q][u] # NoRow
    /\ ~\E row \in ans : row[1] = q /\ row[2] = u
    /\ sub' = [sub EXCEPT ![q][u] = NoRow]
    /\ began' = [began EXCEPT ![q][u] = NoRow]
    /\ UNCHANGED <<now, quiz, exc, ans, txs>>

FacultyDeleteSubmission(q, u) ==
    /\ sub[q][u] # NoRow
    /\ ~\E row \in ans : row[1] = q /\ row[2] = u
    /\ ~\E c \in Conns : HoldsSubmission(c, q, u)
    /\ sub' = [sub EXCEPT ![q][u] = NoRow]
    /\ began' = [began EXCEPT ![q][u] = NoRow]
    /\ UNCHANGED <<now, quiz, exc, ans, txs>>

-----------------------------------------------------------------------------
(* The requests that write answers.                                        *)

Begin(c, r) ==
    /\ phase[c] = "idle"
    /\ r.user \in Serves[c]
    /\ req' = [req EXCEPT ![c] = r]
    /\ phase' = [phase EXCEPT ![c] = "begun"]
    /\ UNCHANGED <<now, tables, ans, todo, del, new>>

\* rpc/save_quiz: delete the student's answers to the quiz, insert these.
BeginSave(c, u, q, S) ==
    Begin(c, [user |-> u, quiz |-> q, faculty |-> FALSE, start |-> now,
              drop |-> Options, want |-> S])

\* POST and DELETE on the quiz_answers view.
BeginInsert(c, u, q, o, faculty) ==
    Begin(c, [user |-> u, quiz |-> q, faculty |-> faculty, start |-> now,
              drop |-> {}, want |-> {o}])

BeginDelete(c, u, q, o, faculty) ==
    Begin(c, [user |-> u, quiz |-> q, faculty |-> faculty, start |-> now,
              drop |-> {o}, want |-> {}])

\* The DELETE finds its rows among those committed when it starts.  A policy
\* restricts it to the student's own rows and to nothing else.
DeleteStart(c) ==
    /\ phase[c] = "begun"
    /\ req[c].drop # {}
    /\ phase' = [phase EXCEPT ![c] = "deleting"]
    /\ todo' = [todo EXCEPT ![c] = ans \cap RowsOf(req[c], req[c].drop)]
    /\ UNCHANGED <<now, tables, ans, req, del, new>>

\* A row another transaction has deleted is locked until that one ends.
Locked(c, row) == \E d \in Conns \ {c} : row \in del[d]
Written(c, row) == \E d \in Conns \ {c} : row \in new[d]

DeleteRow(c, row) ==
    /\ phase[c] = "deleting"
    /\ row \in todo[c]
    /\ ~Locked(c, row)
    /\ todo' = [todo EXCEPT ![c] = @ \ {row}]
    /\ del' = [del EXCEPT ![c] = @ \cup {row}]
    /\ UNCHANGED <<now, tables, ans, req, phase, new>>

DeleteEnd(c) ==
    /\ phase[c] = "deleting"
    /\ todo[c] = {}
    /\ phase' = [phase EXCEPT ![c] = "deleted"]
    /\ UNCHANGED <<now, tables, ans, req, todo, del, new>>

AtInsert(c) == phase[c] = "deleted" \/ (phase[c] = "begun" /\ req[c].drop = {})

\* The INSERT evaluates the policy for its rows; with no row there is nothing
\* to evaluate it for.
InsertStart(c) ==
    /\ AtInsert(c)
    /\ req[c].want = {} \/ MayAnswer(req[c])
    /\ phase' = [phase EXCEPT ![c] = "inserting"]
    /\ todo' = [todo EXCEPT ![c] = RowsOf(req[c], req[c].want)]
    /\ UNCHANGED <<now, tables, ans, req, del, new>>

\* Mutant: an INSERT does not wait for the others.
InsertRow_NoWait(c, row) ==
    /\ phase[c] = "inserting"
    /\ row \in todo[c]
    /\ row \notin ans \ del[c]
    /\ todo' = [todo EXCEPT ![c] = @ \ {row}]
    /\ new' = [new EXCEPT ![c] = @ \cup {row}]
    /\ UNCHANGED <<now, tables, ans, req, phase, del>>

\* The unique index lets a row in when nobody else is deleting or inserting
\* one with its key and no such row is there.
InsertRow(c, row) ==
    /\ phase[c] = "inserting"
    /\ row \in todo[c]
    /\ ~Locked(c, row) /\ ~Written(c, row)
    /\ row \notin ans \ del[c]
    /\ todo' = [todo EXCEPT ![c] = @ \ {row}]
    /\ new' = [new EXCEPT ![c] = @ \cup {row}]
    /\ UNCHANGED <<now, tables, ans, req, phase, del>>

\* The two foreign keys of quiz_answer, checked when the INSERT has ended.
ReferencesHold(r) ==
    \A o \in r.want : sub[r.quiz][r.user] # NoRow /\ QuizOf[o] = r.quiz

InsertEnd(c) ==
    /\ phase[c] = "inserting"
    /\ todo[c] = {}
    /\ ReferencesHold(req[c])
    /\ phase' = [phase EXCEPT ![c] = "ready"]
    /\ UNCHANGED <<now, tables, ans, req, todo, del, new>>

Finish(c) ==
    /\ req' = [req EXCEPT ![c] = NoRequest]
    /\ phase' = [phase EXCEPT ![c] = "idle"]
    /\ del' = [del EXCEPT ![c] = {}]
    /\ new' = [new EXCEPT ![c] = {}]

\* The versions this transaction deleted are gone; a DELETE that was waiting
\* for one skips it, and does not see the row inserted in its place.
Commit(c) ==
    /\ phase[c] = "ready"
    /\ ans' = (ans \ del[c]) \cup new[c]
    /\ todo' = [d \in Conns |->
                   IF d = c THEN {}
                   ELSE IF phase[d] = "deleting" THEN todo[d] \ del[c] ELSE todo[d]]
    /\ Finish(c)
    /\ UNCHANGED <<now, tables>>

Rollback(c) ==
    /\ todo' = [todo EXCEPT ![c] = {}]
    /\ Finish(c)
    /\ UNCHANGED <<now, tables, ans>>

\* Mutant: the DELETE is committed by itself.
PolicyRefuses_KeepsDelete(c) ==
    /\ AtInsert(c)
    /\ req[c].want # {} /\ ~MayAnswer(req[c])
    /\ ans' = ans \ del[c]
    /\ todo' = [todo EXCEPT ![c] = {}]
    /\ Finish(c)
    /\ UNCHANGED <<now, tables>>

\* Mutant: a request that is refused is tried again as it was.
PolicyRefuses_Retries(c) ==
    /\ AtInsert(c)
    /\ req[c].want # {} /\ ~MayAnswer(req[c])
    /\ phase' = [phase EXCEPT ![c] = "begun"]
    /\ del' = [del EXCEPT ![c] = {}]
    /\ UNCHANGED <<now, tables, ans, req, todo, new>>

\* The policy refuses the rows of the INSERT, and the DELETE is taken back.
PolicyRefuses(c) ==
    /\ AtInsert(c)
    /\ req[c].want # {} /\ ~MayAnswer(req[c])
    /\ Rollback(c)

DuplicateKey(c, row) ==
    /\ phase[c] = "inserting"
    /\ row \in todo[c]
    /\ ~Locked(c, row) /\ ~Written(c, row)
    /\ row \in ans \ del[c]
    /\ Rollback(c)

ReferenceMissing(c) ==
    /\ phase[c] = "inserting"
    /\ todo[c] = {}
    /\ ~ReferencesHold(req[c])
    /\ Rollback(c)

\* c waits for d to end.
WaitsFor(c, d) ==
    /\ d # c
    /\ \/ phase[c] = "deleting" /\ todo[c] \cap del[d] # {}
       \/ phase[c] = "inserting" /\ todo[c] \cap (del[d] \cup new[d]) # {}

\* PostgreSQL looks for a cycle of waiting transactions and ends one of them.
Deadlocked(c) ==
    \E S \in SUBSET Conns :
        /\ c \in S
        /\ \A d \in S :
            \A row \in todo[d] : \E e \in S : e # d /\ row \in del[e] \cup new[e]
        /\ \A d \in S : todo[d] # {} /\ \E e \in S : WaitsFor(d, e)

DeadlockVictim(c) == Deadlocked(c) /\ Rollback(c)

\* The client gives up, or the connection, PostgREST or the database fails.
Cancel(c) == phase[c] # "idle" /\ Rollback(c)

-----------------------------------------------------------------------------
(* The specification.                                                      *)

ServeRequest(c) ==
    \/ DeleteStart(c)
    \/ \E row \in todo[c] : DeleteRow(c, row)
    \/ DeleteEnd(c)
    \/ InsertStart(c)
    \/ \E row \in todo[c] : InsertRow(c, row)
    \/ InsertEnd(c)
    \/ Commit(c)
    \/ PolicyRefuses(c)
    \/ \E row \in todo[c] : DuplicateKey(c, row)
    \/ ReferenceMissing(c)
    \/ DeadlockVictim(c)

Start == \E q \in Quizzes, u \in Students, t \in Time : BeginQuiz(q, u, t)

Save == \E c \in Conns, u \in Students, q \in Quizzes, S \in SUBSET Options :
            BeginSave(c, u, q, S)

StudentRequest ==
    \/ Start
    \/ Save
    \/ \E c \in Conns, u \in Students, q \in Quizzes, o \in Options :
        BeginInsert(c, u, q, o, FALSE) \/ BeginDelete(c, u, q, o, FALSE)

FacultyEdit ==
    \/ \E q \in Quizzes, row \in QuizRows : FacultySetQuiz(q, row)
    \/ \E q \in Quizzes, u \in Students :
        \/ \E t \in Extensions \cup {NoRow} : FacultySetException(q, u, t)
        \/ \E t \in Time : FacultySetStart(q, u, t)
        \/ FacultyDeleteSubmission(q, u)

FacultyRequest ==
    \E c \in Conns, u \in Students, q \in Quizzes, o \in Options :
        BeginInsert(c, u, q, o, TRUE) \/ BeginDelete(c, u, q, o, TRUE)

Server == \E c \in Conns : ServeRequest(c) \/ Cancel(c)

Next == Tick \/ StudentRequest \/ FacultyEdit \/ FacultyRequest \/ Server

Spec == Init /\ [][Next]_vars

\* With no edit by faculty: whatever dates and exceptions there are, stay.
StudentSpec == Init /\ [][Tick \/ StudentRequest \/ Server]_vars

\* Students who send nothing but what the web client sends.
SaveSpec == Init /\ [][Tick \/ Start \/ Save \/ Server]_vars

\* PostgreSQL runs every transaction that can proceed, and queues those that
\* wait for a row, so one that could proceed again and again gets its turn.
\* No client has to send a request, and none has to give up.
FairSpec == StudentSpec /\ \A c \in Conns : SF_vars(ServeRequest(c))

-----------------------------------------------------------------------------
(* Invariants.                                                             *)

\* Every answer belongs to a submission of its quiz and names an option of
\* its quiz: the foreign keys hold although a submission can be deleted while
\* a request that answers it is under way.
AnswersReferenced ==
    \A row \in ans : sub[row[1]][row[2]] # NoRow /\ QuizOf[row[3]] = row[1]

\* Two requests never delete or insert the same answer at once, and a request
\* that is about to commit would not duplicate a key: the primary key of
\* quiz_answer holds through any interleaving of saves.
KeysHeld ==
    \A c \in Conns :
        /\ del[c] \subseteq ans
        /\ new[c] \cap ans \subseteq del[c]
        /\ \A d \in Conns \ {c} : del[c] \cap del[d] = {} /\ new[c] \cap new[d] = {}

\* No submission starts in the future, so no attempt outlasts the quiz's
\* duration (a student may send her own created_at).
StartedByNow ==
    \A q \in Quizzes, u \in Students : sub[q][u] # NoRow => sub[q][u] <= now

\* The answers a student's request is about to commit were sent while the
\* quiz was open and before the student's own deadline for it (quiz_answer's
\* policy: "and the quiz is open for submission").
AnsweredInTime ==
    \A c \in Conns : phase[c] = "ready" /\ new[c] # {} /\ ~req[c].faculty =>
        SubmissionOpen(req[c].quiz, req[c].user, req[c].start)

\* A student gains no time by the created_at she sends when she starts a quiz:
\* the answers that are about to be committed were sent before the duration of
\* the quiz had passed since she really started it.
NoExtraTime ==
    \A c \in Conns :
        LET r == req[c]
        IN  phase[c] = "ready" /\ new[c] # {} /\ ~r.faculty =>
                r.start < began[r.quiz][r.user] + quiz[r.quiz].dur

-----------------------------------------------------------------------------
(* What a step may never do.                                               *)

\* The policy that lets a student start a quiz and the view that says her
\* submission is open agree: unless her exception ends before the quiz does,
\* a student who starts now can still answer.
StartLeavesTime ==
    [][\A q \in Quizzes, u \in Students :
          /\ BeginQuiz(q, u, now)
          /\ exc[q][u] # NoRow => exc[q][u] >= quiz[q].close
          => SubmissionOpen(q, u, now)']_vars

\* The answers of u to q.
AnswersTo(q, u) == {row \in ans : row[1] = q /\ row[2] = u}

\* No request that a student sends after the deadline changes her answers:
\* "Students may only edit a quiz answer if ... the quiz is open".
ClosedQuizKept ==
    [][\A q \in Quizzes, u \in Students :
          AnswersTo(q, u)' # AnswersTo(q, u) =>
              \E c \in Conns : /\ phase[c] = "ready" /\ req[c].user = u
                               /\ SubmissionOpen(q, u, req[c].start)]_vars

\* Saving overwrites: when save_quiz commits, the student's answers to the
\* quiz are the options it was called with.
SaveOverwrites ==
    [][\A c \in Conns :
          Commit(c) /\ req[c].drop = Options =>
              {row \in ans' : row[1] = req[c].quiz /\ row[2] = req[c].user}
                  = RowsOf(req[c], req[c].want)]_vars

\* No save waits forever, whatever the order in which two requests delete and
\* insert the same answers.
RequestsEnd == \A c \in Conns : phase[c] # "idle" ~> phase[c] = "idle"

-----------------------------------------------------------------------------
(* Answers change request by request.                                      *)

Sheet == INSTANCE AnswerSheet WITH
    Marks <- Row,
    Nobody <- NoRequest,
    sheet <- ans,
    asked <- [c \in Conns |->
                 IF phase[c] = "idle" THEN NoRequest
                 ELSE [drop |-> RowsOf(req[c], req[c].drop),
                       want |-> RowsOf(req[c], req[c].want)]]

\* When no two connections serve the same student, requests look atomic: what
\* is committed is always what one request after the other would have left.
SheetSpec == Sheet!Spec
=============================================================================
