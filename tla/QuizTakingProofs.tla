-------------------------- MODULE QuizTakingProofs --------------------------
(***************************************************************************)
(* Proofs about QuizTaking for every set of students, quizzes, options and *)
(* connections.                                                            *)
(***************************************************************************)
EXTENDS QuizTaking, TLAPS

-----------------------------------------------------------------------------
(* The types.                                                              *)

\* The rows a request names are rows of quiz_answer.
LEMMA RowsOfType ==
    ASSUME NEW r \in Request, NEW S \in SUBSET Options
    PROVE  RowsOf(r, S) \subseteq Row
  BY DEF RowsOf, Row, Request

\* No moment is mistaken for a missing row.
LEMMA NoRowIsNoTime == NoRow \notin Time
  <1>1. Time \subseteq Nat
    BY QuizTakingAssumption DEF Time
  <1> QED
    BY <1>1, QuizTakingAssumption

\* Starting a transaction keeps the types.
LEMMA BeginType ==
    ASSUME TypeOK, NEW c \in Conns, NEW r \in Request, Begin(c, r)
    PROVE  TypeOK'
  BY DEF TypeOK, Begin, tables, Phases

\* Ending one without effect keeps the types.
LEMMA RollbackType ==
    ASSUME TypeOK, NEW c \in Conns, Rollback(c)
    PROVE  TypeOK'
  BY DEF TypeOK, Rollback, Finish, tables, Phases

\* Every step of a transaction keeps the types.
LEMMA ServeType ==
    ASSUME TypeOK, NEW c \in Conns, ServeRequest(c)
    PROVE  TypeOK'
  <1>1. CASE DeleteStart(c)
    BY <1>1 DEF TypeOK, DeleteStart, tables, Phases
  <1>2. ASSUME NEW row \in todo[c], DeleteRow(c, row)
        PROVE  TypeOK'
    BY <1>2 DEF TypeOK, DeleteRow, tables
  <1>3. CASE DeleteEnd(c)
    BY <1>3 DEF TypeOK, DeleteEnd, tables, Phases
  <1>4. CASE InsertStart(c)
    <2>1. req[c] \in Request
      BY <1>4 DEF TypeOK, InsertStart, AtInsert
    <2>2. RowsOf(req[c], req[c].want) \subseteq Row
      BY <2>1, RowsOfType DEF Request
    <2> QED
      BY <1>4, <2>1, <2>2 DEF TypeOK, InsertStart, tables, Phases
  <1>5. ASSUME NEW row \in todo[c], InsertRow(c, row)
        PROVE  TypeOK'
    BY <1>5 DEF TypeOK, InsertRow, tables
  <1>6. CASE InsertEnd(c)
    BY <1>6 DEF TypeOK, InsertEnd, tables, Phases
  <1>7. CASE Commit(c)
    BY <1>7 DEF TypeOK, Commit, Finish, tables, Phases
  <1>8. ASSUME Rollback(c)
        PROVE  TypeOK'
    BY <1>8, RollbackType
  <1> QED
    BY <1>1, <1>2, <1>3, <1>4, <1>5, <1>6, <1>7, <1>8
    DEF ServeRequest, PolicyRefuses, DuplicateKey, ReferenceMissing, DeadlockVictim

\* So does every step of the specification.
LEMMA NextType == TypeOK /\ [Next]_vars => TypeOK'
  <1> SUFFICES ASSUME TypeOK, [Next]_vars
               PROVE  TypeOK'
    OBVIOUS
  <1> USE QuizTakingAssumption
  <1>1. CASE Tick
    BY <1>1 DEF TypeOK, Tick, tables, txs, Time
  <1>2. ASSUME NEW q \in Quizzes, NEW u \in Students, NEW t \in Time, BeginQuiz(q, u, t)
        PROVE  TypeOK'
    BY <1>2 DEF TypeOK, BeginQuiz, txs
  <1>3. ASSUME NEW c \in Conns, NEW u \in Students, NEW q \in Quizzes,
               NEW faculty \in BOOLEAN, NEW drop \in SUBSET Options,
               NEW want \in SUBSET Options,
               Begin(c, [user |-> u, quiz |-> q, faculty |-> faculty, start |-> now,
                         drop |-> drop, want |-> want])
        PROVE  TypeOK'
    <2>1. [user |-> u, quiz |-> q, faculty |-> faculty, start |-> now,
           drop |-> drop, want |-> want] \in Request
      BY DEF TypeOK, Request
    <2> QED
      BY <1>3, <2>1, BeginType
  <1>4. ASSUME NEW c \in Conns, NEW u \in Students, NEW q \in Quizzes, NEW o \in Options,
               NEW faculty \in BOOLEAN
        PROVE  /\ BeginInsert(c, u, q, o, faculty) => TypeOK'
               /\ BeginDelete(c, u, q, o, faculty) => TypeOK'
    <2>1. {o} \in SUBSET Options /\ {} \in SUBSET Options
      OBVIOUS
    <2>2. ASSUME BeginInsert(c, u, q, o, faculty)
          PROVE  TypeOK'
      BY <1>3, <2>1, <2>2 DEF BeginInsert
    <2>3. ASSUME BeginDelete(c, u, q, o, faculty)
          PROVE  TypeOK'
      BY <1>3, <2>1, <2>3 DEF BeginDelete
    <2> QED
      BY <2>2, <2>3
  <1>5. CASE StudentRequest
    <2>1. CASE Start
      BY <1>2, <2>1 DEF Start
    <2>2. CASE Save
      <3>1. ASSUME NEW c \in Conns, NEW u \in Students, NEW q \in Quizzes,
                   NEW S \in SUBSET Options, BeginSave(c, u, q, S)
            PROVE  TypeOK'
        <4>1. Options \in SUBSET Options
          OBVIOUS
        <4> QED
          BY <1>3, <3>1, <4>1 DEF BeginSave
      <3> QED
        BY <2>2, <3>1 DEF Save
    <2>3. ASSUME NEW c \in Conns, NEW u \in Students, NEW q \in Quizzes, NEW o \in Options,
                 BeginInsert(c, u, q, o, FALSE) \/ BeginDelete(c, u, q, o, FALSE)
          PROVE  TypeOK'
      BY <1>4, <2>3
    <2> QED
      BY <1>5, <2>1, <2>2, <2>3 DEF StudentRequest
  <1>6. CASE FacultyRequest
    <2>1. ASSUME NEW c \in Conns, NEW u \in Students, NEW q \in Quizzes, NEW o \in Options,
                 BeginInsert(c, u, q, o, TRUE) \/ BeginDelete(c, u, q, o, TRUE)
          PROVE  TypeOK'
      BY <1>4, <2>1
    <2> QED
      BY <1>6, <2>1 DEF FacultyRequest
  <1>7. CASE FacultyEdit
    <2>1. ASSUME NEW q \in Quizzes, NEW row \in QuizRows, FacultySetQuiz(q, row)
          PROVE  TypeOK'
      BY <2>1 DEF TypeOK, FacultySetQuiz, txs
    <2>2. ASSUME NEW q \in Quizzes, NEW u \in Students, NEW t \in Extensions \cup {NoRow},
                 FacultySetException(q, u, t)
          PROVE  TypeOK'
      BY <2>2 DEF TypeOK, FacultySetException, txs
    <2>3. ASSUME NEW q \in Quizzes, NEW u \in Students, NEW t \in Time,
                 FacultySetStart(q, u, t)
          PROVE  TypeOK'
      BY <2>3 DEF TypeOK, FacultySetStart, txs
    <2>4. ASSUME NEW q \in Quizzes, NEW u \in Students, FacultyDeleteSubmission(q, u)
          PROVE  TypeOK'
      BY <2>4 DEF TypeOK, FacultyDeleteSubmission, txs
    <2> QED
      BY <1>7, <2>1, <2>2, <2>3, <2>4 DEF FacultyEdit
  <1>8. CASE Server
    BY <1>8, ServeType, RollbackType DEF Server, Cancel
  <1>9. CASE UNCHANGED vars
    BY <1>9 DEF TypeOK, vars
  <1> QED
    BY <1>1, <1>5, <1>6, <1>7, <1>8, <1>9 DEF Next

\* The initial states have the types.
LEMMA InitType == Init => TypeOK
  <1> SUFFICES ASSUME Init
               PROVE  TypeOK
    OBVIOUS
  <1> USE QuizTakingAssumption DEF Init
  <1>1. now \in Time
    BY DEF Time
  <1>2. quiz \in [Quizzes -> QuizRow]
    OBVIOUS
  <1>3. exc \in [Quizzes -> [Students -> Nat \cup {NoRow}]]
    OBVIOUS
  <1>4. sub \in [Quizzes -> [Students -> Time \cup {NoRow}]]
    OBVIOUS
  <1>5. /\ req \in [Conns -> Request \cup {NoRequest}]
        /\ phase \in [Conns -> Phases]
        /\ \A c \in Conns : phase[c] # "idle" => req[c] \in Request
    BY DEF Phases
  <1> QED
    BY <1>1, <1>2, <1>3, <1>4, <1>5 DEF TypeOK

\* Every column, request and set of rows has its type in every state.
THEOREM TypeCorrect == Spec => []TypeOK
  BY InitType, NextType, PTL DEF Spec

-----------------------------------------------------------------------------
(* The primary key of quiz_answer.  KeysHeld alone is not inductive: a     *)
(* DELETE must be known to pick committed rows, and a transaction that has *)
(* not come to its INSERT to have inserted none.                           *)

TxInv ==
    \A c \in Conns :
        /\ phase[c] \in {"idle", "begun"} => todo[c] = {} /\ del[c] = {}
        /\ phase[c] \in {"idle", "begun", "deleting", "deleted"} => new[c] = {}
        /\ phase[c] = "deleting" => todo[c] \subseteq ans
        /\ phase[c] = "inserting" => todo[c] \subseteq RowsOf(req[c], req[c].want)
        /\ phase[c] \in {"inserting", "ready"} => new[c] \subseteq RowsOf(req[c], req[c].want)

KeyInv == TypeOK /\ TxInv /\ KeysHeld

\* A transaction that begins has touched no row.
LEMMA BeginKeys ==
    ASSUME KeyInv, NEW c \in Conns, NEW r, Begin(c, r)
    PROVE  (TxInv /\ KeysHeld)'
  <1> USE DEF KeyInv, TypeOK, Begin
  <1>1. TxInv'
    BY DEF TxInv, RowsOf
  <1>2. KeysHeld'
    BY DEF KeysHeld
  <1> QED
    BY <1>1, <1>2

\* One that ends without effect leaves the others as they were.
LEMMA RollbackKeys ==
    ASSUME KeyInv, NEW c \in Conns, Rollback(c)
    PROVE  (TxInv /\ KeysHeld)'
  <1> USE DEF KeyInv, TypeOK, Rollback, Finish
  <1>1. TxInv'
    BY DEF TxInv, RowsOf
  <1>2. KeysHeld'
    BY DEF KeysHeld
  <1> QED
    BY <1>1, <1>2

\* One that commits takes its deleted rows out of the table, which no other
\* has deleted, and puts its inserted rows in, which no other has inserted.
LEMMA CommitKeys ==
    ASSUME KeyInv, NEW c \in Conns, Commit(c)
    PROVE  (TxInv /\ KeysHeld)'
  <1> USE DEF KeyInv, TypeOK, Commit, Finish
  <1>1. TxInv'
    BY DEF TxInv, RowsOf
  <1>2. KeysHeld'
    <2> SUFFICES ASSUME NEW d \in Conns
                 PROVE  /\ del'[d] \subseteq ans'
                        /\ new'[d] \cap ans' \subseteq del'[d]
                        /\ \A e \in Conns \ {d} : /\ del'[d] \cap del'[e] = {}
                                                 /\ new'[d] \cap new'[e] = {}
      BY DEF KeysHeld
    <2>1. CASE d = c
      BY <2>1 DEF KeysHeld
    <2>2. CASE d # c
      <3>1. del'[d] = del[d] /\ new'[d] = new[d]
        BY <2>2
      <3>2. del[d] \cap del[c] = {} /\ new[d] \cap new[c] = {}
        BY <2>2 DEF KeysHeld
      <3> QED
        BY <2>2, <3>1, <3>2 DEF KeysHeld
    <2> QED
      BY <2>1, <2>2
  <1> QED
    BY <1>1, <1>2

\* Every step of a transaction keeps the keys.
LEMMA ServeKeys ==
    ASSUME KeyInv, NEW c \in Conns, ServeRequest(c)
    PROVE  (TxInv /\ KeysHeld)'
  <1> USE DEF KeyInv, TypeOK
  <1>1. CASE DeleteStart(c)
    BY <1>1 DEF TxInv, KeysHeld, DeleteStart, RowsOf
  <1>2. ASSUME NEW row \in todo[c], DeleteRow(c, row)
        PROVE  (TxInv /\ KeysHeld)'
    <2>1. row \in ans
      BY <1>2 DEF TxInv, DeleteRow
    <2>2. TxInv'
      BY <1>2 DEF TxInv, DeleteRow, RowsOf
    <2>3. KeysHeld'
      BY <1>2, <2>1 DEF KeysHeld, DeleteRow, Locked
    <2> QED
      BY <2>2, <2>3
  <1>3. CASE DeleteEnd(c)
    BY <1>3 DEF TxInv, KeysHeld, DeleteEnd, RowsOf
  <1>4. CASE InsertStart(c)
    BY <1>4 DEF TxInv, KeysHeld, InsertStart, AtInsert, RowsOf
  <1>5. ASSUME NEW row \in todo[c], InsertRow(c, row)
        PROVE  (TxInv /\ KeysHeld)'
    <2>1. row \in RowsOf(req[c], req[c].want)
      BY <1>5 DEF TxInv, InsertRow
    <2>2. TxInv'
      BY <1>5, <2>1 DEF TxInv, InsertRow
    <2>3. KeysHeld'
      BY <1>5 DEF KeysHeld, InsertRow, Written
    <2> QED
      BY <2>2, <2>3
  <1>6. CASE InsertEnd(c)
    BY <1>6 DEF TxInv, KeysHeld, InsertEnd, RowsOf
  <1>7. CASE Commit(c)
    BY <1>7, CommitKeys
  <1>8. ASSUME Rollback(c)
        PROVE  (TxInv /\ KeysHeld)'
    BY <1>8, RollbackKeys
  <1> QED
    BY <1>1, <1>2, <1>3, <1>4, <1>5, <1>6, <1>7, <1>8
    DEF ServeRequest, PolicyRefuses, DuplicateKey, ReferenceMissing, DeadlockVictim

\* A step that touches no transaction and no answer keeps the keys.
LEMMA ElsewhereKeys ==
    ASSUME KeyInv, UNCHANGED <<ans, txs>>
    PROVE  (TxInv /\ KeysHeld)'
  BY DEF KeyInv, TypeOK, TxInv, KeysHeld, RowsOf, txs

\* Every step of the specification keeps the keys.
LEMMA NextKeys == KeyInv /\ [Next]_vars => KeyInv'
  <1> SUFFICES ASSUME KeyInv, [Next]_vars
               PROVE  (TxInv /\ KeysHeld)'
    BY NextType DEF KeyInv
  <1>1. CASE Tick \/ Start \/ FacultyEdit \/ UNCHANGED vars
    BY <1>1, ElsewhereKeys DEF Tick, Start, BeginQuiz, FacultyEdit, FacultySetQuiz,
       FacultySetException, FacultySetStart, FacultyDeleteSubmission, vars, txs
  <1>2. CASE Save
    BY <1>2, BeginKeys DEF Save, BeginSave
  <1>3. ASSUME NEW c \in Conns, NEW u \in Students, NEW q \in Quizzes, NEW o \in Options,
               NEW faculty \in BOOLEAN,
               BeginInsert(c, u, q, o, faculty) \/ BeginDelete(c, u, q, o, faculty)
        PROVE  (TxInv /\ KeysHeld)'
    BY <1>3, BeginKeys DEF BeginInsert, BeginDelete
  <1>4. CASE Server
    BY <1>4, ServeKeys, RollbackKeys DEF Server, Cancel
  <1> QED
    BY <1>1, <1>2, <1>3, <1>4 DEF Next, StudentRequest, FacultyRequest

\* Initially no transaction is open.
LEMMA InitKeys == Init => TxInv /\ KeysHeld
  BY DEF Init, TxInv, KeysHeld

\* The primary key of quiz_answer holds, whoever saves what at the same time.
THEOREM KeysCorrect == Spec => []KeysHeld
  <1>1. Init => KeyInv
    BY InitType, InitKeys DEF KeyInv
  <1>2. KeyInv => KeysHeld
    BY DEF KeyInv
  <1> QED
    BY <1>1, <1>2, NextKeys, PTL DEF Spec

-----------------------------------------------------------------------------
(* The foreign keys of quiz_answer.  What a transaction is about to commit *)
(* has its references from the end of its INSERT on, when they are checked *)
(* and the submission is locked, and not before.                           *)

Referenced(row) == sub[row[1]][row[2]] # NoRow /\ QuizOf[row[3]] = row[1]

RefInv ==
    /\ AnswersReferenced
    /\ \A c \in Conns : phase[c] = "ready" => \A row \in new[c] : Referenced(row)

\* Every step of a transaction keeps the references.
LEMMA ServeReferences ==
    ASSUME KeyInv, RefInv, NEW c \in Conns, ServeRequest(c)
    PROVE  RefInv'
  <1> USE DEF KeyInv, TypeOK, RefInv, AnswersReferenced, Referenced
  <1>1. CASE DeleteStart(c)
    BY <1>1 DEF DeleteStart, tables
  <1>2. ASSUME NEW row \in todo[c], DeleteRow(c, row)
        PROVE  RefInv'
    BY <1>2 DEF DeleteRow, tables
  <1>3. CASE DeleteEnd(c)
    BY <1>3 DEF DeleteEnd, tables
  <1>4. CASE InsertStart(c)
    BY <1>4 DEF InsertStart, tables
  <1>5. ASSUME NEW row \in todo[c], InsertRow(c, row)
        PROVE  RefInv'
    BY <1>5 DEF InsertRow, tables
  <1>6. CASE InsertEnd(c)
    <2>1. \A row \in new[c] : Referenced(row)
      BY <1>6 DEF InsertEnd, TxInv, RowsOf, ReferencesHold
    <2> QED
      BY <1>6, <2>1 DEF InsertEnd, tables
  <1>7. CASE Commit(c)
    BY <1>7 DEF Commit, Finish, tables
  <1>8. ASSUME Rollback(c)
        PROVE  RefInv'
    BY <1>8 DEF Rollback, Finish, tables
  <1> QED
    BY <1>1, <1>2, <1>3, <1>4, <1>5, <1>6, <1>7, <1>8
    DEF ServeRequest, PolicyRefuses, DuplicateKey, ReferenceMissing, DeadlockVictim

\* Starting a quiz, or moving its start, takes no submission away.
LEMMA StartReferences ==
    ASSUME sub \in [Quizzes -> [Students -> Time \cup {NoRow}]],
           NEW q \in Quizzes, NEW u \in Students, NEW t \in Time,
           sub' = [sub EXCEPT ![q][u] = t]
    PROVE  \A p \in Quizzes, v \in Students : sub[p][v] # NoRow => sub'[p][v] # NoRow
  <1> SUFFICES ASSUME NEW p \in Quizzes, NEW v \in Students, sub[p][v] # NoRow
               PROVE  sub'[p][v] # NoRow
    OBVIOUS
  <1>1. CASE p = q /\ v = u
    BY <1>1, NoRowIsNoTime
  <1>2. CASE p = q /\ v # u
    BY <1>2
  <1>3. CASE p # q
    BY <1>3
  <1> QED
    BY <1>1, <1>2, <1>3

\* Every step of the specification keeps the references.  The one that could
\* break them is the deletion of a submission.
LEMMA NextReferences == KeyInv /\ RefInv /\ [Next]_vars => RefInv'
  <1> SUFFICES ASSUME KeyInv, RefInv, [Next]_vars
               PROVE  RefInv'
    OBVIOUS
  <1> USE QuizTakingAssumption DEF KeyInv, TypeOK, RefInv, AnswersReferenced, Referenced
  <1>1. CASE Tick \/ UNCHANGED vars
    BY <1>1 DEF Tick, vars, tables, txs
  <1>2. ASSUME NEW q \in Quizzes, NEW u \in Students, NEW t \in Time,
               BeginQuiz(q, u, t) \/ FacultySetStart(q, u, t)
        PROVE  RefInv'
    <2>1. sub' = [sub EXCEPT ![q][u] = t]
      BY <1>2 DEF BeginQuiz, FacultySetStart
    <2>2. \A p \in Quizzes, v \in Students : sub[p][v] # NoRow => sub'[p][v] # NoRow
      BY <2>1, StartReferences
    <2>3. ans \subseteq Row /\ \A c \in Conns : new[c] \subseteq Row
      OBVIOUS
    <2> QED
      BY <1>2, <2>2, <2>3 DEF BeginQuiz, FacultySetStart, txs, Row
  <1>3. CASE Save
    BY <1>3 DEF Save, BeginSave, Begin, tables
  <1>4. ASSUME NEW c \in Conns, NEW u \in Students, NEW q \in Quizzes, NEW o \in Options,
               NEW faculty \in BOOLEAN,
               BeginInsert(c, u, q, o, faculty) \/ BeginDelete(c, u, q, o, faculty)
        PROVE  RefInv'
    BY <1>4 DEF BeginInsert, BeginDelete, Begin, tables
  <1>5. CASE FacultyEdit
    <2>1. ASSUME NEW q \in Quizzes, NEW row \in QuizRows, FacultySetQuiz(q, row)
          PROVE  RefInv'
      BY <2>1 DEF FacultySetQuiz, txs
    <2>2. ASSUME NEW q \in Quizzes, NEW u \in Students, NEW t \in Extensions \cup {NoRow},
                 FacultySetException(q, u, t)
          PROVE  RefInv'
      BY <2>2 DEF FacultySetException, txs
    <2>3. ASSUME NEW q \in Quizzes, NEW u \in Students, FacultyDeleteSubmission(q, u)
          PROVE  RefInv'
      <3>1. \A p \in Quizzes, v \in Students :
                sub[p][v] # NoRow /\ <<p, v>> # <<q, u>> => sub'[p][v] # NoRow
        BY <2>3 DEF FacultyDeleteSubmission
      <3>2. \A row \in ans : <<row[1], row[2]>> # <<q, u>>
        BY <2>3 DEF FacultyDeleteSubmission
      <3>3. \A c \in Conns : phase[c] = "ready" =>
                \A row \in new[c] : <<row[1], row[2]>> # <<q, u>>
        BY <2>3 DEF FacultyDeleteSubmission, HoldsSubmission
      <3>4. ans \subseteq Row /\ \A c \in Conns : new[c] \subseteq Row
        OBVIOUS
      <3> QED
        BY <2>3, <3>1, <3>2, <3>3, <3>4 DEF FacultyDeleteSubmission, txs, Row
    <2> QED
      BY <1>2, <1>5, <2>1, <2>2, <2>3 DEF FacultyEdit
  <1>6. CASE Server
    <2>1. ASSUME NEW c \in Conns, Rollback(c)
          PROVE  RefInv'
      BY <2>1 DEF Rollback, Finish, tables
    <2> QED
      BY <1>6, <2>1, ServeReferences DEF Server, Cancel
  <1> QED
    BY <1>1, <1>2, <1>3, <1>4, <1>5, <1>6 DEF Next, StudentRequest, FacultyRequest, Start

\* Every answer keeps its submission and its option of the quiz, whatever
\* faculty delete while students save.
THEOREM ReferencesCorrect == Spec => []AnswersReferenced
  <1>1. Init => KeyInv /\ RefInv
    BY InitType, InitKeys DEF KeyInv, RefInv, Init, AnswersReferenced
  <1>2. RefInv => AnswersReferenced
    BY DEF RefInv
  <1> QED
    BY <1>1, <1>2, NextKeys, NextReferences, PTL DEF Spec

-----------------------------------------------------------------------------
(* Deadlines.  While faculty edit nothing, an open submission stays open   *)
(* for a request that started in time, so what the policy saw when the     *)
(* INSERT started still holds when the transaction commits.                *)

StudentStep == Tick \/ StudentRequest \/ Server

PolicyInv ==
    \A c \in Conns :
        phase[c] \in {"inserting", "ready"} /\ req[c].want # {} => MayAnswer(req[c])

\* Steps of students are steps of the specification.
LEMMA StudentInv == StudentSpec => []KeyInv
  <1>1. Init => KeyInv
    BY InitType, InitKeys DEF KeyInv
  <1>2. [StudentStep]_vars => [Next]_vars
    BY DEF StudentStep, Next
  <1> QED
    BY <1>1, <1>2, NextKeys, PTL DEF StudentSpec, StudentStep

\* They leave every started submission, and all dates, as they are.
LEMMA StudentDates ==
    ASSUME TypeOK, [StudentStep]_vars
    PROVE  /\ quiz' = quiz /\ exc' = exc
           /\ \A q \in Quizzes, u \in Students :
                 sub[q][u] # NoRow => sub'[q][u] = sub[q][u]
  <1>1. CASE UNCHANGED tables
    BY <1>1 DEF tables
  <1>2. ASSUME NEW q \in Quizzes, NEW u \in Students, NEW t \in Time, BeginQuiz(q, u, t)
        PROVE  /\ quiz' = quiz /\ exc' = exc
               /\ \A p \in Quizzes, v \in Students :
                     sub[p][v] # NoRow => sub'[p][v] = sub[p][v]
    <2>1. sub \in [Quizzes -> [Students -> Time \cup {NoRow}]]
      BY DEF TypeOK
    <2>2. sub' = [sub EXCEPT ![q][u] = t] /\ sub[q][u] = NoRow
      BY <1>2 DEF BeginQuiz
    <2>3. ASSUME NEW p \in Quizzes, NEW v \in Students, sub[p][v] # NoRow
          PROVE  sub'[p][v] = sub[p][v]
      <3>1. CASE p = q
        BY <2>1, <2>2, <2>3, <3>1
      <3>2. CASE p # q
        BY <2>1, <2>2, <3>2
      <3> QED
        BY <3>1, <3>2
    <2> QED
      BY <1>2, <2>3 DEF BeginQuiz
  <1>3. CASE Tick \/ UNCHANGED vars
    BY <1>1, <1>3 DEF Tick, vars, tables
  <1>4. CASE StudentRequest
    BY <1>1, <1>2, <1>4 DEF StudentRequest, Start, Save, BeginSave, BeginInsert,
       BeginDelete, Begin, tables
  <1>5. CASE Server
    BY <1>1, <1>5 DEF Server, ServeRequest, DeleteStart, DeleteRow, DeleteEnd, InsertStart,
       InsertRow, InsertEnd, Commit, Rollback, PolicyRefuses, DuplicateKey,
       ReferenceMissing, DeadlockVictim, Cancel, tables
  <1> QED
    BY <1>3, <1>4, <1>5 DEF StudentStep

\* So the policy's answer to a request does not change for the worse.
LEMMA StudentPolicy ==
    ASSUME TypeOK, [StudentStep]_vars, NEW r \in Request, MayAnswer(r)
    PROVE  r.faculty \/ \E q \in Quizzes : SubmissionOpen(q, r.user, r.start)'
  BY StudentDates DEF MayAnswer, SubmissionOpen, Published, Deadline, Earlier, Request

\* A connection that a step leaves with the policy's approval had it before,
\* or the step is the one that asks for it.
LEMMA StudentRequestsApproved ==
    ASSUME TypeOK, PolicyInv, [StudentStep]_vars, NEW c \in Conns,
           phase'[c] \in {"inserting", "ready"}, req'[c].want # {}
    PROVE  MayAnswer(req[c]) /\ req'[c] = req[c] /\ req[c] \in Request
  <1> USE DEF TypeOK, PolicyInv
  <1>1. CASE UNCHANGED <<req, phase>>
    BY <1>1
  <1>2. ASSUME NEW d \in Conns, NEW r, Begin(d, r)
        PROVE  MayAnswer(req[c]) /\ req'[c] = req[c] /\ req[c] \in Request
    BY <1>2 DEF Begin
  <1>3. ASSUME NEW d \in Conns, Finish(d)
        PROVE  MayAnswer(req[c]) /\ req'[c] = req[c] /\ req[c] \in Request
    BY <1>3 DEF Finish
  <1>4. ASSUME NEW d \in Conns, ServeRequest(d)
        PROVE  MayAnswer(req[c]) /\ req'[c] = req[c] /\ req[c] \in Request
    <2>1. CASE DeleteStart(d)
      BY <2>1 DEF DeleteStart
    <2>2. CASE DeleteEnd(d)
      BY <2>2 DEF DeleteEnd
    <2>3. CASE InsertStart(d)
      BY <2>3 DEF InsertStart, AtInsert
    <2>4. CASE InsertEnd(d)
      BY <2>4 DEF InsertEnd
    <2>5. ASSUME NEW row \in todo[d], DeleteRow(d, row) \/ InsertRow(d, row)
          PROVE  MayAnswer(req[c]) /\ req'[c] = req[c] /\ req[c] \in Request
      BY <1>1, <2>5 DEF DeleteRow, InsertRow
    <2> QED
      BY <1>3, <1>4, <2>1, <2>2, <2>3, <2>4, <2>5 DEF ServeRequest, Commit, Rollback,
         PolicyRefuses, DuplicateKey, ReferenceMissing, DeadlockVictim
  <1>5. CASE Tick \/ Start \/ UNCHANGED vars
    BY <1>1, <1>5 DEF Tick, Start, BeginQuiz, vars, txs
  <1>6. CASE StudentRequest
    BY <1>2, <1>5, <1>6 DEF StudentRequest, Save, BeginSave, BeginInsert, BeginDelete
  <1>7. CASE Server
    BY <1>3, <1>4, <1>7 DEF Server, Cancel, Rollback
  <1> QED
    BY <1>5, <1>6, <1>7 DEF StudentStep

\* Every request that inserts answers has the policy's approval until it ends.
LEMMA StudentApproved == StudentSpec => []PolicyInv
  <1>1. Init => PolicyInv
    BY DEF Init, PolicyInv
  <1>2. KeyInv /\ PolicyInv /\ [StudentStep]_vars => PolicyInv'
    <2> SUFFICES ASSUME KeyInv, PolicyInv, [StudentStep]_vars, NEW c \in Conns,
                        phase'[c] \in {"inserting", "ready"}, req'[c].want # {}
                 PROVE  MayAnswer(req[c])'
      BY DEF PolicyInv
    <2>1. MayAnswer(req[c]) /\ req'[c] = req[c] /\ req[c] \in Request
      BY StudentRequestsApproved DEF KeyInv
    <2> QED
      BY <2>1, StudentPolicy DEF KeyInv, MayAnswer
  <1> QED
    BY <1>1, <1>2, StudentInv, PTL DEF StudentSpec, StudentStep

\* Where there is one quiz, the policy does what it says: answers that are
\* committed were sent in time.  The hypothesis is needed: with two quizzes
\* AnsweredInTime fails.
THEOREM DeadlineEnforced ==
    ASSUME \A p, q \in Quizzes : p = q
    PROVE  StudentSpec => []AnsweredInTime
  <1>1. KeyInv /\ PolicyInv => AnsweredInTime
    <2> SUFFICES ASSUME KeyInv, PolicyInv, NEW c \in Conns,
                        phase[c] = "ready", new[c] # {}, ~req[c].faculty
                 PROVE  SubmissionOpen(req[c].quiz, req[c].user, req[c].start)
      BY DEF AnsweredInTime
    <2>1. req[c] \in Request /\ new[c] \subseteq RowsOf(req[c], req[c].want)
      BY DEF KeyInv, TypeOK, TxInv
    <2>2. req[c].want # {}
      BY <2>1 DEF RowsOf
    <2>3. PICK q \in Quizzes : SubmissionOpen(q, req[c].user, req[c].start)
      BY <2>2 DEF PolicyInv, MayAnswer
    <2>4. q = req[c].quiz
      BY <2>1 DEF Request
    <2> QED
      BY <2>3, <2>4
  <1> QED
    BY <1>1, StudentInv, StudentApproved, PTL

\* What the policy on answers gives however many quizzes there are: answers
\* come to be there only by a request of faculty, or by one the student sent
\* while she had time left for some quiz.
AddedWhileOpen ==
    [][\A row \in ans' \ ans : \E c \in Conns :
          /\ phase[c] = "ready" /\ row \in new[c]
          /\ \/ req[c].faculty
             \/ \E q \in Quizzes : SubmissionOpen(q, row[2], req[c].start)]_vars

THEOREM AddedInTime == StudentSpec => AddedWhileOpen
  <1>1. ASSUME KeyInv, PolicyInv, [StudentStep]_vars, NEW row \in ans' \ ans
        PROVE  \E c \in Conns :
                  /\ phase[c] = "ready" /\ row \in new[c]
                  /\ \/ req[c].faculty
                     \/ \E q \in Quizzes : SubmissionOpen(q, row[2], req[c].start)
    <2>1. PICK c \in Conns : Commit(c)
      BY <1>1 DEF StudentStep, Tick, StudentRequest, Start, Save, BeginQuiz, BeginSave,
         BeginInsert, BeginDelete, Begin, Server, Cancel, ServeRequest, DeleteStart, DeleteRow,
         DeleteEnd, InsertStart, InsertRow, InsertEnd, PolicyRefuses, DuplicateKey,
         ReferenceMissing, DeadlockVictim, Rollback, vars
    <2>2. phase[c] = "ready" /\ row \in new[c]
      BY <1>1, <2>1 DEF Commit
    <2>3. req[c] \in Request /\ row \in RowsOf(req[c], req[c].want)
      BY <1>1, <2>2 DEF KeyInv, TypeOK, TxInv
    <2>4. row[2] = req[c].user /\ req[c].want # {}
      BY <2>3 DEF RowsOf
    <2>5. MayAnswer(req[c])
      BY <1>1, <2>2, <2>4 DEF PolicyInv
    <2> QED
      BY <2>2, <2>4, <2>5 DEF MayAnswer
  <1>2. KeyInv /\ PolicyInv /\ [StudentStep]_vars =>
            [\A row \in ans' \ ans : \E c \in Conns :
                /\ phase[c] = "ready" /\ row \in new[c]
                /\ \/ req[c].faculty
                   \/ \E q \in Quizzes : SubmissionOpen(q, row[2], req[c].start)]_vars
    BY <1>1
  <1> QED
    BY <1>2, StudentInv, StudentApproved, PTL DEF StudentSpec, StudentStep, AddedWhileOpen

-----------------------------------------------------------------------------
(* The created_at a student sends.                                         *)

\* A submission is never younger than it says.
ClockInv ==
    \A q \in Quizzes, u \in Students :
        sub[q][u] # NoRow => began[q][u] # NoRow /\ sub[q][u] <= began[q][u]

\* Only what writes to submissions could make one older than it says: a student
\* because of the CHECK does not, and what faculty write is what counts.
LEMMA NextClock ==
    ASSUME TypeOK, ClockInv, [Next]_vars
    PROVE  ClockInv'
  <1> USE QuizTakingAssumption DEF TypeOK, ClockInv
  <1>1. CASE UNCHANGED <<sub, began>>
    BY <1>1
  <1>2. ASSUME NEW q \in Quizzes, NEW u \in Students, NEW t \in Time,
               BeginQuiz(q, u, t) \/ FacultySetStart(q, u, t)
        PROVE  ClockInv'
    <2>1. /\ t \in Nat /\ now \in Nat /\ t <= now
          /\ sub' = [sub EXCEPT ![q][u] = t]
          /\ began' = [began EXCEPT ![q][u] = now] \/ began' = [began EXCEPT ![q][u] = t]
      BY <1>2 DEF BeginQuiz, FacultySetStart, Time
    <2>2. sub'[q][u] = t /\ began'[q][u] \in {now, t}
      BY <2>1
    <2>3. \A p \in Quizzes, v \in Students : <<p, v>> # <<q, u>> =>
              sub'[p][v] = sub[p][v] /\ began'[p][v] = began[p][v]
      BY <2>1
    <2> QED
      BY <2>1, <2>2, <2>3
  <1>3. ASSUME NEW q \in Quizzes, NEW u \in Students, FacultyDeleteSubmission(q, u)
        PROVE  ClockInv'
    <2>1. \A p \in Quizzes, v \in Students : sub'[p][v] # NoRow =>
              sub'[p][v] = sub[p][v] /\ began'[p][v] = began[p][v]
      BY <1>3 DEF FacultyDeleteSubmission
    <2> QED
      BY <2>1
  <1>4. CASE FacultyEdit
    BY <1>1, <1>2, <1>3, <1>4 DEF FacultyEdit, FacultySetQuiz, FacultySetException
  <1>5. CASE StudentRequest \/ FacultyRequest
    BY <1>1, <1>2, <1>5 DEF StudentRequest, FacultyRequest, Start, Save, BeginSave,
       BeginInsert, BeginDelete, Begin, tables
  <1>6. CASE Server
    BY <1>1, <1>6 DEF Server, ServeRequest, DeleteStart, DeleteRow, DeleteEnd, InsertStart,
       InsertRow, InsertEnd, Commit, Rollback, PolicyRefuses, DuplicateKey,
       ReferenceMissing, DeadlockVictim, Cancel, tables
  <1>7. CASE Tick \/ UNCHANGED vars
    BY <1>1, <1>7 DEF Tick, vars, tables
  <1> QED
    BY <1>4, <1>5, <1>6, <1>7 DEF Next

\* Where there is one quiz, the created_at a student sends gives her no answer
\* later than the duration of the quiz after she really started it: the CHECK on
\* the submission and the policy on answers hold this together.
THEOREM NoTimeGained ==
    ASSUME \A p, q \in Quizzes : p = q
    PROVE  StudentSpec => []NoExtraTime
  <1>1. Init => ClockInv
    BY DEF Init, ClockInv
  <1>2. KeyInv /\ ClockInv /\ [StudentStep]_vars => ClockInv'
    <2>1. StudentStep => Next
      BY DEF StudentStep, Next
    <2> QED
      BY <2>1, NextClock DEF KeyInv
  <1>3. KeyInv /\ ClockInv /\ AnsweredInTime => NoExtraTime
    <2> SUFFICES ASSUME KeyInv, ClockInv, AnsweredInTime, NEW c \in Conns,
                        phase[c] = "ready", new[c] # {}, ~req[c].faculty
                 PROVE  req[c].start < began[req[c].quiz][req[c].user] + quiz[req[c].quiz].dur
      BY DEF NoExtraTime
    <2> DEFINE q == req[c].quiz
               u == req[c].user
               t == req[c].start
    <2>1. q \in Quizzes /\ u \in Students /\ t \in Time
      BY DEF KeyInv, TypeOK, Request
    <2>2. sub[q][u] # NoRow /\ t < Deadline(q, u)
      BY DEF AnsweredInTime, SubmissionOpen
    <2>3. /\ t \in Nat /\ sub[q][u] \in Nat /\ began[q][u] \in Nat /\ quiz[q].dur \in Nat
          /\ quiz[q].close \in Nat
          /\ exc[q][u] # NoRow => exc[q][u] \in Nat
      BY <2>1, <2>2, QuizTakingAssumption DEF KeyInv, ClockInv, TypeOK, Time, QuizRow
    <2>4. sub[q][u] <= began[q][u]
      BY <2>1, <2>2 DEF ClockInv
    <2>5. \A a, b \in Nat : t < Earlier(a, b) => t < b
      BY <2>3 DEF Earlier
    <2>6. t < sub[q][u] + quiz[q].dur
      BY <2>2, <2>3, <2>5 DEF Deadline
    <2> QED
      BY <2>3, <2>4, <2>6
  <1> QED
    BY <1>1, <1>2, <1>3, StudentInv, DeadlineEnforced, PTL DEF StudentSpec, StudentStep

-----------------------------------------------------------------------------
(* The policy for starting a quiz and the view for answering it.           *)

\* Whoever may start a quiz has time to answer it, unless her exception ends
\* before the quiz does.
THEOREM StartGivesTime == Spec => StartLeavesTime
  <1>1. TypeOK /\ [Next]_vars =>
            [\A q \in Quizzes, u \in Students :
                /\ BeginQuiz(q, u, now)
                /\ exc[q][u] # NoRow => exc[q][u] >= quiz[q].close
                => SubmissionOpen(q, u, now)']_vars
    <2> SUFFICES ASSUME TypeOK, NEW q \in Quizzes, NEW u \in Students,
                        BeginQuiz(q, u, now),
                        exc[q][u] # NoRow => exc[q][u] >= quiz[q].close
                 PROVE  SubmissionOpen(q, u, now)'
      OBVIOUS
    <2>1. now' = now /\ quiz' = quiz /\ exc' = exc /\ sub'[q][u] = now
      BY DEF BeginQuiz, TypeOK
    <2>2. now \in Nat /\ quiz[q].close \in Nat /\ quiz[q].dur \in Nat /\ quiz[q].dur > 0
      BY QuizTakingAssumption DEF TypeOK, Time, QuizRow
    <2>3. exc[q][u] # NoRow => exc[q][u] \in Nat
      BY DEF TypeOK
    <2>4. Published(q, now)
      BY DEF BeginQuiz, MayStart, IsOpen
    <2>5. now < IF exc[q][u] # NoRow THEN exc[q][u] ELSE quiz[q].close
      BY <2>2, <2>3 DEF BeginQuiz, MayStart, IsOpen
    <2>6. now < now + quiz[q].dur
      BY <2>2
    <2>7. now < Earlier(IF exc[q][u] # NoRow THEN exc[q][u] ELSE quiz[q].close,
                        now + quiz[q].dur)
      BY <2>5, <2>6 DEF Earlier
    <2>8. now # NoRow
      BY <2>2, QuizTakingAssumption
    <2> QED
      BY <2>1, <2>4, <2>7, <2>8 DEF SubmissionOpen, Deadline, Published
  <1> QED
    BY <1>1, TypeCorrect, PTL DEF Spec, StartLeavesTime

\* No submission starts in the future, whatever created_at a student sends and
\* however faculty move it.
THEOREM StartedInPast == Spec => []StartedByNow
  <1>1. Init => StartedByNow
    BY DEF Init, StartedByNow
  <1>2. TypeOK /\ StartedByNow /\ [Next]_vars => StartedByNow'
    <2> SUFFICES ASSUME TypeOK, StartedByNow, [Next]_vars
                 PROVE  StartedByNow'
      OBVIOUS
    <2>1. now \in Nat
      BY QuizTakingAssumption DEF TypeOK, Time
    <2>2. CASE now' = now /\ sub' = sub
      BY <2>2 DEF StartedByNow
    <2>3. CASE Tick
      <3>1. \A q \in Quizzes, u \in Students : sub[q][u] # NoRow => sub[q][u] \in Nat
        BY QuizTakingAssumption DEF TypeOK, Time
      <3> QED
        BY <2>1, <2>3, <3>1 DEF Tick, tables, StartedByNow
    <2>4. ASSUME NEW q \in Quizzes, NEW u \in Students, NEW created \in Time,
                 BeginQuiz(q, u, created) \/ FacultySetStart(q, u, created)
          PROVE  StartedByNow'
      BY <2>4 DEF BeginQuiz, FacultySetStart, TypeOK, StartedByNow
    <2>5. ASSUME NEW q \in Quizzes, NEW u \in Students, FacultyDeleteSubmission(q, u)
          PROVE  StartedByNow'
      BY <2>5 DEF FacultyDeleteSubmission, TypeOK, StartedByNow
    <2>6. CASE Save \/ FacultyRequest \/ Server \/ UNCHANGED vars
      BY <2>2, <2>6 DEF Save, BeginSave, FacultyRequest, BeginInsert, BeginDelete, Begin,
         Server, ServeRequest, Cancel, DeleteStart, DeleteRow, DeleteEnd, InsertStart, InsertRow,
         InsertEnd, Commit, PolicyRefuses, DuplicateKey, ReferenceMissing, DeadlockVictim,
         Rollback, tables, vars
    <2>7. CASE StudentRequest
      BY <2>2, <2>4, <2>6, <2>7 DEF StudentRequest, Start, BeginInsert, BeginDelete, Begin, tables
    <2>8. CASE FacultyEdit
      BY <2>2, <2>4, <2>5, <2>8 DEF FacultyEdit, FacultySetQuiz, FacultySetException
    <2> QED
      BY <2>3, <2>6, <2>7, <2>8 DEF Next
  <1> QED
    BY <1>1, <1>2, TypeCorrect, PTL DEF Spec
-----------------------------------------------------------------------------
(* QuizTaking implements AnswerSheet, while no two connections carry       *)
(* answers of the same student: a transaction of many steps, with a        *)
(* DELETE, an INSERT and whatever others commit in between, does what its  *)
(* request asked for, or nothing.                                          *)

\* A student's answers come on one connection.
Separate == \A c, d \in Conns : c # d => Serves[c] \cap Serves[d] = {}

\* What the DELETE and the INSERT of a request are about.
Drop(c) == ans \cap RowsOf(req[c], req[c].drop)
Want(c) == RowsOf(req[c], req[c].want)

\* How far a transaction is: what it has deleted, and what it has inserted,
\* are what it was asked to, as far as its statement has come.
Progress(c) ==
    /\ req[c].user \in Serves[c]
    /\ phase[c] = "begun" => del[c] = {} /\ new[c] = {}
    /\ phase[c] = "deleting" => del[c] \cup todo[c] = Drop(c) /\ new[c] = {}
    /\ phase[c] = "deleted" => del[c] = Drop(c) /\ new[c] = {}
    /\ phase[c] = "inserting" => del[c] = Drop(c) /\ new[c] \cup todo[c] = Want(c)
    /\ phase[c] = "ready" => del[c] = Drop(c) /\ new[c] = Want(c)

SheetInv ==
    /\ TypeOK
    /\ \A c \in Conns : phase[c] # "idle" => Progress(c)

\* The request that is seen on c from outside.
Asked(c) ==
    IF phase[c] = "idle" THEN NoRequest
    ELSE [drop |-> RowsOf(req[c], req[c].drop), want |-> RowsOf(req[c], req[c].want)]

-----------------------------------------------------------------------------
(* The steps.                                                              *)

\* What others have not touched stays as it was.
LEMMA ProgressKept ==
    ASSUME NEW c \in Conns, Progress(c),
           req'[c] = req[c], phase'[c] = phase[c], todo'[c] = todo[c],
           del'[c] = del[c], new'[c] = new[c], Drop(c)' = Drop(c)
    PROVE  Progress(c)'
  BY DEF Progress, Want, RowsOf

\* A transaction that begins.
LEMMA BeginSheet ==
    ASSUME SheetInv, NEW c \in Conns, NEW r \in Request, Begin(c, r),
           \A d \in Conns : phase[d] = "idle" => del[d] = {} /\ new[d] = {}
    PROVE  SheetInv'
  <1>1. TypeOK'
    BY BeginType DEF SheetInv
  <1>2. ASSUME NEW d \in Conns, phase'[d] # "idle" PROVE Progress(d)'
    <2>1. CASE d = c
      BY <2>1 DEF Begin, SheetInv, TypeOK, Progress
    <2>2. CASE d # c
      BY <1>2, <2>2, ProgressKept DEF Begin, SheetInv, TypeOK, Drop, RowsOf
    <2> QED
      BY <2>1, <2>2
  <1> QED
    BY <1>1, <1>2 DEF SheetInv

\* One that ends without effect.
LEMMA RollbackSheet ==
    ASSUME SheetInv, NEW c \in Conns, Rollback(c)
    PROVE  SheetInv'
  <1>1. TypeOK'
    BY RollbackType DEF SheetInv
  <1>2. ASSUME NEW d \in Conns, phase'[d] # "idle" PROVE Progress(d)'
    <2>1. d # c
      BY <1>2 DEF Rollback, Finish, SheetInv, TypeOK
    <2> QED
      BY <1>2, <2>1, ProgressKept DEF Rollback, Finish, SheetInv, TypeOK, Drop, RowsOf
  <1> QED
    BY <1>1, <1>2 DEF SheetInv

\* What a transaction deletes and inserts are answers of a student it serves.
LEMMA OwnRows ==
    ASSUME SheetInv, NEW c \in Conns, phase[c] = "ready"
    PROVE  \A row \in del[c] \cup new[c] : row[2] \in Serves[c]
  BY DEF SheetInv, Progress, Drop, Want, RowsOf

\* A commit changes no answers of the students that others serve.
LEMMA CommitSheet ==
    ASSUME SheetInv, Separate, NEW c \in Conns, Commit(c)
    PROVE  /\ SheetInv'
           /\ ans' = (ans \ RowsOf(req[c], req[c].drop)) \cup RowsOf(req[c], req[c].want)
  <1>1. TypeOK'
    <2>1. ServeRequest(c)
      BY DEF ServeRequest
    <2> QED
      BY <2>1, ServeType DEF SheetInv
  <1>2. Progress(c) /\ phase[c] = "ready" /\ ans' = (ans \ del[c]) \cup new[c]
    BY DEF Commit, SheetInv
  <1>3. ASSUME NEW d \in Conns, phase'[d] # "idle" PROVE Progress(d)'
    <2>1. d # c /\ phase[d] # "idle"
      BY <1>3 DEF Commit, Finish, SheetInv, TypeOK
    <2>2. Progress(d)
      BY <2>1 DEF SheetInv
    <2>3. req'[d] = req[d] /\ phase'[d] = phase[d] /\ del'[d] = del[d] /\ new'[d] = new[d]
      BY <2>1 DEF Commit, Finish, SheetInv, TypeOK
    <2>4. \A row \in RowsOf(req[d], req[d].drop) : row \notin del[c] \cup new[c]
      BY <1>2, <2>1, <2>2, OwnRows DEF Progress, RowsOf, Separate
    <2>5. Drop(d)' = Drop(d)
      BY <1>2, <2>3, <2>4 DEF Drop, RowsOf
    <2>6. phase[d] = "deleting" => todo[d] \ del[c] = todo[d]
      BY <2>2, <2>4 DEF Progress, Drop
    <2>7. todo'[d] = todo[d]
      BY <2>1, <2>6 DEF Commit
    <2> QED
      BY <2>2, <2>3, <2>5, <2>7, ProgressKept
  <1>4. ans' = (ans \ RowsOf(req[c], req[c].drop)) \cup RowsOf(req[c], req[c].want)
    BY <1>2 DEF Progress, Drop, Want
  <1> QED
    BY <1>1, <1>3, <1>4 DEF SheetInv

\* A step of a transaction before its end, and the request it goes on with.
Onward(c) ==
    \/ DeleteStart(c) \/ DeleteEnd(c) \/ InsertStart(c) \/ InsertEnd(c)
    \/ \E row \in todo[c] : DeleteRow(c, row) \/ InsertRow(c, row)

LEMMA OnwardSheet ==
    ASSUME SheetInv, KeyInv, NEW c \in Conns, Onward(c)
    PROVE  SheetInv' /\ phase[c] # "idle" /\ phase'[c] # "idle" /\ UNCHANGED <<req, ans>>
  <1>1. TypeOK'
    <2>1. ServeRequest(c)
      BY DEF ServeRequest, Onward
    <2> QED
      BY <2>1, ServeType DEF SheetInv
  <1>2. UNCHANGED <<req, ans>> /\ phase[c] # "idle" /\ Progress(c)
    BY DEF Onward, DeleteStart, DeleteEnd, InsertStart, InsertEnd, DeleteRow, InsertRow, AtInsert,
       SheetInv
  <1>3. ASSUME NEW d \in Conns \ {c}
        PROVE  phase'[d] = phase[d] /\ todo'[d] = todo[d] /\ del'[d] = del[d] /\ new'[d] = new[d]
    BY DEF Onward, DeleteStart, DeleteEnd, InsertStart, InsertEnd, DeleteRow, InsertRow,
       SheetInv, TypeOK
  <1>4. Progress(c)' /\ phase'[c] # "idle"
    <2> USE DEF Progress, Drop, Want, SheetInv, TypeOK
    <2>1. CASE DeleteStart(c)
      BY <1>2, <2>1 DEF DeleteStart, RowsOf
    <2>2. CASE DeleteEnd(c)
      BY <1>2, <2>2 DEF DeleteEnd, RowsOf
    <2>3. CASE InsertStart(c)
      BY <1>2, <2>3 DEF InsertStart, AtInsert, RowsOf
    <2>4. CASE InsertEnd(c)
      BY <1>2, <2>4 DEF InsertEnd, RowsOf
    <2>5. ASSUME NEW row \in todo[c], DeleteRow(c, row) PROVE Progress(c)' /\ phase'[c] # "idle"
      BY <1>2, <2>5 DEF DeleteRow, RowsOf
    <2>6. ASSUME NEW row \in todo[c], InsertRow(c, row) PROVE Progress(c)' /\ phase'[c] # "idle"
      BY <1>2, <2>6 DEF InsertRow, RowsOf
    <2> QED
      BY <2>1, <2>2, <2>3, <2>4, <2>5, <2>6 DEF Onward
  <1>5. ASSUME NEW d \in Conns, phase'[d] # "idle" PROVE Progress(d)'
    <2>1. CASE d = c
      BY <1>4, <2>1
    <2>2. CASE d # c
      <3>1. Progress(d)
        BY <1>3, <1>5, <2>2 DEF SheetInv
      <3>2. Drop(d)' = Drop(d) /\ req'[d] = req[d]
        BY <1>2 DEF Drop, RowsOf
      <3> QED
        BY <1>3, <2>2, <3>1, <3>2, ProgressKept
    <2> QED
      BY <2>1, <2>2
  <1> QED
    BY <1>1, <1>2, <1>4, <1>5 DEF SheetInv

\* A step that touches no transaction and no answer.
LEMMA ElsewhereSheet ==
    ASSUME SheetInv, TypeOK', UNCHANGED <<ans, txs>>
    PROVE  SheetInv'
  <1>1. ASSUME NEW c \in Conns, phase'[c] # "idle" PROVE Progress(c)'
    <2>1. Progress(c) /\ Drop(c)' = Drop(c)
      BY <1>1 DEF SheetInv, Drop, RowsOf, txs
    <2> QED
      BY <2>1, ProgressKept DEF txs
  <1> QED
    BY <1>1 DEF SheetInv

-----------------------------------------------------------------------------
(* The refinement.                                                         *)

\* The requests that are seen from outside.
Seen == [c \in Conns |-> Asked(c)]

\* What AnswerSheet's steps are in these terms.
LEMMA SheetSteps ==
    /\ UNCHANGED <<ans, Seen>> => UNCHANGED (Sheet!vars)
    /\ \A c \in Conns :
        /\ /\ Seen[c] = NoRequest
           /\ \E drop, want \in SUBSET Row :
                 Seen' = [Seen EXCEPT ![c] = [drop |-> drop, want |-> want]]
           /\ UNCHANGED ans
           => Sheet!Ask(c)
        /\ /\ Seen[c] # NoRequest
           /\ Seen' = [Seen EXCEPT ![c] = NoRequest]
           => /\ ans' = (ans \ Seen[c].drop) \cup Seen[c].want => Sheet!Grant(c)
              /\ UNCHANGED ans => Sheet!Refuse(c)
  BY DEF Seen, Asked, Sheet!vars, Sheet!Ask, Sheet!Grant, Sheet!Refuse, Sheet!Answered

\* The rows that a pending request drops and wants are rows of quiz_answer, so
\* the request is not the absence of one.
LEMMA AskedIsChange ==
    ASSUME TypeOK, NEW c \in Conns, phase[c] # "idle"
    PROVE  Seen[c] # NoRequest
  <1>1. req[c] \in Request
    BY DEF TypeOK
  <1>2. RowsOf(req[c], req[c].drop) \in SUBSET Row /\ RowsOf(req[c], req[c].want) \in SUBSET Row
    BY <1>1, RowsOfType DEF Request
  <1>3. Asked(c) \in [drop : SUBSET Row, want : SUBSET Row]
    BY <1>2 DEF Asked
  <1> QED
    BY <1>3, NoRequestAssumption DEF Seen

\* What others do not touch is seen as it was.
LEMMA AskedKept ==
    ASSUME NEW c \in Conns, req'[c] = req[c], (phase[c] = "idle") <=> (phase'[c] = "idle")
    PROVE  Asked(c)' = Asked(c)
  BY DEF Asked, RowsOf

\* A transaction that begins is a request that comes in.
LEMMA BeginAsks ==
    ASSUME TypeOK, NEW c \in Conns, NEW r \in Request, Begin(c, r)
    PROVE  Sheet!Ask(c)
  <1>1. RowsOf(r, r.drop) \in SUBSET Row /\ RowsOf(r, r.want) \in SUBSET Row
    BY RowsOfType DEF Request
  <1>2. Asked(c)' = [drop |-> RowsOf(r, r.drop), want |-> RowsOf(r, r.want)]
    BY DEF Begin, TypeOK, Asked, RowsOf
  <1>3. \A d \in Conns \ {c} : Asked(d)' = Asked(d)
    BY AskedKept DEF Begin, TypeOK
  <1>4. Seen' = [Seen EXCEPT ![c] = [drop |-> RowsOf(r, r.drop), want |-> RowsOf(r, r.want)]]
    BY <1>2, <1>3 DEF Seen
  <1>5. Seen[c] = NoRequest /\ UNCHANGED ans
    BY DEF Begin, Seen, Asked
  <1> QED
    BY <1>1, <1>4, <1>5, SheetSteps

\* One that ends is a request that is no longer pending.
LEMMA FinishAnswers ==
    ASSUME TypeOK, NEW c \in Conns, Finish(c)
    PROVE  Seen' = [Seen EXCEPT ![c] = NoRequest]
  <1>1. Asked(c)' = NoRequest
    BY DEF Finish, TypeOK, Asked
  <1>2. \A d \in Conns \ {c} : Asked(d)' = Asked(d)
    BY AskedKept DEF Finish, TypeOK
  <1> QED
    BY <1>1, <1>2 DEF Seen

LEMMA CommitGrants ==
    ASSUME SheetInv, Separate, NEW c \in Conns, Commit(c)
    PROVE  Sheet!Grant(c)
  <1>1. TypeOK /\ phase[c] # "idle" /\ Finish(c)
    BY DEF SheetInv, Commit
  <1>2. Seen[c].drop = RowsOf(req[c], req[c].drop) /\ Seen[c].want = RowsOf(req[c], req[c].want)
    BY <1>1 DEF Seen, Asked
  <1> QED
    BY <1>1, <1>2, AskedIsChange, FinishAnswers, CommitSheet, SheetSteps

LEMMA RollbackRefuses ==
    ASSUME TypeOK, NEW c \in Conns, phase[c] # "idle", Rollback(c)
    PROVE  Sheet!Refuse(c)
  <1>1. Finish(c) /\ UNCHANGED ans
    BY DEF Rollback
  <1> QED
    BY <1>1, AskedIsChange, FinishAnswers, SheetSteps

\* Between its beginning and its end nothing of a transaction is seen.
LEMMA OnwardUnseen ==
    ASSUME SheetInv, KeyInv, NEW c \in Conns, Onward(c)
    PROVE  UNCHANGED (Sheet!vars)
  <1>1. phase[c] # "idle" /\ phase'[c] # "idle" /\ UNCHANGED <<req, ans>>
    BY OnwardSheet
  <1>2. \A d \in Conns \ {c} : phase'[d] = phase[d]
    BY DEF Onward, DeleteStart, DeleteEnd, InsertStart, InsertEnd, DeleteRow, InsertRow,
       SheetInv, TypeOK
  <1>3. \A d \in Conns : Asked(d)' = Asked(d)
    BY <1>1, <1>2, AskedKept
  <1>4. UNCHANGED Seen
    BY <1>3 DEF Seen
  <1> QED
    BY <1>1, <1>4, SheetSteps

\* Nothing of a step elsewhere is seen either.
LEMMA ElsewhereUnseen ==
    ASSUME UNCHANGED <<ans, txs>>
    PROVE  UNCHANGED (Sheet!vars)
  <1>1. \A d \in Conns : Asked(d)' = Asked(d)
    BY AskedKept DEF txs
  <1>2. UNCHANGED Seen /\ UNCHANGED ans
    BY <1>1 DEF Seen
  <1> QED
    BY <1>2, SheetSteps

-----------------------------------------------------------------------------
(* The specification.                                                      *)

\* A transaction that ends without effect was open.
LEMMA ServeCases ==
    ASSUME KeyInv, NEW c \in Conns, ServeRequest(c) \/ Cancel(c)
    PROVE  Onward(c) \/ Commit(c) \/ (phase[c] # "idle" /\ Rollback(c))
  <1>1. CASE PolicyRefuses(c)
    BY <1>1 DEF PolicyRefuses, AtInsert
  <1>2. ASSUME NEW row \in todo[c], DuplicateKey(c, row)
        PROVE  phase[c] # "idle" /\ Rollback(c)
    BY <1>2 DEF DuplicateKey
  <1>3. CASE ReferenceMissing(c)
    BY <1>3 DEF ReferenceMissing
  <1>4. CASE DeadlockVictim(c)
    BY <1>4 DEF DeadlockVictim, Deadlocked, KeyInv, TxInv
  <1>5. CASE Cancel(c)
    BY <1>5 DEF Cancel
  <1> QED
    BY <1>1, <1>2, <1>3, <1>4, <1>5 DEF ServeRequest, Onward

SheetStep == SheetInv' /\ [Sheet!Next]_(Sheet!vars)

\* Every step of a transaction is a step of AnswerSheet or none.
LEMMA ServerSheet ==
    ASSUME SheetInv, KeyInv, Separate, NEW c \in Conns, ServeRequest(c) \/ Cancel(c)
    PROVE  SheetStep
  <1>1. CASE Onward(c)
    BY <1>1, OnwardSheet, OnwardUnseen DEF SheetStep
  <1>2. CASE Commit(c)
    BY <1>2, CommitSheet, CommitGrants DEF SheetStep, Sheet!Next
  <1>3. CASE phase[c] # "idle" /\ Rollback(c)
    BY <1>3, RollbackSheet, RollbackRefuses DEF SheetStep, Sheet!Next, SheetInv
  <1> QED
    BY <1>1, <1>2, <1>3, ServeCases

\* So is the beginning of one.
LEMMA RequestSheet ==
    ASSUME SheetInv, KeyInv, NEW c \in Conns, NEW u \in Students, NEW q \in Quizzes,
           NEW faculty \in BOOLEAN, NEW drop \in SUBSET Options, NEW want \in SUBSET Options,
           Begin(c, [user |-> u, quiz |-> q, faculty |-> faculty, start |-> now,
                     drop |-> drop, want |-> want])
    PROVE  SheetStep
  <1>1. [user |-> u, quiz |-> q, faculty |-> faculty, start |-> now,
         drop |-> drop, want |-> want] \in Request
    BY DEF SheetInv, TypeOK, Request
  <1>2. \A d \in Conns : phase[d] = "idle" => del[d] = {} /\ new[d] = {}
    BY DEF KeyInv, TxInv
  <1>3. SheetInv'
    BY <1>1, <1>2, BeginSheet
  <1>4. Sheet!Ask(c)
    BY <1>1, BeginAsks DEF SheetInv
  <1> QED
    BY <1>3, <1>4 DEF SheetStep, Sheet!Next

\* So is everything else.
LEMMA NextSheet ==
    ASSUME SheetInv, KeyInv, Separate, [Next]_vars
    PROVE  SheetStep
  <1>1. CASE Tick \/ Start \/ FacultyEdit \/ UNCHANGED vars
    <2>1. UNCHANGED <<ans, txs>>
      BY <1>1 DEF Tick, Start, BeginQuiz, FacultyEdit, FacultySetQuiz,
         FacultySetException, FacultySetStart, FacultyDeleteSubmission, vars, txs
    <2>2. TypeOK'
      BY NextType DEF SheetInv
    <2> QED
      BY <2>1, <2>2, ElsewhereSheet, ElsewhereUnseen DEF SheetStep
  <1>2. CASE Save
    <2>1. ASSUME NEW c \in Conns, NEW u \in Students, NEW q \in Quizzes,
                 NEW S \in SUBSET Options, BeginSave(c, u, q, S)
          PROVE  SheetStep
      <3>1. Options \in SUBSET Options /\ FALSE \in BOOLEAN
        OBVIOUS
      <3> QED
        BY <2>1, <3>1, RequestSheet DEF BeginSave
    <2> QED
      BY <1>2, <2>1 DEF Save
  <1>3. ASSUME NEW c \in Conns, NEW u \in Students, NEW q \in Quizzes, NEW o \in Options,
               NEW faculty \in BOOLEAN,
               BeginInsert(c, u, q, o, faculty) \/ BeginDelete(c, u, q, o, faculty)
        PROVE  SheetStep
    <2>1. {o} \in SUBSET Options /\ {} \in SUBSET Options
      OBVIOUS
    <2>2. CASE BeginInsert(c, u, q, o, faculty)
      BY <2>1, <2>2, RequestSheet DEF BeginInsert
    <2>3. CASE BeginDelete(c, u, q, o, faculty)
      BY <2>1, <2>3, RequestSheet DEF BeginDelete
    <2> QED
      BY <1>3, <2>2, <2>3
  <1>4. CASE StudentRequest
    <2>1. FALSE \in BOOLEAN
      OBVIOUS
    <2> QED
      BY <1>1, <1>2, <1>3, <1>4, <2>1 DEF StudentRequest
  <1>5. CASE FacultyRequest
    <2>1. TRUE \in BOOLEAN
      OBVIOUS
    <2> QED
      BY <1>3, <1>5, <2>1 DEF FacultyRequest
  <1>6. CASE Server
    BY <1>6, ServerSheet DEF Server
  <1> QED
    BY <1>1, <1>4, <1>5, <1>6 DEF Next

\* Initially no request is pending and no answer is there.
LEMMA InitSheet == Init => SheetInv /\ Sheet!Init
  <1> SUFFICES ASSUME Init
               PROVE  SheetInv /\ Sheet!Init
    OBVIOUS
  <1>1. SheetInv
    BY InitType DEF Init, SheetInv
  <1>2. Sheet!Init
    BY DEF Init, Sheet!Init
  <1> QED
    BY <1>1, <1>2

\* When no two connections carry answers of the same student, requests look
\* atomic: the answers that are committed are always those that one request
\* after the other would have left, whole or not at all.
THEOREM SheetRefined == Separate /\ Spec => SheetSpec
  <1> SUFFICES ASSUME Separate
               PROVE  Spec => SheetSpec
    OBVIOUS
  <1>1. Init => KeyInv /\ SheetInv /\ Sheet!Init
    BY InitType, InitKeys, InitSheet DEF KeyInv
  <1>2. KeyInv /\ SheetInv /\ [Next]_vars => KeyInv' /\ SheetInv' /\ [Sheet!Next]_(Sheet!vars)
    BY NextKeys, NextSheet DEF SheetStep
  <1> QED
    BY <1>1, <1>2, PTL DEF Spec, SheetSpec, Sheet!Spec

\* And when save_quiz commits, her answers to the quiz are the options it was
\* called with.  That the student's answers come on one connection is needed:
\* two saves from two tabs leave answers of both.
THEOREM SaveReplaces == Separate /\ Spec => SaveOverwrites
  <1> SUFFICES ASSUME Separate
               PROVE  Spec => SaveOverwrites
    OBVIOUS
  <1>1. Init => KeyInv /\ SheetInv
    BY InitType, InitKeys, InitSheet DEF KeyInv
  <1>2. KeyInv /\ SheetInv /\ [Next]_vars => KeyInv' /\ SheetInv'
    BY NextKeys, NextSheet DEF SheetStep
  <1>3. ASSUME SheetInv, NEW c \in Conns, Commit(c), req[c].drop = Options
        PROVE  {row \in ans' : row[1] = req[c].quiz /\ row[2] = req[c].user}
                   = RowsOf(req[c], req[c].want)
    <2>1. ans' = (ans \ RowsOf(req[c], Options)) \cup RowsOf(req[c], req[c].want)
      BY <1>3, CommitSheet
    <2>2. ans \subseteq Row
      BY <1>3 DEF SheetInv, TypeOK
    <2>3. \A row \in ans : row[1] = req[c].quiz /\ row[2] = req[c].user
                            => row \in RowsOf(req[c], Options)
      BY <2>2 DEF Row, RowsOf
    <2>4. \A row \in RowsOf(req[c], req[c].want) :
             row[1] = req[c].quiz /\ row[2] = req[c].user
      BY DEF RowsOf
    <2> QED
      BY <2>1, <2>3, <2>4
  <1>4. SheetInv /\ [Next]_vars =>
            [\A c \in Conns :
                Commit(c) /\ req[c].drop = Options =>
                    {row \in ans' : row[1] = req[c].quiz /\ row[2] = req[c].user}
                        = RowsOf(req[c], req[c].want)]_vars
    BY <1>3
  <1> QED
    BY <1>1, <1>2, <1>4, PTL DEF Spec, SaveOverwrites
=============================================================================
