---------------------------- MODULE MCQuizTaking ----------------------------
(* Small instances of QuizTaking for TLC. *)
EXTENDS QuizTaking, TLC

CONSTANTS u1, u2, o1, o2, c1, c2, q1, q2

\* One quiz, or one option for each of two quizzes.
OneQuiz == [o \in Options |-> q1]
TwoQuizzes == (o1 :> q1) @@ (o2 :> q2)

\* Two quizzes that open at once, the second of which closes earlier and gives
\* less time, and a draft.
Open == [draft |-> FALSE, open |-> 0, close |-> 3, dur |-> 2]
Short == [draft |-> FALSE, open |-> 0, close |-> 2, dur |-> 1]
Draft == [draft |-> TRUE, open |-> 0, close |-> 3, dur |-> 2]
OpenRows == {Open}
ShortRows == {Short}
TwoRows == {Open, Short}
SomeRows == {Short, Draft}

NoExtension == {}
LongExtension == {3}

AnyStudent == [c \in Conns |-> Students]
OwnStudent == (c1 :> {u1}) @@ (c2 :> {u2})
=============================================================================
