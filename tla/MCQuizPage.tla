----------------------------- MODULE MCQuizPage -----------------------------
(* A small instance of QuizPage for TLC: two quizzes on one page. *)
EXTENDS QuizPage, TLC

CONSTANTS q1, q2, k1, k2, a, b, c

\* A quiz with two options of which one can be chosen, and one of a single option.
QuizOfQuestion   == k1 :> q1 @@ k2 :> q2
QuestionOfOption == a :> k1 @@ b :> k1 @@ c :> k2
SingleChoice     == {k1}
=============================================================================
