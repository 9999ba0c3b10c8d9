---------------------------- MODULE MCWebClient -----------------------------
(* A small instance of WebClient for TLC. *)
EXTENDS WebClient, TLC

CONSTANTS q1, q2, k1, k2, a, b

\* Two quizzes of one question and one option each.
QuizOfQuestion   == k1 :> q1 @@ k2 :> q2
QuestionOfOption == a :> k1 @@ b :> k2
SingleChoice     == {k2}

\* All but the history `toggled`, which no action reads and no property of the
\* run mentions.
Seen ==
    <<part, buildVars, portVars, workVars, started, saved, requests, submissions,
      pendingBegin, pendingSubmit, quizQuestions, quizAnswers, inputs>>
=============================================================================
