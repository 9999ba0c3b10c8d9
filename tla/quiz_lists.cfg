\* A student who begins a quiz while another is being begun.
SPECIFICATION FairSpec
CONSTANTS
    Patient = FALSE
    Slots = {1, 2, 3}
    q1 = q1  q2 = q2  k1 = k1  k2 = k2  a = a  b = b  c = c
    Quizzes = {q1, q2}
    Questions = {k1, k2}
    Options = {a, b, c}
    QuizOf <- QuizOfQuestion
    QuestionOf <- QuestionOfOption
    Radio <- SingleChoice
PROPERTY StartedKnown
\* A student may stop.
CHECK_DEADLOCK FALSE
