SPECIFICATION SaveSpec
CONSTANTS
    u1 = u1  u2 = u2  q1 = q1  q2 = q2  o1 = o1  o2 = o2  c1 = c1  c2 = c2
    Students = {u1}
    Quizzes = {q1, q2}
    Options = {o1, o2}
    Conns = {c1}
    QuizOf <- TwoQuizzes
    QuizRows <- TwoRows
    Extensions <- NoExtension
    Serves <- AnyStudent
    MaxTime = 3
    NoRow = NoRow
    NoRequest = NoRequest
INVARIANTS
    AnsweredInTime
