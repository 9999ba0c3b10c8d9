SPECIFICATION SaveSpec
CONSTANTS
    u1 = u1  u2 = u2  q1 = q1  q2 = q2  o1 = o1  o2 = o2  c1 = c1  c2 = c2
    Students = {u1}
    Quizzes = {q1}
    Options = {o1, o2}
    Conns = {c1, c2}
    QuizOf <- OneQuiz
    QuizRows <- OpenRows
    Extensions <- NoExtension
    Serves <- AnyStudent
    MaxTime = 2
    NoRow = NoRow
    NoRequest = NoRequest
PROPERTIES
    SaveOverwrites
