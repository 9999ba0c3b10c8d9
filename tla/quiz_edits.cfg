\* Students with a connection each, and faculty who edit and answer.
SPECIFICATION Spec
CONSTANTS
    u1 = u1  u2 = u2  q1 = q1  q2 = q2  o1 = o1  o2 = o2  c1 = c1  c2 = c2
    Students = {u1, u2}
    Quizzes = {q1}
    Options = {o1}
    Conns = {c1, c2}
    QuizOf <- OneQuiz
    QuizRows <- SomeRows
    Extensions <- LongExtension
    Serves <- OwnStudent
    MaxTime = 1
    NoRow = NoRow
    NoRequest = NoRequest
INVARIANTS TypeOK AnswersReferenced
PROPERTY SheetSpec
