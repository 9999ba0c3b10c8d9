\* One student on two connections, until every deadline is past.
SPECIFICATION FairSpec
CONSTANTS
    u1 = u1  u2 = u2  q1 = q1  q2 = q2  o1 = o1  o2 = o2  c1 = c1  c2 = c2
    Students = {u1}
    Quizzes = {q1}
    Options = {o1, o2}
    Conns = {c1, c2}
    QuizOf <- OneQuiz
    QuizRows <- ShortRows
    Extensions <- LongExtension
    Serves <- AnyStudent
    MaxTime = 3
    NoRow = NoRow
    NoRequest = NoRequest
INVARIANTS KeysHeld AnsweredInTime NoExtraTime
PROPERTIES StartLeavesTime RequestsEnd
