\* One tab, two roles and two lives of a token, or two tabs within one life; two
\* students, one of them with an extension, and two edits; three connections and
\* a silence of four periods.
SPECIFICATION MCSpec
CONSTANTS
    t1 = t1  t2 = t2
    Tabs = {t1, t2}
    Roles = {"student", "ta"}
    Hour = 2
    Slack = 1
    MaxSkew = 2
    MaxTime = 4
    MaxSessions = 4
    MaxRestarts = 1
    s1 = s1  s2 = s2  q1 = q1  k1 = k1  k2 = k2  a = a  b = b  c = c
    Students = {s1, s2}
    Quizzes = {q1}
    Questions = {k1, k2}
    Options = {a, b, c}
    QuizOf <- QuizOfQuestion
    QuestionOf <- QuestionOfOption
    Extended <- OneExtension
    Drafts = {}
    MaxPoints = 1
    Connections = {b1, b2, b3}
    Period = 3
    MaxChurn = 3
    MaxEdits = 2
INVARIANTS ServerTypeOK RoleOfTheHour OwnSessionKept GradedRight SilenceBounded
PROPERTIES LoginEnds FinallyRight
\* The clock, the sessions and the edits are bounded.
CHECK_DEADLOCK FALSE
