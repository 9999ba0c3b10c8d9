SPECIFICATION ClientSpec
CONSTANTS
    Targets = {"production", "development"}
    MaxEdits = 2
    MaxKills = 2
    EventTypes = {tablechange, tick}
    Message = message
    NoType = notype
    Payloads = {key}
    Calls = {"withListener", "withUntypedListener", "withoutListener",
             "withoutUntypedListener", "withoutAnyListener"}
    MaxSources = 2
    MaxEvents = 1
    MaxDrops = 1
    Patient = TRUE
    Slots = {1, 2, 3}
    q1 = q1  q2 = q2  k1 = k1  k2 = k2  a = a  b = b
    Quizzes = {q1, q2}
    Questions = {k1, k2}
    Options = {a, b}
    QuizOf <- QuizOfQuestion
    QuestionOf <- QuestionOfOption
    Radio <- SingleChoice
    Assignments = {a1}
    Texts = {x, y}
    Empty = Empty
VIEW Seen
INVARIANTS ClientTypeOK PageBuilt Heard LabelsTrue LoadingAwaited ExistingShown
PROPERTIES WatchedServed PendingEnds BeginEnds
\* The bounds end the edits of the source and the events, and a student may stop.
CHECK_DEADLOCK FALSE
