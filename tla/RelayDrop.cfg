SPECIFICATION Spec
CONSTANTS
    MaxName = 255
    DefaultSize = 54
    MaxSize = 68
    Query <- PlainQuery
    Answer <- PlainAnswer
INVARIANTS
    AnswersReachClients
CHECK_DEADLOCK FALSE
