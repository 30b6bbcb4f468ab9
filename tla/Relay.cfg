SPECIFICATION Spec
CONSTANTS
    MaxName = 255
    DefaultSize = 56
    MaxSize = 68
    Query <- MCQuery
    Answer <- MCAnswer
INVARIANTS
    TypeOK
    QuestionPassedOn
    AnswerPassedOn
    RecordsWhereAnnounced
    ReplyFitsClient
    OptAsAsked
CHECK_DEADLOCK FALSE
