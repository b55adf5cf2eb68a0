SPECIFICATION MCSpec
CONSTANTS
    u1 = u1
    u2 = u2
    None = None
    Users <- MCUsers
    MaxPlayers = 2
    QuestionCounts <- MCQuestionCounts
    StartIndexes <- MCStartIndexes
    AnswerNumbers <- MCAnswerNumbers
    MaxAnswers = 2
INVARIANTS
    PointsExcludeRightAnswers
    JudgedWasSent
    LoneGameOneAnswer
    CountersRestAtZero
PROPERTIES
    ImplementsBoard
    ConstructorReturns
CHECK_DEADLOCK FALSE
