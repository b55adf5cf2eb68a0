SPECIFICATION PairSpec
CONSTANTS
    u1 = u1
    u2 = u2
    None = None
    Users <- MCUsers
    MaxPlayers = 2
    QuestionCounts <- MCTwoQuestions
    StartIndexes <- MCFirstIndex
    AnswerNumbers <- MCFourthAnswer
    MaxAnswers = 2
INVARIANT PointsAreCorrectAnswers
CHECK_DEADLOCK FALSE
