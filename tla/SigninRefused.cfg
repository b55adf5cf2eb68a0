SPECIFICATION MCSpec
CONSTANTS
    h1 = h1
    h2 = h2
    s1 = s1
    s2 = s2
    Handles <- MCHandles
    Statements <- MCStatements
    Null = Null
    erez = erez
    assaf = assaf
    Names <- MCNames
    QuestionTable <- MCQuestionTable
    FirstAnswers <- MCFirstAnswers
    QuestionNumbers <- MCQuestionNumbers
    GameIds <- MCGameIds
    NoText = NoText
    MaxQueries = 4
INVARIANT RefusedMeansWrongDetails
CHECK_DEADLOCK FALSE
