SPECIFICATION MCSpec
CONSTANTS
    Requests <- MCRequests
    MaxRequests = 2
    TextLengths <- MCTextLengths
    AnswerLengths <- MCAnswerLengths
    RoomIds <- MCRoomIds
    Counts <- MCCounts
    MaxList = 2
    MaxReplies = 2
    MaxLength = 5
    Signups <- MCSignups
    None = None
INVARIANTS
    TypesOK
    BuildsWhatWasSent
    SignupDecision
    RepliesAreUnderstood
CHECK_DEADLOCK FALSE
