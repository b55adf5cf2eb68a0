SPECIFICATION MCSpec
CONSTANTS
    Requests <- MCRequests
    MaxRequests = 2
    TextLengths <- MCTextLengths
    AnswerLengths <- MCAnswerLengths
    RoomIds <- MCRoomIds
    Counts <- MCCounts
    MaxList = 2
    MaxReplies = 2
    MaxLength = 5
    Signups <- MCSignups
    None = None
INVARIANT NamesByPolicy
CHECK_DEADLOCK FALSE
