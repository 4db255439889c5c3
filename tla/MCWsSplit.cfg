SPECIFICATION Spec
CONSTANTS
    BufferSize = 12
    Grow = 8
    MaxGrow = 1
    Fills <- Zeroed
    ChallengeLen = 3
    SplitResponse = TRUE
    Responses <- MCResponses
    Pushes <- MCPushes
INVARIANT LinesMatch
CHECK_DEADLOCK FALSE
