SPECIFICATION Spec
CONSTANTS
    BufferSize = 12
    Grow = 8
    MaxGrow = 1
    Fills <- AnyFill
    ChallengeLen = 3
    SplitResponse = FALSE
    Responses <- MCResponses
    Pushes <- MCPushes
INVARIANTS
    LinesMatch
    ChallengeRead
    FramesInOrder
PROPERTIES
    FramesHandled
CHECK_DEADLOCK FALSE
