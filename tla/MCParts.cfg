SPECIFICATION PartsSpec
CONSTANTS
    LineSize = 2
    BufSize = 2
    Inputs <- MCInputs
    QuitCodes = {0, 7}
    Argvs <- MCArgvs
    MissingFiles = {"gone"}
    Slots = 2
    Libs = {"lib1", "lib2"}
    DsoThreads = {"t1", "t2"}
    MaxCalls = 2
    PollSocks = {"s1", "s2"}
    MaxArray = 3
    Timeouts <- MCTimeouts
    Frames <- MCFrames
    Things <- MCThings
    KindOf <- MCKindOf
    Heaps <- MCHeaps
    Names = {"true", "undefined", "isInner"}
    EvalQuitCodes = {0, 7}
    MaxSandboxes = 3
    EnvThreads = {"t1", "t2"}
    EnvNames = {"HOME", "new"}
    EnvValues = {"a", "b"}
    InitialEnv <- MCEnv
    MaxEnv = 3
    MaxArgs = 2
    MaxPieces = 3
    MaxNested = 2
    ItsObjects = {"it", "global"}
    ItsThreads = {"t1", "t2"}
    ItsValues = {"a", "b"}
    Cells = {"c1", "c2", "c3"}
    Lengths = {0, 1, 2}
INVARIANTS
    ArgumentsMatch
    StatusTells
    StatementsWhole
    BuffersFit
    HandlesKept
    PollServes
    PacketsWhole
    CountExact
    ObjectsKept
    ExitTells
    EnvAgrees
    OutputInOrder
    WriteTells
    CellsRooted
    SnarfWhole
CHECK_DEADLOCK FALSE
