SPECIFICATION Spec
CONSTANTS
    N = 4
    Others = {other}
    Nobody = Nobody
INVARIANTS
    CleanExit
    ResultsSurvive
    ContextsReleased
    NoContextEscapes
PROPERTIES
    ScatterReturns
    PromiseKept
CHECK_DEADLOCK FALSE
