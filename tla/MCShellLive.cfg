SPECIFICATION ShellSpec
CONSTANTS
    HALF = 2
    MaxInterval = 1
    Latency = 0
    Threads = {main}
    Main = main
    WD = wd
    NoThread = NoThread
    NoTimeout = NoTimeout
    Natives = {"timeout", "sleep", "quit"}
    QuitCode = 7
INVARIANTS LimitInForce
PROPERTIES CancelStopsScript
CHECK_DEADLOCK FALSE
