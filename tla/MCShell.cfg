SPECIFICATION ShellSafety
CONSTANTS
    HALF = 2
    MaxInterval = 1
    Latency = 0
    Threads = {main, w1}
    Main = main
    WD = wd
    NoThread = NoThread
    NoTimeout = NoTimeout
    Natives = {"timeout", "sleep", "scatter", "quit"}
    QuitCode = 7
INVARIANTS
    NoLimitAtPrompt
    WorkersDone
CHECK_DEADLOCK FALSE
