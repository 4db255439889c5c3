SPECIFICATION ShellSpec
CONSTANTS
    HALF = 2
    MaxInterval = 1
    Latency = 0
    Threads = {main}
    Main = main
    WD = wd
    NoThread = NoThread
    NoTimeout = NoTimeout
    Natives = {"timeout", "scatter"}
    QuitCode = 7
PROPERTIES CancelStopsMain
CHECK_DEADLOCK FALSE
