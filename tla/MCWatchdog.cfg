SPECIFICATION Spec
CONSTANTS
    HALF = 3
    MaxInterval = 1
    Latency = 1
    Threads = {main, w1}
    Main = main
    WD = wd
    NoThread = NoThread
    NoTimeout = NoTimeout
INVARIANTS
    DeadlineWatched
    ComparisonsInRange
    DestroyedUnused
PROPERTIES
    DeadlineExpires
    SleepEnds
    KillEnds
    TimerSpec
CHECK_DEADLOCK FALSE
