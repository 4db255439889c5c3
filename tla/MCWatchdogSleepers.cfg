SPECIFICATION Safety
CONSTANTS
    HALF = 2
    MaxInterval = 1
    Latency = 0
    Threads = {main, w1}
    Main = main
    WD = wd
    NoThread = NoThread
    NoTimeout = NoTimeout
INVARIANT SleepersWoken
CHECK_DEADLOCK FALSE
