SPECIFICATION Spec
CONSTANTS
    Socks = {s1, s2}
    Threads = {t1}
    MaxFd = 2
    Wrappers = 2
PROPERTY CollectionSpares
CHECK_DEADLOCK FALSE
