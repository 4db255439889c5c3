SPECIFICATION Spec
CONSTANTS
    Socks = {s1, s2}
    Threads = {t1, t2}
    MaxFd = 2
    Wrappers = 1
INVARIANTS
    FdsHeld
    FdsAccounted
    RequestsKept
CHECK_DEADLOCK FALSE

SYMMETRY Symmetry
