SPECIFICATION FacadeFairSpec
CONSTANTS
    Threads = {t1, t2, t3}
    Keys = {k, m}
INVARIANTS
    OnlyLatecomersAreLost
PROPERTIES
    WaitsEnd
CHECK_DEADLOCK FALSE
