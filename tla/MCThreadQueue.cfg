SPECIFICATION ThreadQueueFairSpec
CONSTANTS
    t1 = t1
    t2 = t2
    t3 = t3
    Caller = {t1, t2, t3}
    Capacity = 2
    MaxForced = 3
INVARIANTS LatchesTell ClosedKeepsLatches OvershootIsBounded
PROPERTY CloseEndsCalls
CHECK_DEADLOCK FALSE
