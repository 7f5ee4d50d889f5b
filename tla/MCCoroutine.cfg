SPECIFICATION CoroutineSpec
CONSTANTS
    c1 = c1
    c2 = c2
    c3 = c3
    EventLoop = EventLoop
    Coroutine = {c1, c2, c3}
    k1 = k1
    k2 = k2
    KillIds = {k1, k2}
SYMMETRY Symmetry
INVARIANTS NoJoinerLeftBehind SwitchesAreSound OnlyStartedRun
CHECK_DEADLOCK FALSE
