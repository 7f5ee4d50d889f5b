SPECIFICATION FairSpec
CONSTANTS
    c1 = c1
    c2 = c2
    e1 = e1
    e2 = e2
    Coroutine = {c1, c2}
    Events = {e1, e2}
INVARIANTS SetsAnEventOnce WaitAnyIsTold
PROPERTIES TrueMeansSet SetReachesLinks WaitEnds
