SPECIFICATION FairSpec
CONSTANTS
    l1 = l1
    l2 = l2
    t1 = t1
    t2 = t2
    t3 = t3
    t4 = t4
    w1 = w1
    w2 = w2
    w3 = w3
    None = None
    Task = {t1, t2, t3, t4}
    Loop = {l1}
    LoopOf <- OneLoop
    Threads = 2
    Worker = {w1, w2, w3}
    MayEnd = TRUE
INVARIANTS IdleIsFree UnitsConserved
PROPERTY TasksAreDone
CHECK_DEADLOCK FALSE
