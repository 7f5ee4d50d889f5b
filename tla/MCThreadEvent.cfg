SPECIFICATION FairSpec
CONSTANTS
    p1 = p1
    p2 = p2
    c1 = c1
    c2 = c2
    t1 = t1
    t2 = t2
    loop = loop
    None = None
    Process = {p1, p2, c1, c2}
    Thread = {t1, t2, loop}
    Looped = {loop}
    ThreadOf <- Placement
INVARIANTS NoLostWakeup
PROPERTY WaitEnds
