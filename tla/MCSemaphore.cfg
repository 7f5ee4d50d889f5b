SPECIFICATION FairSpec
CONSTANTS
    c1 = c1
    c2 = c2
    c3 = c3
    Coroutine = {c1, c2, c3}
    Loop = Loop
    Value = 2
    MaxAcquire = 2
    MayDestroy = TRUE
INVARIANTS WaitersListedOnce NoLostWakeup UnitsConserved
PROPERTIES FreeUnitIsTaken
CHECK_DEADLOCK FALSE
