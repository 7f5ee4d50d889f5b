SPECIFICATION FairSpec
CONSTANTS
    c1 = c1
    c2 = c2
    c3 = c3
    one = one
    two = two
    zero = zero
    Default = Default
    Coroutine = {c1, c2, c3}
    Element = {two, zero}
    Size <- SizeOf
    Capacities = {1, 3}
    MaxLength = 2
INVARIANTS LatchesTell
PROPERTIES RefinesQueueSpec CloseEndsCalls ElementIsTaken
