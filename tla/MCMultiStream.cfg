SPECIFICATION FairSpec
CONSTANTS
    w = w
    r = r
    Writers = {w}
    Readers = {r}
    EndOf <- MCEndOf
    Sizes = {1, 2}
    Modes = {"async", "wait"}
    RecvCap = 2
    SendCap = 2
    NewCaps = {3}
    Threshold = 3
    Batch = 2
    WireCap = 1
    MaxSends = 2
    MaxInputs = 2
INVARIANTS CreditConserved ReceiveNeverBlocks CloseDeliversAll ReceiversAreTold
PROPERTIES SendersGetOn CloseEnds
CHECK_DEADLOCK FALSE
