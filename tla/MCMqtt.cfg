SPECIFICATION FairSpec
CONSTANTS
    c1 = c1
    c2 = c2
    c3 = c3
    r1 = r1
    m1 = m1
    Calls = {c1, c2, c3}
    Receivers = {r1}
    Inbound = {m1}
    Ops = {"PUBLISH0", "PUBLISH2", "SUBSCRIBE"}
    MaxId = 3
    SendCap = 1
    RecvCap = 1
    WireCap = 1
    KeepAlive = 1
    MaxInputs = 4
CONSTRAINT Bound
INVARIANTS Delivery TrueMeansTaken NobodyWaitsUnseen ReceiverIsTold
PROPERTIES AcknowledgedCallsEnd
CHECK_DEADLOCK FALSE
