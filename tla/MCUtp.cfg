SPECIFICATION FairSpec
CONSTANTS
    SeqMod = 8
    SynSeqs = {2, 4, 7}
    Senders = {"c", "s"}
    Dups = {"DATA", "STATE", "FIN"}
    Prompt = TRUE
    ServerFirst = FALSE
    MaxTransmit = 2
    MaxData = 2
INVARIANTS OnlyReceivedLeave
PROPERTIES ReliableStream TransfersEnd
CHECK_DEADLOCK FALSE
