SPECIFICATION FairSpec
CONSTANTS
    SeqMod = 8
    SynSeqs = {5}
    Senders = {"c"}
    Dups = {"DATA", "STATE", "FIN"}
    Prompt = TRUE
    ServerFirst = FALSE
    MaxTransmit = 2
    MaxData = 2
INVARIANTS AckedPacketsLeave
CHECK_DEADLOCK FALSE
