SPECIFICATION FairSpec
CONSTANTS
    Fds = {1, 2}
    Datagram = TRUE
    MaxCalls = 2
    MaxNet = 2
    MaxIntr = 1
    NonBlocking = {FALSE, TRUE}
    Starts = {"fresh", "listening", "connected"}
INVARIANTS
    ReplyMatches
PROPERTIES
    
    ShutdownEnds
    ClientsCollected
CHECK_DEADLOCK FALSE
