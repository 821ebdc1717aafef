\* UDP transport: set-up, both ends and the listener close, timers race the lock.
CONSTANTS
    SeqMod <- MCSeqMod
    NumClients = 1
    NumFlows = 1
    ISS <- MCISS
    c1 = c1
    c2 = c2
    s1 = s1
    s2 = s2
    ClientAddrs <- OneClientAddr
    ServerAddrs <- OneServerAddr
    ClientAddr = c1
    ServerAddr = s1
    NoAddr = NoAddr
    NoCtrl = NoCtrl
    MaxRetransmits = 1
    MaxMigrations <- NoMigrations
    Closers <- Everyone
    ListenerCloses = TRUE
    Backlog = 1
    MaxRequests = 1
    Transport = "udp"
    Racers <- Everyone
SPECIFICATION FairSpec
INVARIANTS
    QueueHeadIsUna
    AckNotInvented
PROPERTIES
    RequestEnds
    CloseCompletes
CHECK_DEADLOCK FALSE
