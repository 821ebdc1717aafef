\* TCP transport, two openers and a listener with the smallest backlog: deferred FIN,
\* resets of unread data, pruning; a callback of the first may come late.
CONSTANTS
    SeqMod <- MCSeqMod
    NumClients = 2
    NumFlows = 2
    ISS <- MCISS
    c1 = c1
    c2 = c2
    s1 = s1
    s2 = s2
    ClientAddrs <- OneClientAddr
    ServerAddrs <- OneServerAddr
    ClientAddr = c1
    ServerAddr = s1
    NoAddr = NoAddr
    NoCtrl = NoCtrl
    MaxRetransmits = 0
    MaxMigrations <- NoMigrations
    Closers <- OnePair
    ListenerCloses = TRUE
    Backlog = 0
    MaxRequests = 0
    Transport = "tcp"
    Racers <- OneClient
SPECIFICATION Spec
INVARIANTS
    TimerOnlyWhileQueued
    DestroyedOnce
    QueuesBounded
    HandshakeAgreement
CHECK_DEADLOCK FALSE
