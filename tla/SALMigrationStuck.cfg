\* The opener moves once; the RSYN-ACK may be late.
CONSTANTS
    SeqMod <- MCSeqMod
    NumClients = 1
    NumFlows = 1
    ISS <- MCISS
    c1 = c1
    c2 = c2
    s1 = s1
    s2 = s2
    ClientAddrs <- TwoClientAddrs
    ServerAddrs <- OneServerAddr
    ClientAddr = c1
    ServerAddr = s1
    NoAddr = NoAddr
    NoCtrl = NoCtrl
    MaxRetransmits = 1
    MaxMigrations <- ClientMigrates
    Closers <- Nobody
    ListenerCloses = FALSE
    Backlog = 1
    MaxRequests = 1
    Transport = "udp"
    Racers <- Nobody
SPECIFICATION FairSpec
PROPERTIES
    MigrationEnds
CHECK_DEADLOCK FALSE
