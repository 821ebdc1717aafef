\* Both ends move, at once or one after the other, or one moves and closes meanwhile.
CONSTANTS
    SeqMod <- MCSeqMod
    NumClients = 1
    NumFlows = 1
    ISS <- MCISS
    c1 = c1
    c2 = c2
    s1 = s1
    s2 = s2
    ClientAddrs <- TwoClientAddrs
    ServerAddrs <- TwoServerAddrs
    ClientAddr = c1
    ServerAddr = s1
    NoAddr = NoAddr
    NoCtrl = NoCtrl
    MaxRetransmits = 1
    MaxMigrations <- EachMigrates
    Closers <- ClientsOnly
    ListenerCloses = FALSE
    Backlog = 1
    MaxRequests = 1
    Transport = "udp"
    Racers <- Nobody
SPECIFICATION Spec
INVARIANTS
    RcvNotAhead
    QueuedHasTimer
    DaddrReachable
    AddressesAgree
CONSTRAINT MoveOrClose
CHECK_DEADLOCK FALSE
