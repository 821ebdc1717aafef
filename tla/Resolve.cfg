SPECIFICATION FairSpec
CONSTANTS
    cl = cl
    rt = rt
    s1 = s1
    s2 = s2
    X = X
    Y = Y
    Hosts = {cl, rt}
    Client = cl
    Svcs = {X}
    Socks = {s1, s2}
    Closers = {s1}
    Configs <- MCConfigs
    RuleLists <- MCRuleLists
    Advisory = {}
    Behaved = TRUE
    MaxSends = 2
    Repeaters = {s1}
    MaxRules = 1
    MaxStarts <- MCMaxStarts
    Unplugged = {cl}
    QueueMax <- MCQueueMax
    RcvMax = 1
INVARIANTS
    OwnershipExact
PROPERTIES
    ForwardingEnds
    DelayEnds
CHECK_DEADLOCK FALSE
