SPECIFICATION FairSpec
CONSTANTS
    Clients = {"c1"}
    Router = "r"
    Binds <- const_Binds
    Addrs <- const_Addrs
    Rebinders = {}
    Exits = {"c1"}
    LOCAL_SERVICE_TIMEOUT = 2
    REMOTE_SERVICE_TIMEOUT = 5
    MaxLoss = 1
    MaxMoves = 1
    MaxBinds = 1
    MaxStrays = 1
INVARIANTS TimerAwaited RuleOwned
PROPERTIES StaysReachable StaleGoes
CHECK_DEADLOCK FALSE
