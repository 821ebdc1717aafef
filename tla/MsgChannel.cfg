SPECIFICATION FairSpec
CONSTANTS
    Order <- const_Order
    Remote = {"rhc"}
    Fails = {"NETLINK", "UNIX"}
    Uses <- const_Uses
    MaxMsgs = 3
    MaxInbox = 1
INVARIANTS RefsExact TaskOnLiveChannel
PROPERTIES FreeReturns
CHECK_DEADLOCK FALSE
