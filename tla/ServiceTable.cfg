SPECIFICATION Spec
CONSTANTS
    s1 = s1
    s2 = s2
    a1 = a1
    a2 = a2
    d1 = d1
    d2 = d2
    Bits = 2
    RuleIds <- MCRuleIds
    BindIds <- MCBindIds
    Socks = {s1, s2}
    Protocol <- MCProtocol
    Addrs = {a1, a2}
    Devs = {d1}
    Priorities = {1, 3}
    Local = 2
    MaxTargets = 2
SYMMETRY AddrSymmetry
INVARIANTS
    LookupIsLongestPrefix
    TableConsistent
PROPERTIES
    ControlLeavesSockets
CHECK_DEADLOCK FALSE
