\* Both estimators of a connection, packets in a row that are not measured.
SPECIFICATION Spec
CONSTANTS
    Word = 32
    WordBits = 5
    Byte = 6
    RtoMins = {3}
    Floor = 3
    RTO_MAX = 5
    TIMEOUT_INIT = 4
    Rtts = {0, 2}
    MaxRtt = 2
    MaxRetransmits = 1
    Packets = 2
INVARIANTS RtoAboveMin WaitAboveMin
CHECK_DEADLOCK FALSE
