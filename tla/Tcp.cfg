SPECIFICATION FairSpec
CONSTANTS
  SeqSpace = 16
  Mss = 2
  Isns = {14}
  InitCwnd = 2
  Reordering = 1
  Retries2 = 1
  RcvBuf = 5
  Writes = {5}
  Reads = {4}
  MaxUnits = 5
  ChanCap = 4
  MaxFaults = 1
INVARIANTS
    NoStall
    QueuesConsistent
    PollTells
    SalFinLast
PROPERTIES
    StreamKept
    ReadToTheEnd
