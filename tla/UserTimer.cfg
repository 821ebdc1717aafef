SPECIFICATION Spec
CONSTANTS
    t1 = t1
    t2 = t2
    t3 = t3
    h1 = h1
    h2 = h2
    NoTimer = NoTimer
    Timers <- ThreeTimers
    Threads <- TwoThreads
    Delays <- TwoDelays
    MaxTime = 3
    MaxOps = 2
SYMMETRY TimerSymmetry
INVARIANTS
    NoLostWakeup
    TimersConsistent
CHECK_DEADLOCK FALSE
