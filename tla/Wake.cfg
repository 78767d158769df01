CONSTANTS
    Reactors = {r1, r2}
    Signals = {s1}
    PipeCap = 2
    BufSize = 2
    CountMax = 2
    NoReactor = NoReactor
    MaxRoutes = 1
    MaxArrivals = 2
    MaxWakes = 1
    MaxOpens = 3
SPECIFICATION FairSpec
CHECK_DEADLOCK FALSE
INVARIANTS
    CalledAtMostOnce
    NoLostWakeup
    HandlerTargetOpen
PROPERTIES
    SignalServed
    WakeServed
