CONSTANTS
    Fd = {f1}
    WakeFd = w0
    Events = {"r"}
    UsesPipe = TRUE
    UsesWaiter = FALSE
    Entries = {e1, e2}
    Delays <- AnyDelay
    Periods = {1}
    Slack = 1
    MaxBlock = 1
    MaxNow = 2
    MaxWatches = 2
SPECIFICATION Spec
SYMMETRY Symmetry
INVARIANTS
    CountsExact
    WaitsForLive
PROPERTIES
    StaysWithWork
    FiresInOrder
