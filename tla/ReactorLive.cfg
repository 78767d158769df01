CONSTANTS
    Fd = {f1}
    WakeFd = w0
    Events = {"r", "w", "e"}
    UsesPipe = TRUE
    UsesWaiter = TRUE
    Entries = {e1}
    Delays = {0, 1}
    Periods = {1}
    Slack = 1
    MaxBlock = 1
    MaxNow = 1
    MaxWatches = 1
SPECIFICATION FairSpec
PROPERTIES
    TimersFire
    FdsServed
    EndsWhenIdle
