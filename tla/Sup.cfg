CONSTANTS
    N = 2
    Foreign = 1
    FastMs = 2
    GiveUp = 3
    BackoffMin = 1
    BackoffMax = 3
    Life = 2
SPECIFICATION FairSpec
INVARIANTS
    GivesUpOnCrashLoop
PROPERTIES
    DeadAreReplaced
