SPECIFICATION MapSpec
CONSTANTS
    N = 3
    Fd = {f1, f2, f3}
    SigpipeFatal = TRUE
    TermHandled = TRUE
    OversizeIn = {3}
    OversizeOut = {}
    CallerDriven = FALSE
    MaxTickets = 4
    MaxSpawns = 3
    MaxCrashes = 1
    MaxInputs = 4
    MixedUse = FALSE
INVARIANT MapInOrder
PROPERTIES MapReturns DeinitReturns OrphansExit
