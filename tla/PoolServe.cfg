SPECIFICATION FairSpec
CONSTANTS
    N = 2
    Fd = {f1, f2}
    SigpipeFatal = FALSE
    TermHandled = FALSE
    OversizeIn = {1}
    OversizeOut = {2}
    CallerDriven = FALSE
    MaxTickets = 4
    MaxSpawns = 2
    MaxCrashes = 1
PROPERTIES TicketsSettle BacklogServed
