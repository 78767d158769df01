SPECIFICATION Spec
CONSTANTS
    N = 2
    Fd = {f1, f2, f3}
    SigpipeFatal = TRUE
    TermHandled = FALSE
    OversizeIn = {1}
    OversizeOut = {2}
    CallerDriven = FALSE
    MaxTickets = 4
    MaxSpawns = 3
    MaxCrashes = 2
SYMMETRY FdSymmetry
INVARIANTS TicketConserved AnswersMatch NoInheritanceCycle
PROPERTY ImplementsExecutor
