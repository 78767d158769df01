CONSTANTS
    s1 = s1  s2 = s2
    c1 = c1  c2 = c2
    e1 = e1  e2 = e2  e3 = e3
    Sig = {s1, s2}
    Comp = {c1, c2}
    Eff = {e1, e2, e3}
    Prog <- MCProg
    Rank <- MCRank
    MayRead <- MCMayRead
    MayWrite <- MCMayWrite
    MayCreate <- MCMayCreate
    MayBatch = {e1}
    MaxFlush = 2
    MaxWrites = 2
    MaxBatch = 1
    MaxDepth = 4
SPECIFICATION Spec
INVARIANTS
    ComputedsCurrent
    Settled
    FiresOnce
PROPERTIES
    DisposedStaysQuiet
