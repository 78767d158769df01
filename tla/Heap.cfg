CONSTANTS
    Addr = {a1, a2, a3}
    Var = {x, y}
    Null = Null
SPECIFICATION Spec
SYMMETRY Symmetry
INVARIANTS
    RefsExact
    WeakExact
    OnlyCyclesLeak
