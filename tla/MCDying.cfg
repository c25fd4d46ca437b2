SPECIFICATION FairSpec
CONSTANTS
    p1 = p1
    p2 = p2
    p3 = p3
    None = None
    Recovery = {1}
    Procs = {p1, p2, p3}
    Budget <- DyingBudget
INVARIANTS
    OneWriter
    Coherent
    Reachable
    Ceded
PROPERTIES
    ReloadEnds
CHECK_DEADLOCK FALSE
