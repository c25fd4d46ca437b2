SPECIFICATION Spec
CONSTANTS
    a1 = a1
    a2 = a2
    a3 = a3
    dir = dir
    file = file
    other = other
    third = third
    c1 = c1
    c2 = c2
    c3 = c3
    l1 = l1
    l2 = l2
    l3 = l3
    None = None
    Agents = {a1, a2}
    Resources = {dir, file}
    Overlap <- MCOverlap
    LeaseIds = {l1, l2}
    Claims = {c1}
    Priorities = {0, 1}
    Asks <- HandoffAsks
    Handoffs = {h1}
    Budget <- HandoffBudget
INVARIANTS
    MutualExclusion
CHECK_DEADLOCK FALSE
