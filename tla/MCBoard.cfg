SPECIFICATION Spec
CONSTANTS
    Agents = {a1, a2}
    Resources = {c1, c2}
    LeaseIds = {l1, l2}
    Overlap <- Identity
    None = None
    Person = Person
    Boards <- TwoBoards
    Filing = {"backlog", "ready"}
    Rules <- FourRules
    Budget <- BoardBudget
SYMMETRY Symmetry
INVARIANTS TypeOK HoldIsAssignees  
PROPERTIES NoSteal EndedStays
CHECK_DEADLOCK FALSE
