SPECIFICATION SupervisedSpec
CONSTANTS
    p1 = p1
    p2 = p2
    p3 = p3
    None = None
    Recovery = {1}
    Procs = {p1, p2, p3}
    Budget <- OrphanBudget
PROPERTIES
    OffersSettle
CHECK_DEADLOCK FALSE
