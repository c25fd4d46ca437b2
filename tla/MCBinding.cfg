SPECIFICATION FairSpec
CONSTANTS
    p1 = p1
    p2 = p2
    p3 = p3
    m1 = m1
    None = None
    Records = {1, 2}
    Procs = {p1, p2, p3}
    Messages = {m1}
    MaxAttempts = 1
    Disturbances <- AllKinds
    MaxDisturbances = 1
INVARIANTS TypeOK  
PROPERTIES SparesBound Tended
CHECK_DEADLOCK FALSE
