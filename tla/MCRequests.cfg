SPECIFICATION Spec
CONSTANTS
    a1 = a1
    a2 = a2
    a3 = a3
    dir = dir
    file = file
    r1 = r1
    r2 = r2
    l1 = l1
    l2 = l2
    None = None
    Agents = {a1, a2, a3}
    Resources = {dir, file}
    Overlap <- MCOverlap
    LeaseIds = {l1, l2}
    Requests = {r1, r2}
    Reach <- MCReach
    Lives <- MCLives
    Claims <- MCClaims
    Wants <- MCWants
    Capacity = 1
    MaxRequests = 2
    MaxDisturbances = 2
    Disturbances <- AllKinds
SYMMETRY Alike
INVARIANTS TypeOK EndsOnce AskedOnce Told
PROPERTY AcceptFreesWhatWasAsked
CHECK_DEADLOCK FALSE
