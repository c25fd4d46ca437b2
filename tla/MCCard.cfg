SPECIFICATION Spec
CONSTANTS
    a1 = a1
    h = h
    q1 = q1
    q2 = q2
    m1 = m1
    m2 = m2
    d1 = d1
    d2 = d2
    None = None
    Agents = {a1, h}
    Questions = {q1}
    Messages = {q1, d1, m1, m2}
    Default <- CardDefault
    Shapes <- CardShapes
    Capacity = 2
    MaxQuestions = 2
    MaxCandidates = 1
    Disturbances <- CardKinds
    MaxDisturbances = 0
INVARIANT CardsPaired
CHECK_DEADLOCK FALSE
