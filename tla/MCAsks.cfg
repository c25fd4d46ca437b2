SPECIFICATION FairSpec
CONSTANTS
    a1 = a1
    h = h
    q1 = q1
    q2 = q2
    m1 = m1
    m2 = m2
    d1 = d1
    d2 = d2
    None = None
    Agents = {a1, h}
    Questions = {q1, q2}
    Messages = {q1, q2, d1, d2, m1, m2}
    Default <- MCDefault
    Shapes <- AskShapes
    Capacity = 2
    MaxQuestions = 2
    MaxCandidates = 1
    Disturbances <- AskKinds
    MaxDisturbances = 1
INVARIANTS TypeOK HeldForAWaiter ClosedOnce  AnswerKept OutOnce
PROPERTY ClosedAskEnds
CHECK_DEADLOCK FALSE
