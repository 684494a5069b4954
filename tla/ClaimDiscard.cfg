CONSTANTS
    p1 = p1
    p2 = p2
    c1 = c1
    q1 = q1
    q2 = q2
    NoOne = NoOne
    Sessions = {c1}
    Instances = {p1}
    Slots = {1}
    Requests = {q1, q2}
    MaxTurns = 1
    MaxCalls = 1
    MaxGeneration = 0
    MaxEdits = 0
    MaxRules = 0
    MaxFaults = 0
    MayOverrun = FALSE
SPECIFICATION Spec
CHECK_DEADLOCK FALSE
PROPERTY DiscardTakesCharacter
