CONSTANTS
    p1 = p1
    p2 = p2
    c1 = c1
    q1 = q1
    q2 = q2
    NoOne = NoOne
    Sessions = {c1}
    Instances = {p1, p2}
    Slots = {1}
    Requests = {q1}
    MaxTurns = 2
    MaxCalls = 1
    MaxGeneration = 0
    MaxEdits = 0
    MaxRules = 0
    MaxFaults = 1
    MayOverrun = FALSE
    MaxRevision = 4
    MaxEvents = 3
    MaxLost = 1
SPECIFICATION LivenessSpec
CHECK_DEADLOCK FALSE
PROPERTIES ComesToRest ReadsOn CatchesUp
