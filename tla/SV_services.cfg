SPECIFICATION AllSpec
CONSTANTS
    Rebuilders = {r1, start}
    AtStart = start
    Batch = 2
    Percent = 50
    Current = 4
    FlagStep = 1
    FtsStep = 3
    MaxDocs = 4
    MaxOps = 2
    MaxFaults = 1
    MaxCrashes = 1
    Old = 3
    Topics = {1}
    Topic <- MCTopic
    Periodic = {1}
    Opposed <- MCOpposed
    Limit = 1
    MaxWritten = 2
    MaxConflicts = 1
    MaxTroubles = 1
    MinAge = 1
    Window = 1
    MaxKept = 2
    MaxDays = 2
    MaxRuns = 2
    MaxMishaps = 1
INVARIANTS  RecordsStand BusSound StoriesOnce
PROPERTIES StartEnds WorkDone
CHECK_DEADLOCK FALSE
