SPECIFICATION AllSpec
CONSTANTS
    Sources = {s1, s2}
    Entities = {f, t, a}
    s1 = s1
    s2 = s2
    f = f
    t = t
    a = a
    Facts <- MCFacts
    Topics <- MCTopics
    People <- MCPeople
    Atoms <- MCAtoms
    GraphJobs = {j1, j2}
    MaxGraphOps = 3
    MaxGraphCrashes = 1
    MaxSkipped = 1
    ShownNodes = 2
    CanStop = TRUE
    CanFail = TRUE
    CanOversleep = TRUE
    CanWakeEarly = TRUE
    MaxDay = 3
SYMMETRY Symmetric
INVARIANTS
    RepeatsExplained
    NoDayLost
    GraphWhole
    StrayExplained
    ReadsWhole
PROPERTIES FoundAsPromised
CHECK_DEADLOCK FALSE
