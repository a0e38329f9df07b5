SPECIFICATION GraphSpec
CONSTANTS
    Sources = {s1, s2}
    Entities = {f, t, a}
    s1 = s1
    s2 = s2
    f = f
    t = t
    a = a
    Facts <- MCFacts
    Topics <- MCTopics
    People <- MCPeople
    Atoms <- MCAtoms
    GraphJobs = {j1}
    MaxGraphOps = 3
    MaxGraphCrashes = 0
    MaxSkipped = 0
    ShownNodes = 2

PROPERTIES OnlyOwnDeleted

CHECK_DEADLOCK FALSE
