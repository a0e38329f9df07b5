SPECIFICATION Spec
CONSTANTS
    Sessions = {s1, s2}
    Jobs = {j1, j2}
    Keys = {k1}
    NoJob = NoJob
    NoKey = NoKey
    MaxMsgs = 2
    MaxOps = 2
    MaxCrashes = 1
    CacheSize = 1
    Limit = 1
    Chats = {c1, c2}
    Slots = {h1}
    Loop = Loop
    NoChat = NoChat
    MinMsgs = 1
    MinDigest = 1
    Interval = 2
    MaxHeard = 1
    MaxTurns = 3
    MaxRare = 1
INVARIANTS CountRight CacheSound  
PROPERTIES IdleIsMarked
CHECK_DEADLOCK FALSE
