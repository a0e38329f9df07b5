SPECIFICATION AllSpec
CONSTANTS
    Last = 3
    First = 1
    Jobs = {j1, j2}
    MaxOps = 2
    MaxCrashes = 1
    Filtering = TRUE
    Searches = {q1}
    Memories = {m1, m2, m3}
    Mine = {m1, m2}
    Public = {m3}
    TopK = 2
    Threshold = 2
    Rest = 1
    MaxChanges = 2
    Hooks = {h1, h2}
    Methods = {"part", "call", "text"}
    WarmFor = 1
    MaxRequests = 3
    MaxFaults = 1
    MaxIndex = 2
    Messages = {e1, e2}
    Shown = {"sweet_words", "boundary_violation"}
    EmoFaults = 1
    EmoRestarts = 1
SYMMETRY Symmetric
INVARIANTS
    CacheFresh
    VersionsSound
    
    OnlyRecallable
    
    EmotionsSound
CHECK_DEADLOCK FALSE
