SPECIFICATION Spec
CONSTANTS
    Replies = {r1, r2}
    Texts <- MCTexts
    Score <- MCScore
    Express <- MCExpress
    Liable <- MCLiable
    Likeness <- MCLikeness
    GateThreshold = 55
    MergeJ = 70
    PenaltyJ = 40
    ExemptJ = 60
    OverlapJ = 95
    Penalty = 85
    Bonus = 30
    Recent = 1
    MaxRound = 1
    Idle = 1
    Grace = 1
    Defer = 1
    Quiet = 1
    RetryDelay = 1
    FuseCooldown = 1
    FuseFailures = 2
    MaxRows = 2
    MaxPage = 1
    MaxMishaps = 1
    MaxCrashes = 1
INVARIANTS RowsSound
PROPERTIES RoundComes
CHECK_DEADLOCK FALSE
