SPECIFICATION FairSpec
CONSTANTS
    Jobs = {j1}
    Visitors = {v1, v2}
    User = User
    Nobody = Nobody
    Limit = 1
    MaxTroubles = 2
INVARIANTS WakeBudget
PROPERTIES NotReplayed NoticeReachesTurn
CHECK_DEADLOCK FALSE
