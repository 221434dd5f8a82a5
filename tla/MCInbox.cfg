\* Durable inbox: crashes and failing commits, no torn operation.
SPECIFICATION FairSpec
CONSTANTS
    NoKey = NoKey
    k1 = k1
    Submissions <- MCSubmissions
    MaxId = 3
    MaxCrashes = 1
    MaxFaults = 1
    MaxTorn = 0
INVARIANTS ReplayReconstructs
PROPERTIES ImplementsPendingWork PendingIsTaken
CHECK_DEADLOCK FALSE
