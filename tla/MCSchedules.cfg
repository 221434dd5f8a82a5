SPECIFICATION FairSpec
CONSTANTS
    Interval = 2
    MaxTime = 4
    MaxId = 2
    LastCreate = 1
    MaxTroubles = 2
INVARIANTS ReplayAccepts NotRepeated QueuedBeforeDispatch
PROPERTIES EveryAdvances CatchesUp
CHECK_DEADLOCK FALSE
