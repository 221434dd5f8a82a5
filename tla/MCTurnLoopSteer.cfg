\* TurnLoop: a steer that is seen at the top of the step loop.
SPECIFICATION LoopSpec
CONSTANTS
    MaxParallel = 2
    MaxRetries = 1
    MaxTurns = 1
    MaxSteps = 2
    MaxCalls = 1
    Troubles = 1
    Disturbances = {"steer"}
    Faulty <- EarlyEvents
INVARIANT SessionLoads
CHECK_DEADLOCK FALSE
