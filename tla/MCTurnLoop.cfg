\* TurnLoop: two turns, three tool calls, any disturbance at any point.
SPECIFICATION LoopFairSpec
CONSTANTS
    MaxParallel = 2
    MaxRetries = 1
    MaxTurns = 2
    MaxSteps = 2
    MaxCalls = 3
    Troubles = 1
    Disturbances = {"cancel", "steer", "fault", "crash", "load"}
    Faulty <- EarlyEvents
INVARIANTS Recoverable CallsAnswered
PROPERTIES TurnReturns ImplementsTurnHistory
CHECK_DEADLOCK FALSE
