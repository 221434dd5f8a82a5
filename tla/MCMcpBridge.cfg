\* McpBridge: a tool call, a changed tool list and a shutdown around recoveries.
SPECIFICATION FairSpec
CONSTANTS
    Callers = {t1}
    Closers = {c1}
    MaxAttempts = 2
    MaxClients = 3
    MaxFaults = 1
    None = None
INVARIANTS NoClientLeaks RetiresQuietClient OutageBudget
PROPERTIES Unwedged
CHECK_DEADLOCK FALSE
