\* Approvals: three casts of callers, one append that fails, and expiry.
SPECIFICATION CastSpec
CONSTANTS
    a1 = a1 a2 = a2 u1 = u1 u2 = u2 s1 = s1 c1 = c1 c2 = c2
    None = None
    Askers = {a1, a2}
    Answerers = {u1, u2}
    Sessions = {s1}
    Sweepers = {s1}
    Closers = {c1, c2}
    Owner <- MCOwner
    Limit = 1
    MaxFaults = 1
INVARIANTS DecisionReported PendingCap
PROPERTIES DecidedOnce AwaitEnds
CHECK_DEADLOCK FALSE
