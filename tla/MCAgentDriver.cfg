\* Agent: two Run callers, one impatient, and WhenIdle against Cancel and Close.
SPECIFICATION Spec
CONSTANTS
    r1 = r1 r2 = r2 s1 = s1 x1 = x1 m1 = m1 w1 = w1 c1 = c1 c2 = c2
    Driver = Driver
    None = None
    Runs = {r1, r2}
    Senders = {}
    Cancellers = {x1}
    Maintainers = {}
    Idlers = {w1}
    Closers = {c1}
    Impatient = {r1}
    Keyed = {}
    MaxFaults = 0
INVARIANTS RunResultHonest NoLostWakeup SettledOnce
CHECK_DEADLOCK FALSE
