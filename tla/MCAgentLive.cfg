\* Agent: Run, Send, maintenance and Close, one failing commit; everybody who
\* waits is released.
SPECIFICATION FairSpec
CONSTANTS
    r1 = r1 r2 = r2 s1 = s1 x1 = x1 m1 = m1 w1 = w1 c1 = c1 c2 = c2
    Driver = Driver
    None = None
    Runs = {r1}
    Senders = {s1}
    Cancellers = {}
    Maintainers = {m1}
    Idlers = {}
    Closers = {c1}
    Impatient = {}
    Keyed = {}
    MaxFaults = 1
INVARIANTS ScopeOutlivesWork
PROPERTIES CloseCompletes RunReturns
CHECK_DEADLOCK FALSE
