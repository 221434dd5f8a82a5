\* Job registry: Kill, Close and two calls of CloseOwner over two jobs.
SPECIFICATION RegistryFairSpec
CONSTANTS
    j1 = j1 j2 = j2 j3 = j3 o1 = o1
    k1 = k1 c1 = c1 d1 = d1 d2 = d2
    None = None
    Unowned = Unowned
    JobIds = {j1, j2}
    Owners = {o1}
    OwnerOf <- MCOwnerOf
    Cap = 1
    Killers = {k1}
    Closers = {c1}
    OwnerClosers = {d1, d2}
INVARIANTS CloseDrains
PROPERTIES OwnerDrained KillTakesEffect CloseReturns
CHECK_DEADLOCK FALSE
