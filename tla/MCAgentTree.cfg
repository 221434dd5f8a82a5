\* A session and its teammate, created, failing, closed and swept at once, in a
\* process that may end.
SPECIFICATION FairSpec
CONSTANTS
    lead = lead mate = mate
    Ids = {lead, mate}
    ParentOf <- MCParentOf
    Creators = {c1}
    Closers = {k1}
    Sweepers = {s1}
    Nobody = Nobody
    MaxAgents = 3
    MaxFaults = 1
INVARIANTS NotLeftBehind NobodyForgotten
PROPERTIES Disposed
CHECK_DEADLOCK FALSE
