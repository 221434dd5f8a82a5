\* TeamBoard: three calls of the tools, a visitor, a provisioning, two faults and
\* a crash.
SPECIFICATION FairSpec
CONSTANTS
    Lead = Lead
    Mates = {m1}
    Nobody = Nobody
    Visitors = {v1}
    MaxTasks = 2
    MaxPending = 1
    TaskIds <- MCTaskIds
    MsgIds <- MCMsgIds
    MaxCalls = 3
    MaxFaults = 2
    MaxCrashes = 1
INVARIANTS NoDeadBlockers ReceivedOnce BoardFollowsLog
PROPERTIES MailArrives
CHECK_DEADLOCK FALSE
