SPECIFICATION FairSpec
CONSTANTS
    p1 = p1
    p2 = p2
    r1 = r1
    r2 = r2
    Processes <- TwoProcesses
    Records <- TwoRecords
    Statuses <- RefusedOrBusy
    RetryAttempts = 0
    MaxStarts = 2
    MaxFaults = 1
INVARIANTS TypeOK NothingLostBetween FiledUnderWriter TableOrder DisabledByOwnSession
CHECK_DEADLOCK FALSE
PROPERTY SentByAnyWorker
