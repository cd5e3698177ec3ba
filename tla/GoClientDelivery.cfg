SPECIFICATION Spec
CONSTANTS
    r1 = r1
    r2 = r2
    close = close
    other = other
    s1 = s1
    s2 = s2
    NoSender = NoSender
    Records <- TwoRecords
    Callers <- OneCaller
    Closers <- OneCaller
    Senders <- TwoSenders
    RetryAttempts = 0
    MaxFaults = 1
    MaxRuns = 2
INVARIANTS TypeOK NoLostWakeUp RunsAreIsolated
PROPERTY ImplementsDelivery
CHECK_DEADLOCK FALSE
SYMMETRY AnyRecordAndSender
