SPECIFICATION Spec
CONSTANTS
    r1 = r1
    r2 = r2
    r3 = r3
    s1 = s1
    s2 = s2
    close = close
    flush = flush
    Closer = close
    NoSender = NoSender
    Records <- TwoRecords
    Senders <- TwoSenders
    Flushers <- OnlyClose
    RetryAttempts = 1
    MaxFaults = 2
    MaxRuns = 2
INVARIANTS TypeOK NoSilentLoss RunsAreIsolated DrainedWhenEmpty FlushTruthUnlessLate OutageBeforeReconnect
PROPERTY ImplementsDelivery
CHECK_DEADLOCK FALSE
SYMMETRY AnyRecordAndSender
