SPECIFICATION Spec
CONSTANTS
    r1 = r1
    r2 = r2
    r3 = r3
    s1 = s1
    s2 = s2
    close = close
    flush = flush
    Closer = close
    NoSender = NoSender
    Records <- TwoRecords
    Senders <- OneSender
    Flushers <- OnlyClose
    RetryAttempts = 0
    MaxFaults = 0
    MaxRuns = 1
INVARIANT OutageKeepsQueue
CHECK_DEADLOCK FALSE
