SPECIFICATION Spec
CONSTANTS
    r1 = r1
    r2 = r2
    close = close
    other = other
    s1 = s1
    s2 = s2
    NoSender = NoSender
    Records <- TwoRecords
    Callers <- OneCaller
    Closers <- OneCaller
    Senders <- OneSender
    RetryAttempts = 0
    MaxFaults = 0
    MaxRuns = 1
INVARIANT FlushTruth
CHECK_DEADLOCK FALSE
