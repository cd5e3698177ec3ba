SPECIFICATION FairSpec
CONSTANTS
    r1 = r1
    r2 = r2
    close = close
    other = other
    s1 = s1
    s2 = s2
    NoSender = NoSender
    Records <- OneRecord
    Callers <- TwoCallers
    Closers <- TwoCallers
    Senders <- OneSender
    RetryAttempts = 1
    MaxFaults = 0
    MaxRuns = 1
INVARIANT ShutdownReleases
PROPERTIES EventuallySent ShutdownCompletes
CHECK_DEADLOCK FALSE
