SPECIFICATION FairSpec
CONSTANTS
  r1 = r1
  r2 = r2
  s1 = s1
  s2 = s2
  Records <- TwoRecords
  Callers = {closer}
  Closer = closer
  Senders <- TwoSenders
  NoSender = none
  NoItem = noitem
  RetryAttempts = 1
  MaxFaults = 1
  MaxRuns = 2
INVARIANTS TypeOK NoLostWakeUp RunsAreIsolated
PROPERTIES ImplementsDelivery EventuallySent CloseEndsWorker
CHECK_DEADLOCK FALSE
