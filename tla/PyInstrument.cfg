SPECIFICATION FairSpec
CONSTANTS
  t1 = t1
  t2 = t2
  env1 = env1
  env2 = env2
  Threads <- TwoThreads
  Files <- TwoFiles
  Argument = argument
  App = App
  None = None
  MaxCalls = 2
  MaxFailures = 1
  MaxForks = 1
INVARIANTS TypeOK OneOpenLogger CapturesDoNotStack HooksKept OneAddressFromFiles
PROPERTY CallsReturn
CHECK_DEADLOCK FALSE
