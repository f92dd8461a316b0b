CONSTANTS
  w1 = w1 w2 = w2 x = x
  Worker = {w1,w2}
  Task = {x}
  Producers = {w1}
  MaxRetries <- Limits
  DefaultMaxRetries = 3
  Concurrency = 1
  MaxChecks = 2
  Calls <- CallsOf
  None = None
SPECIFICATION FairSpec
INVARIANTS TypeOK NothingLost SettledOnce RetriesBounded SingleCopy
PROPERTIES EventuallyEnds ShutdownReleases
CHECK_DEADLOCK FALSE
