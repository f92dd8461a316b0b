CONSTANTS
  w1 = w1 w2 = w2 x = x
  Worker = {w1}
  Task = {x}
  Producers = {w1}
  MaxRetries <- Limits
  DefaultMaxRetries = 3
  Concurrency = 1
  MaxChecks = 2
  Calls <- PauseOnly
  None = None
SPECIFICATION FairSpec
PROPERTIES ResumeConsumes
CHECK_DEADLOCK FALSE
