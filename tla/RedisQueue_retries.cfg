CONSTANTS
  w1 = w1 w2 = w2 w3 = w3 x = x y = y
  Worker = {w1}
  Task = {x}
  Producers = {w1}
  Consumers = {w1}
  MaxConsumers = 1
  MaxRetries <- Retried
  Concurrency = 1
  RangeReply = "text"
  Calls = {}
  MaxChains = 1
  MaxFaults = 0
  MaxStarts = 4
  None = None
SPECIFICATION Spec
INVARIANTS RetriesBounded
CHECK_DEADLOCK FALSE
