CONSTANTS
  w1 = w1 w2 = w2 w3 = w3 x = x y = y
  Worker = {w1, w2}
  Task = {x}
  Producers = {w1}
  Consumers = {w2}
  MaxConsumers = 1
  MaxRetries <- Retried
  Concurrency = 1
  RangeReply = "text"
  Calls = {"list"}
  MaxChains = 1
  MaxFaults = 0
  MaxStarts = 1
  None = None
SPECIFICATION Spec
INVARIANTS SearchComplete
CHECK_DEADLOCK FALSE
