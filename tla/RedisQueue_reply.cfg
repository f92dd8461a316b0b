CONSTANTS
  w1 = w1 w2 = w2 w3 = w3 x = x y = y
  Worker = {w1}
  Task = {x, y}
  Producers = {w1}
  Consumers = {w1}
  MaxConsumers = 1
  MaxRetries <- Retries
  Concurrency = 1
  RangeReply = "list"
  Calls = {}
  MaxChains = 1
  MaxFaults = 0
  MaxStarts = 1
  None = None
SPECIFICATION DueSpec
PROPERTIES AddedIsStarted
CHECK_DEADLOCK FALSE
