CONSTANTS
  w1 = w1 w2 = w2 w3 = w3 x = x y = y
  Worker = {w1, w2}
  Task = {x, y}
  Producers = {w1}
  Consumers = {w1, w2}
  MaxConsumers = 2
  MaxRetries <- Retries
  Concurrency = 1
  RangeReply = "text"
  Calls = {"shutdown"}
  MaxChains = 2
  MaxFaults = 0
  MaxStarts = 2
  None = None
SPECIFICATION Spec
INVARIANTS SlotsAccounted NothingLost HandledOnce
CHECK_DEADLOCK FALSE
