CONSTANTS
  w1 = w1 w2 = w2 w3 = w3 x = x y = y
  Worker = {w1, w2, w3}
  Task = {x, y}
  Producers = {w1}
  Consumers = {w2, w3}
  MaxConsumers = 1
  MaxRetries <- Retries
  Concurrency = 1
  RangeReply = "text"
  Calls = {"crash", "remove", "list", "status"}
  MaxChains = 1
  MaxFaults = 1
  MaxStarts = 1
  None = None
SPECIFICATION Spec
INVARIANTS TypeOK SlotsAccounted Durable SearchSees
PROPERTIES ImplementsLifecycle
CHECK_DEADLOCK FALSE
