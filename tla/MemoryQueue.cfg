CONSTANTS
  t1 = t1 t2 = t2 t3 = t3 t4 = t4 a = a b = b
  Task = {t1, t2, t3, t4}
  Id = {a, b}
  IdOf <- Ids
  Priority <- Priorities
  MaxRetries <- Retries
  Concurrency = 2
  Calls = {"pause", "remove", "clear", "shutdown"}
  NoId = NoId
  None = None
SPECIFICATION FairSpec
INVARIANTS TypeOK SlotsAccounted SingleCopy NothingLost NoLostWakeup NoGhostProcessing
PROPERTIES StartsBest StartsOnlyWhenOpen ImplementsLifecycle EventuallyEnds
CHECK_DEADLOCK FALSE
