CONSTANTS
  w1 = w1 w2 = w2 x = x y = y z = z
  Worker = {w1, w2}
  Task = {x, y, z}
  Delay <- Delays
  DefaultRetryDelay = 2
  Priority <- Priorities
  MaxRetries <- Retries
  None = None
SPECIFICATION FairSpec
PROPERTIES NoStarvation NotBeforeDue
