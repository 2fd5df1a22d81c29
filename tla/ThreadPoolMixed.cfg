\* A task is enqueued and a batch runs before a worker takes it.
CONSTANTS
  Workers = {w1, w2}
  Clients = {c1, c2}
  MaxSize = 1
  MaxBatches = 1
  MaxTasks = 1
  MaxWaits = 0
  Disciplined = FALSE
  None = None
SPECIFICATION FairSpec
CHECK_DEADLOCK FALSE
PROPERTY QueuedTaskRuns
