\* The pool as the repository uses it: a batch never overlaps a queued task.
CONSTANTS
  Workers = {w1, w2}
  Clients = {c1, c2}
  MaxSize = 2
  MaxBatches = 1
  MaxTasks = 1
  MaxWaits = 1
  Disciplined = TRUE
  None = None
SPECIFICATION FairSpec
PROPERTIES
  CallsReturn
  QueuedTaskRuns
  DestructorReturns
