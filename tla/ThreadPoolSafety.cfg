\* Batches, tasks and waits overlap freely, so a task may be left stranded
\* and the behaviour may stop with its client in future.get().
CONSTANTS
  Workers = {w1, w2}
  Clients = {c1, c2}
  MaxSize = 2
  MaxBatches = 1
  MaxTasks = 2
  MaxWaits = 1
  Disciplined = FALSE
  None = None
SPECIFICATION Spec
SYMMETRY ThreadSymmetry
CHECK_DEADLOCK FALSE
INVARIANTS
  TypeOK
  BatchCompleteBeforeReturn
  NoRunAfterRetire
  WaitCoversEarlierTasks
  JoinDrainsQueue
