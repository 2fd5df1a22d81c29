CONSTANTS
  N = 4
  Values = {0, 1, 2, 3, 9}
  Slots = {1, 2, 3, 4, 5}
  Graphs <- AllGraphs
  MaxWorkers = 3
  MaxRuns = 2
  None = None
SPECIFICATION FairSpec
INVARIANTS
  TypeOK
  ReleasedIsDead
  QuietOnReturn
PROPERTIES
  ImplementsDataflow
  RunReturns
