CONSTANTS
  N = 4
  Values = {1, 2, 3, 4, 9}
  K = 5
  Align = 2
  SizeMax = 10
  Graphs <- AllGraphs
  MaxRuns = 2
SPECIFICATION Spec
INVARIANTS
  TypeOK
  NoLiveOverlap
  ArenaHolds
  InputsIntact
  ResultsIntact
