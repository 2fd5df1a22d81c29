CONSTANTS
  Tensors <- AllTensors
  States <- AllStates
  Blocks <- AllBlocks
  Cases <- AllCases
  MaxRuns = 3
SPECIFICATION Spec
CHECK_DEADLOCK FALSE
INVARIANT TypeOK
PROPERTIES
  ImplementsStateUpdate
  NeverLocksItselfOut
  RebindingStopsWrites
  ConstantsIntact
  RunKeepsStates
