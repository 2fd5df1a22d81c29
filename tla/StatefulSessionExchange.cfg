CONSTANTS
  Tensors <- AllTensors
  States <- AllStates
  Blocks <- AllBlocks
  Cases <- ExchangeCases
  MaxRuns = 2
SPECIFICATION Spec
CHECK_DEADLOCK FALSE
PROPERTIES
  RunKeepsStates
