CONSTANTS
  Blocks = {b1, b2}
  Leases = {"one"}
  BlockCells = 2
  Layouts <- SmallLayouts
  States = {"a"}
  MaxExports <- Exports
  MaxCalls <- Calls
  WorkspaceLimit = 1
  None = None
SPECIFICATION Spec
SYMMETRY BlockSymmetry
INVARIANTS
  TypeOK
  BlocksHaveOneUse
  EveryReadIsCurrent
