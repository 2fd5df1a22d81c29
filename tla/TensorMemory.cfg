CONSTANTS
  Tensors = {t1, t2, t3}
  Kernels = {k1, k2}
  Storages <- Sessions
  PoolBlocks = {p1, p2}
  HeapBlocks = {h1, h2}
  Values = {a, b}
  Junk = Junk
  None = None
SYMMETRY Symmetry
SPECIFICATION Spec
INVARIANTS
  TypeOK
  GroupsKeepTheirValues
  PackedWeightIsCurrent
