---------------------------- MODULE MCTensorMemory ----------------------------
EXTENDS TensorMemory, TLC

Sessions == 1..Cardinality(Tensors) + 1
Symmetry == Permutations(Tensors) \cup Permutations(Kernels) \cup Permutations(PoolBlocks)
              \cup Permutations(HeapBlocks) \cup Permutations(Values)
===============================================================================
