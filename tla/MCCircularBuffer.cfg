SPECIFICATION Spec
CONSTANTS
  Capacity = 64
  MetaSize = 8
  Sizes = {8, 20}
  SizeClasses = {8, 24}
  CopyOnAccess = 48
  Evictors = {e1, e2}
  WeakCas = TRUE
  MaxTail = 96
SYMMETRY EvictorSymmetry
INVARIANTS
  TypeOK
  Tiling
  NoSharedMemory
  StateChangesSucceed
  ExclusiveHandle
  ReuseFits
  HeadCatchesUp
