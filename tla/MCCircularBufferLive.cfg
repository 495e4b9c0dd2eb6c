SPECIFICATION FairSpec
CONSTANTS
  Capacity = 64
  MetaSize = 8
  Sizes = {8, 20}
  SizeClasses = {8, 24}
  CopyOnAccess = 24
  Evictors = {e1, e2}
  WeakCas = FALSE
  MaxTail = 32
INVARIANTS
  FreeListExact
PROPERTIES
  EvictReturns
