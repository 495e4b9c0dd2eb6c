SPECIFICATION Spec
CONSTANTS
  t1 = t1
  t2 = t2
  Threads <- MCThreads
  Size = 10
  Lengths <- HalfOrLess
  MaxLsn = 4
INVARIANTS
  ReturnedIsFlushed
