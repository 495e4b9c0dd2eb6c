SPECIFICATION FairSpec
CONSTANTS
  Threads = {t1, t2, t3}
  MAX = 15
INVARIANTS
  TypeOK
  MutualExclusion
  NoStrandedReader
  NoStrandedWriter
PROPERTIES
  EveryCallReturns
