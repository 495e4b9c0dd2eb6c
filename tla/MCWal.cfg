SPECIFICATION FairSpec
CONSTANTS
  t1 = t1
  t2 = t2
  Threads <- MCThreads
  Size = 10
  Lengths <- HalfOrLess
  MaxLsn = 6
INVARIANTS
  TypeOK
  LaterReturnedIsFlushed
PROPERTIES
  ImplementsDurableLog
  Acknowledged
  RoomIsMade
