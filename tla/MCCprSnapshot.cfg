SPECIFICATION FairSpec
CONSTANTS
  t1 = t1
  t2 = t2
  root = root
  leaf = leaf
  sibling = sibling
  NSlots = 2
  Txns <- MCTxns
  Inner <- MCInner
  Leaves <- MCLeaves
  InitialPages <- MCInitialPages
  WriteSets <- SplitSplit
  MaxVersion = 1
INVARIANTS
  TypeOK
  SnapshotConsistent
  SlotExclusive
  PhaseBarrier
  SweepFrozen
  NoConflict
PROPERTIES
  SnapshotCompletes
