SPECIFICATION Spec
CONSTANTS
  t1 = t1
  t2 = t2
  Threads <- MCThreads
  Keys = {1, 2, 3, 4, 5, 6, 7, 8, 9, 10, 11}
  ReadKeys = {3, 9}
  RootCap = 3
  LeafCap = 3
  MiniCap = 2
  InnerCap = 3
  Pages = {1, 2}
  MaxVersion = 8
  Starts <- MCStarts
SYMMETRY ThreadSymmetry
INVARIANTS TypeOK UpgradedIsParent NoLostKey RightLeaf ScanComplete RootIsMarked
