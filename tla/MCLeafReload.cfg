SPECIFICATION ReloadSpec
CONSTANTS
  KVMeta = 1
  NodeSize = 1
  CacheLine = 1
  DiskPage = 21
  MaxLeafPage = 100
  MaxKeyLen = 5
  MaxPageRecords = 100
  Keys <- MCKeys
  KeyLen = 1
  Values = {"s", "l"}
  ValLen <- MCValLen
  Configs <- PagesCached
PROPERTY MapFollowsWrites
