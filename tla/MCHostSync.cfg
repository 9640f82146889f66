SPECIFICATION SyncSpec
CONSTANTS
  k1 = k1
  k2 = k2
  a1 = a1
  b1 = b1
  c2 = c2
  VsIds <- MCVsIds
  Data <- MCData
  DataLen <- MCDataLen
  Lengths = {}
  Others = {}
  Size <- MCSize
  Num <- MCNum
  NoData = NoData
  MaxOps = 3
  MaxBoots = 2
CHECK_DEADLOCK FALSE
INVARIANTS
  SyncTypeOK
  InSync
  Restored
