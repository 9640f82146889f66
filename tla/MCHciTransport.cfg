SPECIFICATION HciSpec
CONSTANTS
  k1 = k1
  k2 = k2
  k3 = k3
  a21 = a21
  b21 = b21
  c23 = c23
  h1 = h1
  h2 = h2
  m1 = m1
  m2 = m2
  Huge = Huge
  VsIds <- MCVsIds
  Data <- MCData
  DataLen <- MCDataLen
  Lengths <- MCLengths
  Others <- MCOthers
  Size <- MCSize
  Num <- MCNum
  NoData = NoData
  Handlers <- MCHandlers
  Codes <- MCCodes
  NoHandler = NoHandler
  MaxRx = 2
SYMMETRY MCSymmetry
INVARIANTS
  TypeOK
  UniqueIds
  EntriesFit
  OpenedOnce
  RuntStoresNothing
  OnlyEarlyAreLost
PROPERTIES
  EveryChangeIsTold
  ImplementsStore
  
