SPECIFICATION Spec
CONSTANTS
  k1 = k1
  k2 = k2
  k3 = k3
  a21 = a21
  b21 = b21
  c23 = c23
  VsIds <- MCVsIds
  Data <- MCData
  DataLen <- MCDataLen
  Lengths <- MCLengths
  Others <- MCOthers
  Size <- MCSize
  Num <- MCNum
  NoData = NoData
PROPERTIES
  DeleteReportsSuccess
