SPECIFICATION SubSpec
CONSTANTS
  Names <- MCNames
  Align <- MCAlign
  Sizes <- MCSizes
  FirstFree = 24
  RamEnd = 294
  Patches = 8
  MaxLinks = 3
  PreInit = 300
  Chunk = 48
  Line = 16
  Segment = 64
  DsStart = 230
  SecLen = 8
  FwLen = 12
  FwDsLen = 6
  AppLens = {8, 9}
  FwRecords <- MCFwRecords
CHECK_DEADLOCK FALSE
INVARIANTS
  RelinkNeverFails
  MovedBetween
  ImageWhole
  DirectLoadIsApplication
  SignedWhereLoaded
  SectionsKept
