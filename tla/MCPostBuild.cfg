CONSTANTS
  MaxVersion = 2
  Products <- MCProducts
SPECIFICATION Spec
INVARIANTS
  TypeOK
  CompleteImage
  CompleteHcd
  DownloadsAgree
  DirectCurrent
  ProgramLoadsSources
