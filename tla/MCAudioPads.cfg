SPECIFICATION Spec
CONSTANTS
  Boards <- MCBoards
  Resets <- MCResets
  Functions <- MCFunctions
  Configs <- MCConfigs
  Nothing = Nothing
INVARIANTS
  TypeOK
  SelectedLast
