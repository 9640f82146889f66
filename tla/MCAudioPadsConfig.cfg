SPECIFICATION Spec
CONSTANTS
  Boards <- MCBoards
  Resets = {{}}
  Functions <- MCFunctions
  Configs = {}
  Nothing = Nothing
INVARIANTS
  ConfiguredByInit
