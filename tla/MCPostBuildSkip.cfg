CONSTANTS
  MaxVersion = 2
  Products <- MCDefault
SPECIFICATION Spec
INVARIANTS
  SkipOnlyWhenComplete
