SPECIFICATION MCSpec
CONSTANTS
  t1 = t1
  t2 = t2
  Threads <- MCThreads
  Size <- MCSize
  Num <- MCNum
  Requests <- MCRequests
  NoBlock = NoBlock
  NoThread = NoThread
  Tables <- MCTables
  Ctrl = 4
  Beyond = 8
  HeapSize = 2048
INVARIANTS
  TypeOK
  FreeListSound
  NoSharedBlock
  UnexpectedUnreached
  FailedInitGrantsNothing
  FreeFindsTheBit
  FreeKnowsEveryBlock
  LayoutSound
PROPERTIES
  ImplementsPool
  CallsLeave
