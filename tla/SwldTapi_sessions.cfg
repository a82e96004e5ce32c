CONSTANTS
  MaxContexts = 2
  MaxSessions = 3
  MaxHandles = 5
  MaxRegions = 3
  Commands <- AllCommands
SPECIFICATION Spec
CHECK_DEADLOCK FALSE
CONSTRAINT Bound
INVARIANTS
  TypeOK
  ListsSound
  WalkFindsMembers
  CountersMatchTables
  AssertionsHold
  TappFollowsSession
  MemoryListSound
PROPERTIES
  OnlyOwnerTouchesSession
  TeeSpec
