CONSTANTS
  MaxContexts = 2
  MaxSessions = 2
  MaxHandles = 5
  MaxRegions = 0
  Commands <- SessionCommands
SPECIFICATION Spec
CHECK_DEADLOCK FALSE
INVARIANT SessionSlotFound
