SPECIFICATION Spec
CHECK_DEADLOCK FALSE
CONSTANTS
  Client = {p1, p2}
  ContextId = {c1}
  SrvId = c1
  MaxIds = 1
  MaxConns = 1
  MaxSlots = 1
  Logging = FALSE
  MaxCount = 2
  MaxContexts = 2
  MaxSessions = 2
  MaxHandles = 4
  MaxRegions = 0
  Commands <- SessionCommands
  Faults = {"answer"}
INVARIANT
  HandlesSentAreActive
