SPECIFICATION Spec
CHECK_DEADLOCK FALSE
CONSTANTS
  Client = {p1}
  ContextId = {c1, c2}
  MaxIds = 2
  MaxConns = 1
  MaxSlots = 2
  Handle = {1, 2}
  Region = {0}
  Logging = FALSE
  MaxCount = 3
INVARIANT
  SessionTableThere
