SPECIFICATION ApiSpec
CHECK_DEADLOCK FALSE
CONSTANTS
  Client = {p1}
  ContextId = {c1, c2}
  MaxIds = 2
  MaxConns = 2
  MaxSlots = 2
  Handle = {1}
  Region = {0}
  Logging = FALSE
  MaxCount = 3
  CtxStruct = {x1, x2}
  SessStruct = {s1, s2}
INVARIANTS
  CountersMatchTables
  ChannelOutlivesConnections
  WaitsOnLiveObject
  StructuresMatchTables
  CallsReachOwn
  CountExplained
SYMMETRY Symmetry
