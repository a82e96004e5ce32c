SPECIFICATION Spec
CHECK_DEADLOCK FALSE
CONSTANTS
  Client = {p1, p2}
  ContextId = {c1, c2}
  SrvId = c1
  MaxIds = 1
  MaxConns = 2
  MaxSlots = 2
  Logging = FALSE
  MaxCount = 2
  MaxContexts = 2
  MaxSessions = 3
  MaxHandles = 4
  MaxRegions = 1
  Commands <- AllCommands
  Faults = {"open", "request", "answer", "die", "stop"}
SYMMETRY Symmetry
CONSTRAINT Bound
INVARIANTS
  DriverAgreesWithServer
  NothingShared
  AnswerFitsRequest
PROPERTIES
  OnlyTornClosesAssert
  ServerSpec
  DriverSpec
  ExchangeSpec
