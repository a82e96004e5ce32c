CONSTANTS
  Base = 4
  WordSize = 2
  BufSize = 2
  MaxIds = 2
  MaxMsg = 12
  MaxCalls = 2
  Requests <- AllRequests
  Answers <- AllAnswers
  Setups <- AllSetups
SPECIFICATION Spec
INVARIANTS
  TypeOK
  ServedAsSent
  AcceptedAsAnswered
