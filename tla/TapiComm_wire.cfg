SPECIFICATION FairSpec
CHECK_DEADLOCK FALSE
CONSTANTS
  Client = {p1, p2}
  MaxParams = 2
  Capacity = 2
  Faults = {"leave", "die", "client_fails", "server_short"}
INVARIANTS
  FramesKept
  ExchangesApart
  BuffersFreed
PROPERTIES
  ExchangeSpec
  CallReturns
