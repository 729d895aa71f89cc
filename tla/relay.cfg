SPECIFICATION FairSpec
CONSTANTS
  None = None
  MaxConns = 2
  Calls = {c1}
  Gateway = TRUE
  MaxLosses = 1
  MaxRefused = 1
  MaxTurns = 1
INVARIANTS
  TypeOK
  RPCRoutable
PROPERTIES
  PresenceSettles
  CallEnds
CHECK_DEADLOCK FALSE
