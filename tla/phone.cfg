SPECIFICATION FairSpec
CONSTANTS
  QueueSize = 2
  PageLimit = 2
  MaxSockets = 3
  Plans <- MCPlans
INVARIANTS
  WalkComplete
  UpdatesInOrder
PROPERTIES
  PhoneSettles
CHECK_DEADLOCK FALSE
