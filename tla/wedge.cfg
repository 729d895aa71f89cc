SPECIFICATION Spec
CONSTANTS
  fast = fast
  smart = smart
  req1 = req1
  None = None
  Requests = {req1}
  Awaits = {a1}
  RequestOf <- MCRequestOf
  Messages = {m1}
  Calls = {c1, c2}
  Models = {fast, smart}
  Tokens = {tok}
  MaxCompleted = 200
  ConfigRequests <- SwitchModel
  InitialConfig <- MCConfig
  InitialVersion = 1
  Budgets <- MCWedge
  StateUpdater = FALSE
INVARIANTS
  LoopNeverWaitsForApproval
CHECK_DEADLOCK FALSE
