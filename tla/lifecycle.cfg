SPECIFICATION FairSpec
CONSTANTS
  fast = fast
  smart = smart
  req1 = req1
  None = None
  Requests = {req1}
  Awaits = {a1, a2}
  RequestOf <- MCRequestOf
  Messages = {m1, m2}
  Calls = {c1, c2}
  Models = {fast, smart}
  Tokens = {tok}
  MaxCompleted = 200
  ConfigRequests <- SwitchBoth
  InitialConfig <- MCConfig
  InitialVersion = 1
  Budgets <- MCSessions
  StateUpdater = FALSE
INVARIANTS
  InOrderOnce
  AnsweredOnce
  RemoteSessionConfigured
  NoHungPermission
PROPERTIES
  StartSettles
  NoInventedVerdict
  DecisionReachesEngine
CHECK_DEADLOCK FALSE
