\* Three concurrent requests, one statement of the database may fail.
CONSTANTS
  Requests = {q1, q2, q3}
  Sessions = {s1}
  Terminals = {t1}
  Artifacts = {a1}
  Accounts = {u1}
  Keys = {k1, k2}
  s1 = s1
  t1 = t1
  Home <- MCHome
  Versions <- MCVersions
  KeyVersions <- MCKeyVersions
  MaxDbErrors = 1
  None = None
CONSTRAINT OneGroup
SYMMETRY Symmetry
SPECIFICATION Spec
INVARIANT ReplicasConverge
PROPERTIES StoreSpec KeysKeepHistory
CHECK_DEADLOCK FALSE
