SPECIFICATION MCSpec
CONSTANTS
  h1 = h1  h2 = h2  h3 = h3  h4 = h4
  TxHashes = {h1, h2, h3, h4}
  StartsAt = 1
  ExpiresAt = 2
  MaxTime = 3
  Roles <- MCRoles
  UnitsOf <- MCUnitsOf
  ActiveStates = {"active", "inactive"}
  EnabledStates = {"enabled", "disabled", "not-found"}
  OffStates = {"inactive", "disabled", "not-found"}
  Silence = TRUE
  Uids = {"u1", "u2"}
  Providers = {"rpc-1", "rpc-2"}
  Fields = {"paused"}
  Nodes = {"node-1", "node-2"}
  MaxMoves = 2
  watchers = watchers  metrics = metrics  submissions = submissions  x = x  y = y
  Workers <- MCWorkers
  Critical = {watchers, submissions}
  Callers = {x, y}
  StaleAfter = 2
  MaxClock = 4
INVARIANTS PassedIsFullEvidence PassIsSound FailIsDeserved
PROPERTIES EvidenceWhileLive HaltedOnceBroken
CHECK_DEADLOCK FALSE
