SPECIFICATION MCSpec
CONSTANTS
  h1 = h1  h2 = h2  h3 = h3  h4 = h4
  TxHashes = {h1, h2, h3, h4}
  StartsAt = 1
  ExpiresAt = 2
  MaxTime = 3
  Roles <- MCRoles
  UnitsOf <- MCUnitsOf
  ActiveStates = {"active", "inactive", "activating"}
  EnabledStates = {"enabled", "disabled", "enabled-runtime"}
  OffStates = {"inactive", "disabled", "not-found"}
  Silence = FALSE
  Uids = {"u1", "u2"}
  Providers = {"rpc-1", "rpc-2"}
  Fields = {"paused", "signers"}
  Nodes = {"node-1", "node-2"}
  MaxMoves = 1
  watchers = watchers  metrics = metrics  submissions = submissions  x = x  y = y
  Workers <- MCWorkers
  Critical = {watchers, submissions}
  Callers = {x, y}
  StaleAfter = 2
  MaxClock = 4
INVARIANTS ConfirmedOff
CHECK_DEADLOCK FALSE
