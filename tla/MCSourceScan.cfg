SPECIFICATION FairSpec
CONSTANTS
  p1 = p1  p2 = p2  e1 = e1  e2 = e2  Null = Null
  Sources = {"cronos", "xitcoin"}
  Providers = {p1, p2}
  Faulty = {p1}
  First = p1
  Events = {e1, e2}
  StartHeight = 1
  Confirmations = 1
  MaxBatch = 2
  MaxReorg = 1
  MaxHeight = 4
  MaxForks = 1
  MaxCrashes = 1
INVARIANTS FinalizedIsCanonical NoDepositSkipped CheckpointCanonical
CHECK_DEADLOCK FALSE
PROPERTIES BuriedDepositsFinalized
