SPECIFICATION Spec
CONSTANTS
  p1 = p1  p2 = p2  e1 = e1  e2 = e2  Null = Null
  Sources = {"cronos"}
  Providers = {p1, p2}
  Faulty = {}
  First = p1
  Events = {e1}
  StartHeight = 1
  Confirmations = 1
  MaxBatch = 2
  MaxReorg = 3
  MaxHeight = 4
  MaxForks = 1
  MaxCrashes = 0
PROPERTIES StopsOnDeepReorg
CHECK_DEADLOCK FALSE
