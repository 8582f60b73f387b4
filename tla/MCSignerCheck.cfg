SPECIFICATION MCSpec
CONSTANTS
  p1 = p1  p2 = p2  e1 = e1  e2 = e2  Null = Null
  Sources = {"cronos", "xitcoin"}
  Providers = {p1, p2}
  Faulty = {p1}
  First = p1
  Events = {e1, e2}
  Confirmations = 2
  MaxReorg = 2
  MaxHeight = 4
  MaxForks = 1
  Missing = Missing
  Chains <- MCChains
INVARIANTS SignedIsCanonical BatchIsTheChain RefoundAsRead
