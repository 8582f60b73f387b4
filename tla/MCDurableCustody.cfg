SPECIFICATION MCSpec
CONSTANTS
  w1 = w1  w2 = w2  w3 = w3  t1 = t1  t2 = t2  x1 = x1  x2 = x2  y1 = y1  Null = Null
  Workers = {w1, w2, w3}
  Transfers = {t1, t2}
  Txs = {x1, x2, y1}
  TransferOf <- MCTransferOf
  SlotOf <- MCSlotOf
  p1 = p1  p2 = p2  b1 = b1  b2 = b2  f1 = f1  f2 = f2  None = None
  Procs = {p1, p2}
  Bindings = {b1, b2}
  Files = {f1, f2}
  Intents = {1}
  Unset = Unset
  Quorums <- MCQuorums
  SignersOf <- MCSignersOf
  Fees <- MCFees
  Limits <- MCLimits
  Width = 4
  Deadline = 1
  MaxTime = 2
  MaxForks = 1
SYMMETRY Symmetry
INVARIANTS IntentHasCustody DoubtReachesCustodyFirst OneTransferPerSlot QuarantineNotForgotten
INVARIANTS OpenIsOwnJournal InitializedSurvives
INVARIANTS PlanExecutes InclusionWasCanonical
PROPERTIES ImplementsCustody NeverAdopted
CHECK_DEADLOCK FALSE
