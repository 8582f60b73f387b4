SPECIFICATION FairSpec
CONSTANTS
  w1 = w1  w2 = w2  r1 = r1  r2 = r2  r3 = r3  r4 = r4  Null = Null
  Workers = {w1, w2}
  Refs = {r1, r2, r3, r4}
  MaxReorgs = 1
  MaxLost = 1
  MaxForeign = 1
INVARIANTS BroadcastsOnce CompletedIsSettled ConfirmsSavedReference
CHECK_DEADLOCK FALSE
PROPERTIES Completes
