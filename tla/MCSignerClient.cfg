SPECIFICATION MCSpec
CONSTANTS
  Limits = {3, 6}
  ReadCap = 4
  r1 = r1  r2 = r2
  Requests = {r1, r2}
  Limit = 1
  MaxRestarts = 1
INVARIANTS CancelledOnce SizeIsDeserved SecretsOverwritten SignedWasAdmitted
PROPERTIES ClientSettles TakenIsAnswered
CHECK_DEADLOCK FALSE
