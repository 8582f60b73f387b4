SPECIFICATION HealthySpec
CONSTANTS
  t1 = t1  t2 = t2  Null = Null
  Transfers = {t1, t2}
  Doubtful = {}
  Signers = {1, 2, 3}
  Compromised = {}
  Threshold = 2
  MaxApprovals = 2
  Window = 1
  SignerWindow = 1
  MaxTime = 3
  MaxCrashes = 0
PROPERTIES PendingResumed
