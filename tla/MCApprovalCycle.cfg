SPECIFICATION FairSpec
CONSTANTS
  t1 = t1  t2 = t2  Null = Null
  Transfers = {t1}
  Doubtful = {t1}
  Signers = {1, 2, 3}
  Compromised = {3}
  Threshold = 2
  MaxApprovals = 2
  Window = 1
  SignerWindow = 1
  MaxTime = 2
  MaxCrashes = 1
INVARIANTS OneDigestPerTransfer OnlyGenuineApproved ApprovedHasQuorum
PROPERTIES CycleEnds
