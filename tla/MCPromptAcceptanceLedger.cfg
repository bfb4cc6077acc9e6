SPECIFICATION Spec
CONSTANTS
  Nonce = {n1, n2, n3}
  Digest = {d1, d2}
  MAX_RECORDS = 2
  MAX_DEGRADED_WINDOWS = 1
  MaxClock = 1
  MaxRestarts = 2
  MaxSends = 3
SYMMETRY Symmetric
INVARIANT TypeOK
INVARIANT LossesAreDated
INVARIANT DiskAccountsForLosses
INVARIANT NonceAcceptedOnce
PROPERTY EvictionSparesPending
