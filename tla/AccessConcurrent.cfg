SPECIFICATION MCSpec
CONSTANTS
  Email = {a, b}
  KeyId = {k}
  Host = {h}
  Caller = {c1, c2}
  MaxAttempts = 1
  Window = 2
  MaxListed = 2
  MaxUse = 1
  MaxTime = 2
  NoRow = NoRow
  Keep = Keep
INVARIANTS TypeOK AuditTellsTheRow UsageCounted AdmittedWithinLimit
PROPERTY RevocationSticks
SYMMETRY Symmetry
