SPECIFICATION SpecSerial
CONSTANTS
  Trainer = {t1}
  Admin = {a1}
  Gated = TRUE
  MinMatches = 1
  MinNew = 1
  MaxMatches = 2
  MaxVersions = 3
INVARIANT LiveIsFitted
