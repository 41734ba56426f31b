SPECIFICATION SpecSerial
CONSTANTS
  Trainer = {t1}
  Admin = {a1}
  Gated = FALSE
  MinMatches = 1
  MinNew = 1
  MaxMatches = 2
  MaxVersions = 4
INVARIANT NeverDark
