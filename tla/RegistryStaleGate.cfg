SPECIFICATION Spec
CONSTANTS
  Trainer = {t1, t2}
  Admin = {}
  Gated = TRUE
  MinMatches = 1
  MinNew = 1
  MaxMatches = 2
  MaxVersions = 4
PROPERTY GateReplacesWhatItCompared
