SPECIFICATION SpecAtomic
CONSTANTS
  Models = 2
  Boosted = {2}
  Rejectable = {2}
  Revertible = {2}
  Request = {r1, r2}
  NoRequest = NoRequest
  MinMatches = 1
  MaxMatches = 2
  MaxSyncs = 2
INVARIANTS NoLeakage SnapshotIsOfTheBlend AnswerIsCurrent
SYMMETRY Symmetry
CHECK_DEADLOCK FALSE
