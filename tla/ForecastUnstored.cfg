SPECIFICATION SpecAtomic
CONSTANTS
  Models = 2
  Boosted = {}
  Rejectable = {2}
  Revertible = {}
  Request = {r1}
  NoRequest = NoRequest
  MinMatches = 1
  MaxMatches = 2
  MaxSyncs = 2
INVARIANT EveryForecastStored
CHECK_DEADLOCK FALSE
