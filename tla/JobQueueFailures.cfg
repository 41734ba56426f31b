SPECIFICATION SpecF
CONSTANTS
  Job = {j1, j2}
  Client = {c1, c2}
  Worker = {w1, w2}
  Key = {k1, k2}
  NoKey = NoKey
  NoJob = NoJob
  NoRecord = NoRecord
  MaxRetries = 2
SYMMETRY Symmetry
INVARIANTS OnePlacePerJob DeadLetterSound KeyLeadsToItsJob
PROPERTY ImplementsJobService
