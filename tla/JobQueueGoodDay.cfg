SPECIFICATION FairSpec
CONSTANTS
  Job = {j1, j2, j3}
  Client = {c1}
  Worker = {w1, w2}
  Key = {k1}
  NoKey = NoKey
  NoJob = NoJob
  NoRecord = NoRecord
  MaxRetries = 1
INVARIANTS NoJobStranded DeadLetterComplete OneActiveJobPerKey
PROPERTY EveryJobFinishes
