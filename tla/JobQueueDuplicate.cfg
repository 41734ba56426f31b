SPECIFICATION Spec
CONSTANTS
  Job = {j1, j2}
  Client = {c1, c2}
  Worker = {w1}
  Key = {k1}
  NoKey = NoKey
  NoJob = NoJob
  NoRecord = NoRecord
  MaxRetries = 1
INVARIANT OneActiveJobPerKey
