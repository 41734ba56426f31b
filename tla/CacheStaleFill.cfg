SPECIFICATION Spec
CONSTANTS
  Reader = {r1, r2}
  Writer = {w1}
  Scheduled = {}
  Ttl = 2
  Delay = 1
  MaxVersion = 2
  MaxTime = 4
INVARIANT ReadsSeeFinishedWrites
