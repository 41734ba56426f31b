SPECIFICATION MCSpec
CONSTANTS
  Reader = {r1, r2}
  Writer = {w1}
  Scheduled = {s1}
  Ttl = 2
  Delay = 1
  MaxVersion = 2
  MaxTime = 5
INVARIANT BoundedStaleness
INVARIANT CalmReadsSeeFinishedWrites
SYMMETRY Symmetry
