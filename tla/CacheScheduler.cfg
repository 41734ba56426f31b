SPECIFICATION SpecSerial
CONSTANTS
  Reader = {r1}
  Writer = {}
  Scheduled = {s1}
  Ttl = 2
  Delay = 1
  MaxVersion = 2
  MaxTime = 4
INVARIANT ReadsSeeFinishedWrites
