SPECIFICATION Spec
CONSTANTS
  Comp = {c1}
  Run = {r1, r2}
  NoComp = NoComp
  MaxVersion = 2
  Undrawn = {}
INVARIANT HonestReport
