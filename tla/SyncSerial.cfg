SPECIFICATION SpecSerial
CONSTANTS
  Comp = {c1, c2}
  Run = {r1}
  NoComp = NoComp
  MaxVersion = 1
  Undrawn <- CupUndrawn
INVARIANTS NoSilentGap HonestReport DerivedAgrees
