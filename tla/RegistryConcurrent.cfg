SPECIFICATION Spec
CONSTANTS
  Trainer = {t1, t2}
  Admin = {a1}
  Gated = TRUE
  MinMatches = 1
  MinNew = 1
  MaxMatches = 2
  MaxVersions = 3
INVARIANT LosersReturnAudited
INVARIANT EveryDecisionLogged
SYMMETRY Symmetry
\* with every row used up and live there is nothing left to do
CHECK_DEADLOCK FALSE
