SPECIFICATION MCSpec
CONSTANTS
  Seasons = 1
  Fixture = {f1}
  Name = {n1, n2, n3}
  FirstName = n1
  Run = {r1, r2}
  Expected = {0, 1}
  Forgetful = FALSE
  MaxDay = 1
  NoRow = NoRow
  Team = {t1}
  Competitions = 2
  Level <- Divisions
  Country <- Countries
  NoLevel = 0
  MaxYear = 3
INVARIANT LifecycleMatchesQuality
