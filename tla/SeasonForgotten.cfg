SPECIFICATION MCSpecSerial
CONSTANTS
  Seasons = 2
  Fixture = {f1, f2}
  Name = {n1, n2}
  FirstName = n1
  Run = {r1}
  Expected = {0, 2}
  Forgetful = TRUE
  MaxDay = 3
  NoRow = NoRow
  Team = {t1, t2}
  Competitions = 3
  Level <- Divisions
  Country <- Countries
  NoLevel = 0
  MaxYear = 2
SYMMETRY Symmetry
INVARIANT OneSeasonIsCurrent
