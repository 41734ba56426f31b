SPECIFICATION MCSpec
CONSTANTS
  Matches = 5
  Tied = {4}
  Run = {r1, r2}
  InitialTrain = 2
  FoldSize = 2
  MinCalibrate = 2
  MinConformal = 2
  MaxCycles = 2
  ClubA = ClubA
  ClubB = ClubB
  ClubC = ClubC
  Game1 = Game1
  Game2 = Game2
  NoScore = NoScore
  Club <- Clubs
  Game <- TwoLegs
  Home <- Hosts
  Away <- Guests
  Scores <- FewScores
  Relegation = 1
INVARIANT IntervalsOfOneBacktest
CHECK_DEADLOCK FALSE
