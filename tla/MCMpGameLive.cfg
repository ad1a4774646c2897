SPECIFICATION FairSpec
CONSTANTS
  Colours = {0}
  Rounds = {1, 2}
  INTERVAL = 1
  VS_INTERVAL = 1
  LowestScore = 0
  Sessions = 1
  MaxSequence = 2
  AtOnce = 1
  SlowLine = FALSE
  SlowHandshake = FALSE
PROPERTIES TurnArrives LossReported ConnectionMade
