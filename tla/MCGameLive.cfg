SPECIFICATION FairSpec
CONSTANTS
  Colours = {red}
  VS_B = VS_B
  NO_BUTTON = NO_BUTTON
  Rounds = {1, 2}
  INTERVAL = 1
  VS_INTERVAL = 2
  LowestScores = {0}
  MaxSequence = 3
PROPERTIES ClockRunsOut WinnerScreenLeft
