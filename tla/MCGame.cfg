SPECIFICATION Spec
CONSTANTS
  Colours = {red, blue}
  VS_B = VS_B
  NO_BUTTON = NO_BUTTON
  Rounds = {1, 3}
  INTERVAL = 2
  VS_INTERVAL = 2
  LowestScores = {1}
  MaxSequence = 4
SYMMETRY ColourSymmetry
INVARIANTS TypeOK ClockMatchesDuty WinnerEarnedScore TieIsComplete SecondFreeIsLast
PROPERTIES ResultFinal NoUseAfterFree OnlyVSOverflows
