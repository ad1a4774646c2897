SPECIFICATION Spec
CONSTANTS
  Colours = {0}
  Rounds = {6}
  INTERVAL = 1
  VS_INTERVAL = 1
  LowestScore = 0
  Sessions = 1
  MaxSequence = 6
  AtOnce = 1
  SlowLine = FALSE
  SlowHandshake = TRUE
INVARIANT EachHasTheScore
