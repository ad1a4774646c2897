SPECIFICATION Spec
CONSTANTS
  Colours = {0}
  Rounds = {1, 2, 257}
  INTERVAL = 1
  VS_INTERVAL = 1
  LowestScore = 0
  Sessions = 1
  MaxSequence = 2
  AtOnce = 4
  SlowLine = TRUE
  SlowHandshake = TRUE
INVARIANTS TurnExclusion SequencesMirror GamesAgree SameResult
PROPERTIES MemorySafe StartsAsAtFirst
