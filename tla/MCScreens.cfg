SPECIFICATION Spec
CONSTANTS
  WIDTH = 42
  Digit <- MCDigit
  Letters = {"w"}
  NAME_MAX = 1
  MaxName = 1
INVARIANTS RoundsShown BoxesCentred
PROPERTIES StartsAsChosen HandledAgain
