SPECIFICATION FairSpec
CONSTANTS
  WIDTH = 800
  HEIGHT = 600
  MOUSE_WIDTH = 42
  MOUSE_HEIGHT = 44
  Centre <- MCCentre
  BUTTON_WIDTH = 89
  TIMER_BUTTON_MP = 2
  Moves <- MCMoves
  AtOnce = 2
INVARIANTS PointerOnScreen PressCountsOnce LitForItsTime ClickIsUnderPointer RoundIsDecimal
PROPERTY LitGoesOut
