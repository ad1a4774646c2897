SPECIFICATION Spec
CONSTANTS
  Plain = {"a"}
  Arrows = {"up"}
  POLLS = 2
  TRIES = 2
  MaxSent = 3
  MaxErrors = 1
INVARIANTS NoByteForgotten PacketsResync KeysResync
