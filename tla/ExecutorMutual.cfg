CONSTANTS
  A = A
  B = B
  Loops = {A, B}
  Events = {1, 2}
  Exits = {}
  Routes <- BothWays
SPECIFICATION ExecutorSpec
INVARIANT DoneIsReleased
CHECK_DEADLOCK FALSE
