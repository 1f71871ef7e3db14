CONSTANTS
  A = A
  B = B
  Loops = {A, B}
  Events = {1}
  Exits = {B}
  Routes <- OneWay
SPECIFICATION ExecutorSpec
INVARIANT NoUseAfterFree
CHECK_DEADLOCK FALSE
