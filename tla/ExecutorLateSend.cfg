CONSTANTS
  A = A
  B = B
  Loops = {A, B}
  Events = {1}
  Exits = {B}
  Routes <- OneWay
SPECIFICATION ExecutorFairSpec
PROPERTY SentIsAnswered
CHECK_DEADLOCK FALSE
