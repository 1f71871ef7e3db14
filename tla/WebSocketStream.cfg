CONSTANTS
  MaxSends = 2
  MaxFrames = 3
INIT FramesInit
NEXT FramesNext
INVARIANT WritesDoNotOverlap
CHECK_DEADLOCK FALSE
