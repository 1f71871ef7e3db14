CONSTANTS
  Lengths = {0, 2}
  WriteSizes = {1}
  Pumps <- MCPumps
  MaxMessages = 1
  MaxBody = 2
  MaxRead = 2
INIT HttpInit
NEXT HttpNext
INVARIANT FramingIsAgreed
CHECK_DEADLOCK FALSE
