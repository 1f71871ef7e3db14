CONSTANTS
  Shapes = {}
  Pumps <- MCPumps
  Reads = {}
  Amounts = {1, 3}
  MaxBytes = 3
INIT PipeInit
NEXT PipeNext
INVARIANT PumpsCountTheirBytes
CHECK_DEADLOCK FALSE
