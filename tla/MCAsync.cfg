CONSTANTS
  Timers = {t1}
  ClockTimers = {t1, t2}
  Delays = {1}
  Unit = 2
  MaxUnits = 1
  EndOfTime = 1
  Never = 99
  MaxListens = 1
  Signals = {s1}
  Children = {c1, c2}
  Receivers = {r1, r2}
  MaxArrivals = 3
  MaxCallers = 3
  MaxTasks = 3
  Ring = 3
  WriteSizes = {1, 2, 3}
  ReadSizes = {1, 3}
  MaxData = 6
  Shapes <- ShapesOfWrites
  Pumps <- PumpsOfInputs
  Reads <- ReadsOfPipe
  Amounts = {1, 3}
  MaxBytes = 4
  Branches = {1, 2, 3}
  First = {1, 2}
  Source = 4
  Limit = 3
  TeeReads <- ReadsOfBranches
  TeeAmounts = {1, 3}
  MaxOps = 1
SPECIFICATION Spec
INVARIANTS
  ResultIsAsDocumented OnEmptyIsExact PipesAreExact BranchesSeeTheInput
  ReadinessKeepsBytes ArrivalsAreMatched SocketsAreExact PortWakesInTime
  ExitsAreReported
PROPERTY PromiseSettles
CHECK_DEADLOCK FALSE
