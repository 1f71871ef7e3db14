CONSTANTS
  Events = {e1, e2, e3}
  LoopHead = LoopHead
  WouldSleepHead = WouldSleepHead
  Null = Null
  Kinds <- AllKinds
  MaxTurnCount = 2
  BusyPollInterval = 1
  Threads = {t1, t2, t3}
  MaxCalls = 3
SPECIFICATION MCSpec
INVARIANTS PointersAreSound ListsAreExact WorkIsReported
PROPERTIES ImplementsSchedule BreadthFirstIsFair NeverHangs 
