CONSTANTS
  Threads = {t1, t2, t3}
  Values = {0, 1}
  Predicates <- MCPredicates
SPECIFICATION Spec
SYMMETRY Symmetry
INVARIANTS MutualExclusion WordIsAccurate SleepersAreAnnounced WaitersAreNotReady WaiterListIsExact
PROPERTY ImplementsGuardedValue
CHECK_DEADLOCK FALSE
