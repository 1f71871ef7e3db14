CONSTANT Trees <- RaceOverJoin
INIT PromiseInit
NEXT PromiseNext
INVARIANT ResultIsAsDocumented
CHECK_DEADLOCK FALSE
