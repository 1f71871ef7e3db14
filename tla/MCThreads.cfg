CONSTANTS
  A = A
  B = B
  Loops = {A, B}
  Events = {1, 2, 3}
  Exits = {A, B}
  Routes <- ServeAndMutual
  Threads = {g1, g2, g3}
  Fulfillers = {f1, f2, f3}
  Asks = {f1, f2, f3}
SPECIFICATION Spec
INVARIANTS BuiltOnce EventsAreReleased ObjectIsValid
PROPERTIES GetReturns DeliveredInOrder RequestsAreAnswered ListenerIsAnswered
CHECK_DEADLOCK FALSE
