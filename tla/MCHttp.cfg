CONSTANTS
  Lengths = {0, 2}
  WriteSizes = {1, 2}
  Pumps <- PromisedAndThere
  MaxMessages = 2
  MaxBody = 2
  MaxRead = 2
  Requests = {r1, r2, r3}
  Conns = {p1, p2}
  MaxConcurrent = 1
  c1 = c1
  c2 = c2
  Clients = {c1, c2}
  Methods = {"post", "upgrade", "bad"}
  MaxRequests <- SentByClients
  MaxSends = 2
  MaxFrames = 3
  MaxSent = 4
SPECIFICATION Spec
INVARIANTS
  FramingIsAgreed ReuseStartsClean LimitIsExact IdleIsFree
  MessagesAreExact FramesTakeTurns CleanDrainIsClean RequestsAreTakenInTurn
PROPERTIES DrainIsReported DrainEnds
CHECK_DEADLOCK FALSE
