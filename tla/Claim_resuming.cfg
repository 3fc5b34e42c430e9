CONSTANTS
  c1 = c1
  c2 = c2
  Conns = {c1}
  NoConn = NoConn
  Forwards = {}
  MaxEvents = 1
  MaxIdleCalls = 1
  DeliverDelay = FALSE
  IdleGrace = TRUE
  Callers = {0}
  Steps = 2
  RPCErrors = FALSE
SPECIFICATION LSpec
CHECK_DEADLOCK FALSE
INVARIANTS
  ResumingMeansComing
