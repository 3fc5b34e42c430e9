CONSTANTS
  c1 = c1
  c2 = c2
  Conns = {c1, c2}
  NoConn = NoConn
  Forwards = {}
  MaxEvents = 2
  MaxIdleCalls = 0
  DeliverDelay = TRUE
  IdleGrace = FALSE
SYMMETRY Symmetry
SPECIFICATION Spec
CHECK_DEADLOCK FALSE
INVARIANTS
  BufferOrdered
  StampsSound
  HelloFirst
  SettledComplete
  OneWriter
  HandedInOrder
  NoResumeWhileConnected
PROPERTIES
  ImplementsDelivery
