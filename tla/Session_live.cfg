CONSTANTS
  c1 = c1
  c2 = c2
  f1 = f1
  Conns = {c1, c2}
  NoConn = NoConn
  Forwards = {f1}
  MaxEvents = 1
  MaxIdleCalls = 1
  DeliverDelay = FALSE
  IdleGrace = TRUE
SPECIFICATION FairSpec
CHECK_DEADLOCK FALSE
INVARIANTS
  TypeOK
  AgesOut
  ForwardsCounted
PROPERTIES
  HeldEventReachesWire
  QuietActorSuspended
  MidSendNeedsDetach
