CONSTANTS
  a = a
  g = g
  o1 = o1
  o2 = o2
  s1 = s1
  s2 = s2
  f1 = f1
  Refs = {a, g}
  Golden = {g}
  NoRef = NoRef
  Opens = {o1, o2}
  NoOpen = NoOpen
  Sockets = {s1, s2}
  Forwards = {f1}
  MaxAttempts = 2
  MaxRestarts = 1
  TicketTTL = 0
  MaxTime = 1
SPECIFICATION FairSpec
CHECK_DEADLOCK FALSE
INVARIANTS
  TypeOK
  TicketOnce
  OwnSession
  AttachedIsLinked
PROPERTIES
  OpenAnswered
