CONSTANTS
  l1 = l1
  l2 = l2
  t1 = t1
  NoToken = NoToken
  NoEvent = NoEvent
  Loops = {l1, l2}
  Tokens = {t1}
  Events <- MCEvents
  MaxResends = 2
SPECIFICATION LiveSpec
INVARIANTS
  TypeOK
  OneLink
  AckedIsHanded
  DuplicatesExplained
PROPERTIES
  EventHanded
  LoopEnds
