CONSTANTS
  c1 = c1
  c2 = c2
  t1 = t1
  Conns = {c1, c2}
  NoConn = NoConn
  TsOf <- MCTsOf
  Skipped = {0}
  MaxEvents = 3
  MaxDeaths = 1
  MaxExpiries = 1
  MaxRetries = 1
SPECIFICATION EFairSpec
CHECK_DEADLOCK FALSE
INVARIANTS
  EchoTypeOK
  RepeatsExplained
  AckedIsEchoed
PROPERTIES
  RunningActorEchoes
