CONSTANTS
  slack = slack
  wss = wss
  NoName = NoName
  NoLeaf = NoLeaf
  Names = {slack, wss}
  SlackHost = slack
  Lifetime = 3
  Backdate = 1
  MaxTime = 6
SPECIFICATION Spec
CHECK_DEADLOCK FALSE
INVARIANTS
  LeafAccepted
