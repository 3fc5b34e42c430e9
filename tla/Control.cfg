CONSTANTS
  r1 = r1
  r2 = r2
  r3 = r3
  Callers = {r1, r2, r3}
  Steps = 3
SPECIFICATION ControlFairSpec
INVARIANTS
  ControlTypeOK
PROPERTIES
  NilMeansServed
  ErrorIsEarned
  ResumeAnswered
