CONSTANTS
  h1 = h1
  h2 = h2
  m1 = m1
  m2 = m2
  None = None
  Handlers = {h1, h2}
  Movers = {m1, m2}
  Faults = {"unread"}
  MaxCrashes = 1
SPECIFICATION FairSpec
INVARIANTS CallInv ArmInv ArmsExclusive MoveWasClear
PROPERTIES CallAnswered
