SPECIFICATION Spec
CONSTANTS
  t1 = t1
  t2 = t2
  Tabs = {t1, t2}
  MaxSlices = 1
  MaxOpens = 2
  MaxFaults = 1
SYMMETRY Symmetry
INVARIANTS DeclaredIsOver
PROPERTY NextNeverRewinds
CHECK_DEADLOCK FALSE
