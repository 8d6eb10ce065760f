SPECIFICATION Spec
CONSTANTS
  t1 = t1
  t2 = t2
  Tabs = {t1}
  MaxSlices = 2
  MaxOpens = 1
  MaxFaults = 1
INVARIANT EverySliceDeclared
CHECK_DEADLOCK FALSE
