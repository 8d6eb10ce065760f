SPECIFICATION FairSpec
CONSTANTS
  t1 = t1
  t2 = t2
  Tabs = {t1}
  MaxSlices = 2
  MaxOpens = 3
  MaxFaults = 2
INVARIANTS NormalIsWhole StoredIsKept NeverResumes
PROPERTIES VerdictHolds Declares
CHECK_DEADLOCK FALSE
