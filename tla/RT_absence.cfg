SPECIFICATION FairSpec
CONSTANTS
  Roles = {"student", "wizard"}
  Emits <- EmitsStartOnly
  MaxEvents = 1
  MaxFaults = 0
  MaxRestarts = 0
  MaxReloads = 0
  MaxDrops <- Unbounded
PROPERTY AbsenceEndsActive
CHECK_DEADLOCK FALSE
