SPECIFICATION FairSpec
CONSTANTS
  Roles <- BothHooks
  MaxSockets = 2
  MaxEvents = 1
  MaxFaults = 1
  MaxPauses = 1
INVARIANTS OneLiveSocket AdmissionShown
PROPERTIES Reconnects Settles
CHECK_DEADLOCK FALSE
