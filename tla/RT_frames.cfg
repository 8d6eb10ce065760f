SPECIFICATION FairSpec
CONSTANTS
  Roles = {"wizard"}
  Emits <- EmitsFrames
  MaxEvents = 2
  MaxFaults = 1
  MaxRestarts = 1
  MaxReloads = 0
  MaxDrops = 1
PROPERTIES
  RowFollowsContract
  RevisionTracksState
  NothingStaysPending
CHECK_DEADLOCK FALSE
