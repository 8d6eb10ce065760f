SPECIFICATION Spec
CONSTANTS
  Roles = {"wizard"}
  Emits <- EmitsReplayed
  MaxEvents = 2
  MaxFaults = 1
  MaxRestarts = 1
  MaxReloads = 1
  MaxDrops = 1
INVARIANTS
  TypeOK
  AcceptedIsDone
  AppliedOnce
  ProcessedIsTaken
  ClientNeverAhead
  MemoryFollowsRow
PROPERTY AppliedInOrder
CHECK_DEADLOCK FALSE
