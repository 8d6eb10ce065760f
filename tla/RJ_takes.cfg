SPECIFICATION Spec
CONSTANTS
  Slices <- TwoSlices
  Webm <- WebmBytes
  Payloads <- Declarations
  Takes = {}
  MaxReading = 1
  MaxFinalizing = 1
  Short <- LastIsShort
  MaxAttempts = 1
  MaxFaults = 0
INVARIANTS CompleteIsWhole ObjectHolds
PROPERTIES MediaKept TakeFollowsLife LatchHolds
CONSTRAINT UntilOvertaken
CHECK_DEADLOCK FALSE
