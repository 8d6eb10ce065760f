SPECIFICATION Spec
CONSTANTS
  Slices <- TwoSlices
  Webm <- WebmBytes
  Payloads <- Declarations
  Takes = {}
  MaxReading = 1
  MaxFinalizing = 1
  Short <- LastIsShort
  MaxAttempts = 1
  MaxFaults = 0
INVARIANT LatchFinal
CHECK_DEADLOCK FALSE
