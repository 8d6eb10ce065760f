SPECIFICATION FairSpec
CONSTANTS
  Slices <- OneSlice
  Webm <- WebmBytes
  Payloads <- HeaderDeclarations
  Takes = {"t1", "t2"}
  MaxReading = 1
  MaxFinalizing = 0
  Short <- LastIsShort
  MaxAttempts = 1
  MaxFaults = 1
INVARIANTS TypeOK OneTake NotStranded
PROPERTIES Settled Processed Erased
CHECK_DEADLOCK FALSE
