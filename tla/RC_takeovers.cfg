SPECIFICATION FairSpec
CONSTANTS
  s1 = s1
  s2 = s2
  s3 = s3
  s4 = s4
  Sockets <- FourSockets
INVARIANTS SingleHolder MarkMeansEmpty AbsenceIsMarked
PROPERTY AbsenceIsNoticed
CHECK_DEADLOCK FALSE
