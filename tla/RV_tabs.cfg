SPECIFICATION Spec
CONSTANTS
  c1 = c1
  c2 = c2
  Calls <- TwoCalls
  MaxGrants = 3
  MaxTurns = 3
SYMMETRY Slotwise
CONSTRAINT UntilFound
INVARIANTS OneHolder ReuseNeedsReload NeverResurrected
CHECK_DEADLOCK FALSE
