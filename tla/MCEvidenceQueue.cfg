SPECIFICATION FairSpec
CONSTANTS
  g1 = g1
  g2 = g2
  g3 = g3
  Goal = {g1, g2, g3}
  Free = Free
  Programs <- MCPrograms
CHECK_DEADLOCK FALSE
INVARIANTS
  TypeOK
  Grounded
  Complete
  ExactlyDerived
PROPERTIES
  ClosedStays
  BatchCloses
