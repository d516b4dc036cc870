SPECIFICATION FairSpec
CONSTANTS
  Task = {1, 2, 3}
  First = {1, 2}
  Later = {3}
  Programs <- MCPrograms
INVARIANTS
  TypeOK
  NoLostWakeup
  CycleToCut
  OrderIndependent
PROPERTY
  EverythingResolved
