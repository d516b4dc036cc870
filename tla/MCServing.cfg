SPECIFICATION ServingSpec
CONSTANTS
  a = a
  other = other
  Declared <- MCDeclared
  Data = {a, other}
  Nothing = Nothing
  Given <- MCGiven
  Requests = {1}
  NoReply = NoReply
  Failure = Failure
  MaxRuns = 2
  HeapSize = 5
  Demands = 2
  MaxHeap <- MCHeap
  MaxLocals <- MCLocals
  Eager = TRUE
CHECK_DEADLOCK FALSE
INVARIANTS
  TypeOK
  NeverMisused
  NoDangling
  StackKept
  StartsClean
PROPERTIES
  ImplementsService
