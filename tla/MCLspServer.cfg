SPECIFICATION FairSpec
CONSTANTS
  u1 = u1
  u2 = u2
  f1 = f1
  f2 = f2
  Uris = {u1, u2}
  Files = {f1, f2}
  FileOf <- MCFileOf
  Ids = {1, 2}
  NoFile = NoFile
  Roots = {NoFile, f1}
  MayRefuse = {u2}
  Careful = TRUE
  MaxEdits = 3
  MaxVersion = 2
  MaxRequests = 2
  MaxFailures = 1
CHECK_DEADLOCK FALSE
INVARIANTS
  TypeOK
  PublishedWhole
  TokensOwned
PROPERTIES
  AnswersCurrent
  DiagnosticsPaired
  DiagnosticsSettle
