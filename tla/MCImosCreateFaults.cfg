SPECIFICATION FairSpec
CONSTANTS
  d1 = d1
  d2 = d2
  Dl = {d1}
  PlanKey = PlanKey
  Plans <- MCOne
  Archives = {d1}
  Large = {d1}
  Watched = {PlanKey}
  MaxSeen = 1
  MaxTried = 1
  MaxFaults = 1
INVARIANTS
  TypeOK
  Reported
PROPERTIES
  ImplementsBuild
  NoLateProgress
  CallReturns
