SPECIFICATION Spec
CONSTANTS
  d1 = d1
  d2 = d2
  Dl = {d1, d2}
  PlanKey = PlanKey
  Plans <- MCTwo
  Archives = {d1}
  Large = {}
  Watched = {}
  MaxSeen = 0
  MaxTried = 0
  MaxFaults = 0
INVARIANT
  Reported
PROPERTIES
  ImplementsBuild
  NoLateProgress
