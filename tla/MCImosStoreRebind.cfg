SPECIFICATION Spec
CONSTANTS
  Proc = {p1, p2}
  Ino = {i1, i2}
  Path = {u1}
  k1 = k1
  k2 = k2
  d1 = d1
  Plan = {k1, k2}
  Dl = {d1}
  Items <- MCItems
  Nil = Nil
  MaxCalls = 3
  MaxClock = 2
  MaxCrashes = 0
SYMMETRY Symmetry
PROPERTY
  NeverRebound
