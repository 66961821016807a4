SPECIFICATION Spec
CONSTANTS
  p1 = p1
  p2 = p2
  p3 = p3
  Procs = {p1, p2, p3}
  Sems = {1, 2, 3}
  Segs = {1, 2, 3, 4}
  Values = {v}
  DefaultV = v
  Calls <- ThreeApps
  Faults = FALSE
  Mortal = {}
  MaxCrashes = 0
INVARIANT InitIsExclusive
CHECK_DEADLOCK FALSE
