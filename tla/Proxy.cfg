SPECIFICATION Spec
CONSTANTS
  v1 = v1  v2 = v2  r1 = r1  r2 = r2  i1 = i1  i2 = i2  i3 = i3  i4 = i4
  None = None
  Version = {v1, v2}
  Request = {r1, r2}
  Inode = {i1, i2, i3, i4}
  Scenarios <- AllScenarios
  Cooldown = 1
  CacheTTL = 1
  MaxTime = 2
  MaxEnds = 1
SYMMETRY Symmetric
CHECK_DEADLOCK FALSE
INVARIANTS NeverServedEarly ClockStartsOnce SavedIsTheClock OnlySharedWritesTear
