SPECIFICATION Spec
CONSTANTS
  u1 = u1  u2 = u2
  t1 = t1  t2 = t2  t3 = t3
  None = None
  URI <- Documents
  Timer <- Timers
  MaxTexts = 2
  MaxEmpty = 1
INVARIANT ClosedShowsNothing
