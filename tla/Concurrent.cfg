SPECIFICATION FairSpec
CONSTANTS
  N = 3
  Limits <- AllLimits
CHECK_DEADLOCK FALSE
INVARIANTS SlotsAreHeld QuietAfterReturn
PROPERTIES KeepsPromise Returns
