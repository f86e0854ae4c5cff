SPECIFICATION Spec
CONSTANTS
  c1 = c1
  c2 = c2
  None = None
  Comments <- MCComments
  Inputs <- Files
INVARIANTS KeptOnce TravelsWithNode Idempotent
CHECK_DEADLOCK FALSE
