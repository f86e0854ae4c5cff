SPECIFICATION Spec
CONSTANTS
  old = old  new = new  p1 = p1  p2 = p2
  None = None  Torn = Torn
  Command = {p1, p2}
  Version = {old, new}
  LibFile <- Files
  Stdlib <- FilesOf
  Scenarios <- AllScenarios
SYMMETRY Symmetric
CHECK_DEADLOCK FALSE
INVARIANTS StampVouches LibraryFits UserTextSurvives SuccessMeansBuilt
