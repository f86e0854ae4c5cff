SPECIFICATION Spec
CONSTANTS
  Typed = {"IDENTIFIER", "DEFER", "OF", "ONERR", "SEMICOLON"}
  Inputs <- Lexed
INVARIANTS
  BlocksAreTheLayout
  LinesAreStatements
  DirectivesGoToTheNext
PROPERTY ParseEnds
CHECK_DEADLOCK FALSE
