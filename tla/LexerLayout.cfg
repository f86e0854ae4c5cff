SPECIFICATION MCSpec
CONSTANTS
  Lexemes <- LayoutLexemes
  Leads <- LayoutLeads
  MaxLexemes = 6
  Profiles <- Layouts
INVARIANTS
  BlockBalance
  IndentLevels
  ClosureStacks
  InterpolationOwnsBraces
PROPERTIES
  IndentOnlyAtStatementLevel
