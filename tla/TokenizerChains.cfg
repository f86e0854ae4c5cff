SPECIFICATION MCSpec
CONSTANTS
  Lexemes = {"OTHER", "NEWLINE", "PIPE", "ONERR", "COMMENT", "KEYWORD", "LBRACE", "RBRACE"}
  Leads <- ThreeLeads
  MaxLexemes = 5
  Profiles <- Chains
INVARIANTS
  DebtIsPaid
  ResultNeverUnderflows
PROPERTIES
  EventuallyTokenized
