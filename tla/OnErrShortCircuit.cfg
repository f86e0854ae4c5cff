SPECIFICATION Spec
CONSTANTS
  Programs <- AllChains
PROPERTY ShortCircuits
