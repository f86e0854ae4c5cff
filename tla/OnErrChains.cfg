SPECIFICATION Spec
CONSTANTS
  Programs <- AllChains
INVARIANTS GoAccepts ArgsAreOfTheChain ErrorsInOrder
PROPERTY KeepsPromise
