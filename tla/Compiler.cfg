CONSTANTS
  Registry <- MCRegistry
  Interfaces <- MCInterfaces
  Qualified <- MCQualified
  Programs <- MCPrograms
SPECIFICATION Spec
INVARIANTS NamesResolve JumpsAreLegal LibrariesAreImported CalledOnce TempsAreFresh
CHECK_DEADLOCK FALSE
