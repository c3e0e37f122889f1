CONSTANTS
  CommandLines <- MCCommandLines
  Disks <- MCDisks
  Inputs <- MCInputs
  NamedScale <- MCNamedScale
SPECIFICATION Spec
INVARIANTS
  OnlyResultsLeave
  ExitCodeHonest
  ResultAsAsked
