CONSTANTS
  CommandLines <- MCCommandLines
  Disks <- MCDisks
  Inputs <- MCInputs
  NamedScale <- MCNamedScale
SPECIFICATION Spec
INVARIANT ExitZeroMeansDelivered
