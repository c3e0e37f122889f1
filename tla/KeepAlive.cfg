CONSTANTS
  HeaderSize = 2
  MaxMessageBytes = 3
  RequestIds = {7, 8}
  WordCells = 2
  PipeIn = 2
  PipeOut = 2
  Disciplines <- MCDisciplines
  Scripts <- AllScripts
SPECIFICATION FairSpec
INVARIANTS
  TypeOK
  InStep
  ExitIsClean
  MetricsMatch
  PoolsKeptOnlyByFailure
PROPERTIES
  ImplementsService
  EveryFrameAnswered
  ServerStops
