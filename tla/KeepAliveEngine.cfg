CONSTANTS
  HeaderSize = 1
  MaxMessageBytes = 2
  RequestIds = {7}
  WordCells = 1
  PipeIn = 1
  PipeOut = 1
  Scripts <- MCScripts
  Disciplines <- MCDisciplines
  GpuIds <- MCGpuIds
  Devices = {0, 1}
  ModelRoots = {TRUE, FALSE}
  MaxImages = 6
  MaxTiles = 2
SPECIFICATION FairSpec
INVARIANT MemoryBetweenRequests
PROPERTIES
  ImplementsLoop
  RequestsAnswered
