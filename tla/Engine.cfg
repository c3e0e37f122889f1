CONSTANTS
  GpuIds <- MCGpuIds
  Devices = {0, 1, 2}
  ModelRoots = {TRUE, FALSE}
  MaxImages = 3
SPECIFICATION Spec
INVARIANTS
  TypeOK
  NoDanglingAllocator
  ReturnedOnce
  CpuModeIsComplete
  CpuPoolsEmptyBetweenImages
  PoolsOutliveNet
