CONSTANTS
  Padding = 1
  Overlap = 1
  BaseTile = 5
  BaseThreshold = 7
  IgpuTile = 3
  IgpuThreshold = 5
  Jobs <- PlainJobs
SPECIFICATION Spec
INVARIANT NeighboursInSight
