CONSTANTS
  Padding = 1
  Overlap = 1
  BaseTile = 5
  BaseThreshold = 5
  IgpuTile = 3
  IgpuThreshold = 5
  Jobs <- FallbackJobs
SPECIFICATION Spec
INVARIANT TilesAtScale
