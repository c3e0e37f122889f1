CONSTANTS
  Padding = 1
  Overlap = 1
  BaseTile = 5
  BaseThreshold = 7
  IgpuTile = 3
  IgpuThreshold = 5
  Jobs <- MCJobs
SPECIFICATION Spec
INVARIANTS
  TypeOK
  WrittenOnce
  PixelsInPlace
  NoGaps
  PieceBounded
  OverlapBefore
