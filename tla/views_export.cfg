CONSTANTS
  Arrivals <- MCArrivals
  Filters <- MCFilters
  Pinned <- MCPinned
  Limits <- MCLimits
  NoLimit = NoLimit
  NoEnv = NoEnv
  Chunk = 2
  GroupIdsCap = 2
  BatchSizes = {2}
  MaxRows = 3
  MaxRuns = 1
  ShapeA = ShapeA
  ShapeB = ShapeB
SYMMETRY Shapes
SPECIFICATION ViewsSpec
CHECK_DEADLOCK FALSE
INVARIANTS ExportIsOneWalk QuietReadsAreExact RunOwnsItsRows
