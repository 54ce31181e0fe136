SPECIFICATION Spec
CONSTANTS
  NCols = 4
  ChunkCols = 3
  Capacity = 2
  Threshold <- MCThreshold
  MinValue <- MCMinValue
  NaN = NaN
  RowBlocks = {1, 2, 4}
  AMatrices <- MCAMatrices
  BMatrices <- MCBMatrices
INVARIANTS TypeOK AccumulatorClean CursorsResume OutputIsTopN
PROPERTY RowsSelect
CHECK_DEADLOCK FALSE
