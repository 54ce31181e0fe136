SPECIFICATION Spec
CONSTANTS
  NCols = 4
  ChunkCols = 3
  Capacity = 2
  Threshold <- MCThreshold
  MinValue <- MCMinValue
  NaN = NaN
  IsFloat = TRUE
  Unroll = 2
  ARows <- MCARows
  BMatrices <- MCBMatrices
INVARIANTS
  TypeOK
  ScratchClean
  ListIsTouched
  ChunkMaxBounds
  CursorsResume
  RowOrder
PROPERTY ImplementsTopN
