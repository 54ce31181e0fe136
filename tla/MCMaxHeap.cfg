SPECIFICATION Spec
CONSTANTS
  Capacity = 4
  Cols <- MCCols
  Values <- MCValues
  Threshold <- MCThreshold
  OrderMax = 4
INVARIANTS
  TypeOK
  RootIsMinimum
  TopNRetained
  EntriesAreReal
PROPERTY ImplementsTopN
