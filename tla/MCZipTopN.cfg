SPECIFICATION ZipSpec
CONSTANTS
  Capacity = 2
  Threshold = 0
  NaN = NaN
  MaxIndex = 3
  Inputs <- MCInputs
INVARIANTS ZipTypeOK ZipIsTopNOfWhole
PROPERTY ImplementsTopN
CHECK_DEADLOCK FALSE
