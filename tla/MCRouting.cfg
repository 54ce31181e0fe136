SPECIFICATION Spec
CONSTANTS
  NRowsB = 2
  NCols = 4
  MinValue <- MCMinValue
  IsFloat = TRUE
  NaN = NaN
  None = None
  U16Max = 1
  U32Max = 5
  FALLBACK_L1D_BYTES = 48
  FLOOR = 1
  CEIL = 8
  SizeOfV = 8
  Caches = {None, 12, 200}
  DefaultRowBlock = 8
  Options <- MCOptions
  AMatrices <- MCAMatrices
  BMatrices <- MCBMatrices
INVARIANTS KernelsAreCalledRight TilesFit ResultIsTopN
CHECK_DEADLOCK FALSE
