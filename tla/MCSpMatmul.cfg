SPECIFICATION Spec
CONSTANTS
  NCols = 3
  MaxIndex = 4
  AMatrices <- MCAMatrices
  BMatrices <- MCBMatrices
INVARIANTS TypeOK PassesAgree ProductIsExact OverflowAborts
CHECK_DEADLOCK FALSE
