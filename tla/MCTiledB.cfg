SPECIFICATION Spec
CONSTANTS
  NRows = 2
  NCols = 4
  U16Max = 2
  U32Max = 4
  ChunkWidths = {1, 2, 3, 4}
  Matrices <- MCMatrices
INVARIANTS TypeOK CursorsStay SegmentsAreRows
CHECK_DEADLOCK FALSE
