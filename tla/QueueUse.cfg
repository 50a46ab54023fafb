CONSTANTS
  QUEUE_SIZE = 4
  BYTE <- MCByte
  MaxData = 5
  MayFillExactly = FALSE
SPECIFICATION Spec
INVARIANT TypeOK
PROPERTY RefinesByteFifo
