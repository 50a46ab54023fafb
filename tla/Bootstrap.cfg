CONSTANTS
  DEPTH = 3
  BASE = 5
  LOADER <- MCLoader
  PAYLOAD <- MCPayload
  FILL = 4
  STALE = {0, 3}
  FIRST = 0
  LAST = 6
  CALL_ADDRESS = 3
  BIN_LOAD_ADDR = 8
  BIN_ENTRY_ADDR = 11
SPECIFICATION Spec
INVARIANTS
  TypeOK
  LoaderIsWhole
  ProgramIsWhole
PROPERTY LoadingFinishes
CHECK_DEADLOCK FALSE
