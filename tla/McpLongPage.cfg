CONSTANTS
  COMMAND <- MCStore
  VALUE = {v0}
  NoPage = NoPage
  PAGE_SIZE = 2
  DATA_SIZE <- MCLongPage
  INSERT_SIZE = {2}
  OUT_SIZE = 40
  FIFO_DEPTH = 1
  MAX_COMMAND_STATES = 1
  MAX_COMMAND_WAIT = 0
  MAX_TICK_WAIT = 0
  WINDOW = 1
  WaitsForPage = FALSE
  MaxRequests = 1
SPECIFICATION Spec
PROPERTY LocksEnd
