CONSTANTS
  COMMAND <- MCPipelined
  VALUE = {v0}
  NoPage = NoPage
  PAGE_SIZE = 12
  DATA_SIZE <- MCOddPages
  INSERT_SIZE = {11}
  OUT_SIZE = 40
  FIFO_DEPTH = 1
  MAX_COMMAND_STATES = 1
  MAX_COMMAND_WAIT = 0
  MAX_TICK_WAIT = 0
  WINDOW = 2
  WaitsForPage = TRUE
  MaxRequests = 3
SPECIFICATION Spec
INVARIANTS
  SendLockCountsBytesToSend
PROPERTIES
  RefinesCommandService
  RequestsAreAnswered
