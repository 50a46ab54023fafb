CONSTANTS
  COMMAND <- MCAll
  VALUE = {v0, v1}
  NoPage = NoPage
  PAGE_SIZE = 2
  DATA_SIZE <- MCOnePage
  INSERT_SIZE = {2}
  OUT_SIZE = 34
  FIFO_DEPTH = 1
  MAX_COMMAND_STATES = 2
  MAX_COMMAND_WAIT = 1
  MAX_TICK_WAIT = 0
  WINDOW = 1
  WaitsForPage = TRUE
  MaxRequests = 3
SPECIFICATION Spec
INVARIANTS
  TypeOK
  ReceiveLockCountsMissingBytes
  SendLockCountsBytesToSend
PROPERTIES
  RefinesCommandService
  RequestsAreAnswered
  StoredShutdownHappens
