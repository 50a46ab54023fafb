CONSTANTS
  DEPTH = 11
  QUEUE_SIZE = 40
  BYTE <- MCByte
  MAX_COMMAND_NAME_LENGTH = 4
  CLIENT <- MCClient
  MaxCommands = 3
SPECIFICATION Spec
INVARIANTS
  TypeOK
  ServedWasSent
  AcceptedIsWhole
  ACutCostsOneMore
PROPERTY FreshProgramIsAnswered
CHECK_DEADLOCK FALSE
