CONSTANTS
  QUEUE_SIZE = 32
  BYTE <- MCByte
  MAX_COMMAND_NAME_LENGTH = 4
  MAX_SHELL_LINE_LENGTH = 5
  RING_START <- MCStart
  ITEM <- MCStray
  MaxItems = 2
SPECIFICATION Spec
PROPERTY ReadsWhatHasCome
CHECK_DEADLOCK FALSE
