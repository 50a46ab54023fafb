CONSTANTS
  DEPTH = 2
  SZ = 6
  QUEUE_SZ = 6
  MAX_BLOCK = 5
  MaxRestarts = 1
SPECIFICATION Spec
INVARIANTS
  TypeOK
  NothingIsLost
  NeverOutOfOrder
  OneStrayByteAReset
PROPERTY TestsFinish
CHECK_DEADLOCK FALSE
