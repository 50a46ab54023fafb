CONSTANTS
  MAX_MEMORY_ALLOCATIONS = 3
  MAX_PAGES = 2
  MAX_PAGE_KB = 1
  KB = 2
  MEMORY = 4
  BYTE = {0, 1}
  FILE = {f1}
  Missing = Missing
  FIRST_FILES <- MCFirstFiles
  DATA <- MCData
  FILE_SIZE = {0, 2, 3}
  MAX_OPEN = 2
SPECIFICATION Spec
INVARIANT TypeOK
PROPERTIES
  CommandsSplice
  RefusalsKeepContents
  StreamsLostByFreeOnly
