CONSTANTS
  MAX_MEMORY_ALLOCATIONS = 3
  MAX_PAGES = 2
  MAX_PAGE_KB = 1
  KB = 5
  MEMORY = 20
  BYTE = {0, 1, 2, 3, 4, 5}
  FILE <- MCFiles
  Missing = Missing
  FIRST_FILES <- MCFirstFiles
  DATA <- MCNoData
  FILE_SIZE <- MCNoData
  MAX_OPEN = 1
  Script = "script"
  Saved <- MCSaved
  PAGES <- MCPages
  SAVE <- MCSave
  CHANGE <- MCChange
  CHANGE_AT = 3
  INSERT <- MCInsert
  INSERT_AT = 1
  CUT = 1
  CUT_AT = 0
  MaxRuns = 3
  MaxWaiting = 2
SPECIFICATION TestSpec
INVARIANTS
  TestTypeOK
  RunSavesItsChanges
PROPERTIES
  
  GrantedRunEnds
CHECK_DEADLOCK FALSE
