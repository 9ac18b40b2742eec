SPECIFICATION TriggerSpec
CONSTANTS
  BitmapBits = 8
  Tables <- MCTables
  Unique <- MCUnique
  Rows <- MCRows
  Null <- MCNull
  RowSize <- MCRowSize
  DataSize = 2
  MaxRows <- MCMaxRows
CHECK_DEADLOCK FALSE
INVARIANTS RejectedUpdateKeepsRows
