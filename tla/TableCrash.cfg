SPECIFICATION CrashSpec
CONSTANTS
  BitmapBits = 5
  Tables <- MCTables
  Unique <- MCUnique
  Rows <- MCCrashRows
  Null <- MCNull
  RowSize <- MCCrashRowSize
  DataSize = 2
  MaxRows <- MCCrashMaxRows
CHECK_DEADLOCK FALSE
INVARIANTS ChainsEnd
VIEW CrashView
