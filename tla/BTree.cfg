SPECIFICATION Spec
CONSTANTS
  BitmapBits = 12
  LeafMax = 2
  InternalMax = 3
  KeySlots = 4
  Keys <- MCKeys3
  Locs <- MCLocs2
  MaxEntries = 6
CHECK_DEADLOCK FALSE
INVARIANTS ScanRangeExact WellFormed PagesAccounted
PROPERTY ImplementsRowIndex
