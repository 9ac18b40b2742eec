SPECIFICATION Spec
CONSTANTS
  BitmapBits = 12
  LeafMax = 2
  InternalMax = 3
  KeySlots = 3
  Keys <- MCKeys7
  Locs <- MCLocs1
  MaxEntries = 6
CHECK_DEADLOCK FALSE
INVARIANTS ScanEqExact
