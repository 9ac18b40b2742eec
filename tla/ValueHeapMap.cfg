SPECIFICATION Spec
CONSTANTS
  Addresses = {1, 2}
  Keys = {k1}
  MaxStack = 3
  MaxSlots = 2
  MaxCount = 2
  SavedSlots = 1
  GcMinInterval = 2
  MapIndexing = TRUE
INVARIANT CountsCoverReferences
