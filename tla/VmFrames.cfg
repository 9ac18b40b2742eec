SPECIFICATION Spec
CONSTANTS
  InitialCapacity = 2
  StackMax = 5
  FramesMax = 1
  TryMax = 2
  Blocks <- MCBlocks
  Exits = {}
  HiddenMax = 1
  ArgsMax = 1
  TempsMax = 2
  ScopesMax = 3
INVARIANTS TypeOK HandlersAreOpen FramesTile PointersInBlock ErrorsReachHandlers
PROPERTIES CatchOnlyCuts
CHECK_DEADLOCK FALSE
