SPECIFICATION Spec
CONSTANTS
  InitialCapacity = 2
  StackMax = 5
  FramesMax = 1
  TryMax = 2
  Blocks <- MCBlocks
  Exits = {"escape"}
  HiddenMax = 1
  ArgsMax = 1
  TempsMax = 2
  ScopesMax = 3
INVARIANTS HandlersAreOpen
CHECK_DEADLOCK FALSE
