SPECIFICATION Spec
CONSTANTS
  Tables <- MCTables
  Triggers <- MCTriggers
  TableOf <- MCTableOf
  RowLevel <- MCRowLevel
  Kinds <- KnownKinds
  SelfDrop = FALSE
  MaxDepth = 7
INVARIANTS TypeOK NoSelfModification RowsAreCurrent
