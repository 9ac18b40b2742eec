SPECIFICATION Spec
CONSTANTS
  Tables <- MCTables
  Triggers <- MCTriggers
  TableOf <- MCTableOf
  RowLevel <- MCRowLevel
  Kinds <- DdlKinds
  SelfDrop = FALSE
  MaxDepth = 7
INVARIANTS RowsAreCurrent
