SPECIFICATION Spec
CONSTANTS
  MinInt <- MCMinInt
  MaxInt = 3
  KeyWidth = 2
  TextBits = 3
  MaxInList = 2
  MaxRows = 3
  MaxSize = 4
  MaxTables = 2
  MaxViews = 2
  MaxColumns = 2
  Texts <- MCTexts
  Canonical <- MCCanonical
  Declarations <- MCDeclarations
  ViewTexts <- MCViewTexts
  NewColumns <- MCNewColumns
  Literals <- MCLiterals
  SourceNames <- MCSourceNames
  Statements <- MCStatements
  MaxSelectColumns = 3
  MaxIndexConjuncts = 2
  Trees <- MCTrees
  Probes <- MCProbes
INVARIANTS RowsFitSchema WhereMeansWhatItSays IndexMatchesScan GroupsPartition JoinKeepsSides ViewsCompose ViewsEnd
CHECK_DEADLOCK FALSE
