--------------------------- MODULE SqlCatalogProofs ---------------------------
(***************************************************************************)
(* What the statements of SqlCatalog keep true of the rows of a table, for *)
(* any declarations, literals and bounds.                                  *)
(***************************************************************************)
EXTENDS SqlCatalog, WellFoundedInduction, SequenceTheorems, FiniteSetTheorems, TLAPS

(* Every non-empty set of naturals has a least element. *)
LEMMA LeastMember ==
  ASSUME NEW T \in SUBSET Nat, T # {}
  PROVE  Min(T) \in T /\ \A j \in T : Min(T) <= j
  <1>1. \E i \in T : \A j \in T : i <= j
    <2> DEFINE R == OpToRel(<, Nat)
    <2>1. IsWellFoundedOn(R, Nat)
      BY NatLessThanWellFounded
    <2>2. PICK i \in T : \A j \in T : ~(<<j, i>> \in R)
      BY <2>1, WFMin
    <2>3. \A j \in T : ~(j < i)
      BY <2>2 DEF OpToRel
    <2>4. QED
      BY <2>3
  <1>2. QED
    BY <1>1 DEF Min

-----------------------------------------------------------------------------
(* Types.                                                                    *)

Cells == [t : {"null"} \cup ColumnTypes, v : Int]

Columns ==
    [name : STRING, type : ColumnTypes, default : Cells,
     flags : SUBSET {"default", "not_null", "unique", "primary_key"}]

\* A date column holds NULL or a date in its canonical form.
Dated(type, cell) ==
    IsDate(type) => \/ IsNull(cell)
                    \/ cell.t = type /\ cell.v \in Canonical[type]

CellFits(col, cell, fed) ==
    /\ cell \in Cells
    /\ Required(col) /\ ~(Has(col, "default") /\ IsNull(col.default)) => ~IsNull(cell)
    /\ ~fed => Dated(col.type, cell)

\* A column as the catalog holds it: DEFAULT is coerced.
ColumnFits(col) ==
    /\ Dated(col.type, col.default)
    /\ ~Has(col, "default") => col.default = Null

ColumnsFit(cols) == cols \in Seq(Columns) /\ \A c \in DOMAIN cols : ColumnFits(cols[c])

RowFits(cols, row, fed) ==
    /\ row \in Seq(Cells)
    /\ DOMAIN row = DOMAIN cols
    /\ \A c \in DOMAIN cols : CellFits(cols[c], row[c], fed)

\* No two rows agree on a key column.
KeysDiffer(cols, rows) ==
    \A c \in DOMAIN cols : Keys(cols[c]) =>
        \A i, j \in DOMAIN rows : i # j => ~Conflict(rows[i][c], rows[j][c])

RowsFit(cols, rows, fed) ==
    /\ rows \in Seq(Seq(Cells))
    /\ \A r \in DOMAIN rows : RowFits(cols, rows[r], fed)
    /\ KeysDiffer(cols, rows)

TableFits(table) ==
    /\ table = [cols |-> table.cols, rows |-> table.rows, fed |-> table.fed]
    /\ table.fed \in BOOLEAN
    /\ ColumnsFit(table.cols)
    /\ RowsFit(table.cols, table.rows, table.fed)

\* The inductive invariant.
TablesFit == \A name \in DOMAIN tables : TableFits(tables[name])

LEMMA FitsSchema == TablesFit => RowsFitSchema
  <1> SUFFICES ASSUME TablesFit, NEW name \in DOMAIN tables
               PROVE  LET cols == tables[name].cols
                          rows == tables[name].rows
                      IN  /\ \A r \in DOMAIN rows : DOMAIN rows[r] = DOMAIN cols
                          /\ \A c \in DOMAIN cols, r \in DOMAIN rows :
                              /\ Required(cols[c]) /\ ~(Has(cols[c], "default") /\ IsNull(cols[c].default))
                                  => ~IsNull(rows[r][c])
                              /\ ~tables[name].fed /\ IsDate(cols[c].type)
                                  => \/ IsNull(rows[r][c])
                                     \/ rows[r][c].t = cols[c].type /\ rows[r][c].v \in Canonical[cols[c].type]
                          /\ \A c \in DOMAIN cols : Keys(cols[c]) =>
                              \A i, j \in DOMAIN rows : i # j => ~Conflict(rows[i][c], rows[j][c])
    BY DEF RowsFitSchema
  <1> DEFINE cols == tables[name].cols
             rows == tables[name].rows
             fed == tables[name].fed
  <1>1. RowsFit(cols, rows, fed)
    BY DEF TablesFit, TableFits
  <1> HIDE DEF cols, rows, fed
  <1>2. /\ \A r \in DOMAIN rows : RowFits(cols, rows[r], fed)
        /\ KeysDiffer(cols, rows)
    BY <1>1 DEF RowsFit
  <1>3. \A c \in DOMAIN cols, r \in DOMAIN rows : CellFits(cols[c], rows[r][c], fed)
    BY <1>2 DEF RowFits
  <1>4. \A r \in DOMAIN rows : DOMAIN rows[r] = DOMAIN cols
    BY <1>2 DEF RowFits
  <1>5. QED
    BY <1>2, <1>3, <1>4 DEF CellFits, Dated, KeysDiffer, cols, rows, fed

-----------------------------------------------------------------------------
(* Cells and columns.                                                        *)

LEMMA ConflictSymmetric ==
  ASSUME NEW a \in Cells, NEW b \in Cells
  PROVE  Conflict(a, b) <=> Conflict(b, a)
  <1>1. a.v \in Int /\ b.v \in Int /\ a.t \in {"null"} \cup ColumnTypes /\ b.t \in {"null"} \cup ColumnTypes
    BY DEF Cells
  <1>2. \A m, n \in Int : Sign(m - n) = 0 <=> Sign(n - m) = 0
    BY DEF Sign
  <1>3. SUFFICES ASSUME ~IsNull(a), ~IsNull(b)
                 PROVE  cell_compare(a, b) = 0 <=> cell_compare(b, a) = 0
    BY DEF Conflict
  <1>4. CASE cell_owns_text(a.t) /\ cell_owns_text(b.t)
    <2>1. cell_compare(a, b) = Sign(a.v - b.v) /\ cell_compare(b, a) = Sign(b.v - a.v)
      BY <1>3, <1>4 DEF cell_compare, cell_owns_text, TextTypes, IsNull
    <2>2. QED
      BY <1>1, <1>2, <2>1
  <1>5. CASE ~(cell_owns_text(a.t) /\ cell_owns_text(b.t)) /\ {a.t, b.t} \subseteq {"int", "bool"}
    <2>1. cell_compare(a, b) = Sign(a.v - b.v) /\ cell_compare(b, a) = Sign(b.v - a.v)
      BY <1>3, <1>5 DEF cell_compare
    <2>2. QED
      BY <1>1, <1>2, <2>1
  <1>6. CASE ~(cell_owns_text(a.t) /\ cell_owns_text(b.t)) /\ ~({a.t, b.t} \subseteq {"int", "bool"})
    <2>1. CASE "float" \in {a.t, b.t}
      <3>1. /\ cell_compare(a, b) = Sign(AsHalves(a) - AsHalves(b))
            /\ cell_compare(b, a) = Sign(AsHalves(b) - AsHalves(a))
        BY <1>3, <1>6, <2>1 DEF cell_compare
      <3>2. AsHalves(a) \in Int /\ AsHalves(b) \in Int
        BY <1>1, CellConstants DEF AsHalves
      <3>3. QED
        BY <1>2, <3>1, <3>2
    <2>2. CASE ~("float" \in {a.t, b.t})
      BY <1>3, <1>6, <2>2 DEF cell_compare
    <2>3. QED
      BY <2>1, <2>2
  <1>7. QED
    BY <1>4, <1>5, <1>6

LEMMA CoercedFits ==
  ASSUME NEW cell \in LiteralCells, NEW type \in ColumnTypes, CanCoerce(cell, type)
  PROVE  /\ cell_coerce_to_column(cell, type) \in Cells
         /\ Dated(type, cell_coerce_to_column(cell, type))
  <1>1. cell.t \in {"null", "int", "bool", "float", "string"} /\ cell.v \in Int /\ cell \in Cells
    BY DEF LiteralCells, Cells, ColumnTypes
  <1>2. CASE IsDate(type) /\ cell.t = "string"
    <2>1. /\ cell_coerce_to_column(cell, type).t = type
          /\ cell_coerce_to_column(cell, type).v = cell.v
          /\ cell_coerce_to_column(cell, type) \in Cells
      BY <1>1, <1>2 DEF cell_coerce_to_column, IsDate, LiteralCells, Cells
    <2>2. cell.v \in Canonical[type]
      BY <1>2 DEF CanCoerce, IsDate
    <2>3. QED
      BY <2>1, <2>2 DEF Dated
  <1>3. CASE ~(IsDate(type) /\ cell.t = "string")
    <2>1. cell_coerce_to_column(cell, type) = cell
      BY <1>3 DEF cell_coerce_to_column, IsDate
    <2>2. Dated(type, cell)
      BY <1>1, <1>3 DEF Dated, CanCoerce, IsDate, IsNull
    <2>3. QED
      BY <1>1, <2>1, <2>2
  <1>4. QED
    BY <1>2, <1>3

LEMMA NullFits == Null \in Cells /\ IsNull(Null) /\ \A type : Dated(type, Null)
  BY DEF Null, Cells, IsNull, Dated

LEMMA StoredFits ==
  ASSUME NEW col \in DeclaredColumns, DefaultFits(col)
  PROVE  /\ Stored(col) \in Columns /\ ColumnFits(Stored(col))
         /\ Stored(col).flags = col.flags
  <1> DEFINE cell == IF Has(col, "default") THEN cell_coerce_to_column(col.default, col.type)
                     ELSE Null
  <1>1. col.default \in LiteralCells /\ col.type \in ColumnTypes
    BY DEF DeclaredColumns
  <1>2. cell \in Cells /\ Dated(col.type, cell)
    <2>1. CASE Has(col, "default")
      BY <1>1, <2>1, CoercedFits DEF DefaultFits
    <2>2. CASE ~Has(col, "default")
      BY <2>2, NullFits
    <2>3. QED
      BY <2>1, <2>2
  <1>3. ~Has(col, "default") => cell = Null
    OBVIOUS
  <1>4. Stored(col) = [col EXCEPT !.default = cell]
    BY DEF Stored
  <1> HIDE DEF cell
  <1>5. /\ Stored(col) \in Columns /\ Stored(col).default = cell /\ Stored(col).type = col.type
        /\ Stored(col).flags = col.flags
    BY <1>2, <1>4 DEF DeclaredColumns, Columns
  <1>6. QED
    BY <1>2, <1>3, <1>5 DEF ColumnFits, Has

-----------------------------------------------------------------------------
(* Rows.                                                                     *)

LEMMA DefaultsTyped ==
  ASSUME NEW cols, ColumnsFit(cols), NEW cells, \A c \in DOMAIN cols : cells[c] \in Cells
  PROVE  /\ WithDefaults(cols, cells) \in Seq(Cells)
         /\ DOMAIN WithDefaults(cols, cells) = DOMAIN cols
  <1> DEFINE row == WithDefaults(cols, cells)
  <1>1. row = [c \in DOMAIN cols |->
                 IF IsNull(cells[c]) /\ Has(cols[c], "default") THEN cols[c].default
                 ELSE cells[c]]
    BY DEF WithDefaults
  <1>2. \A c \in DOMAIN cols : cols[c] \in Columns
    BY DEF ColumnsFit
  <1>3. \A c \in DOMAIN cols : cols[c].default \in Cells
    BY <1>2 DEF Columns
  <1>4. DOMAIN cols = 1 .. Len(cols) /\ Len(cols) \in Nat
    BY DEF ColumnsFit
  <1> HIDE DEF row
  <1>5. DOMAIN row = DOMAIN cols /\ \A c \in DOMAIN cols : row[c] \in Cells
    BY <1>1, <1>3
  <1>6. row = [c \in 1 .. Len(cols) |-> row[c]]
    BY <1>1, <1>4
  <1>7. QED
    BY <1>4, <1>5, <1>6 DEF row

\* DEFAULT and NOT NULL make a row of cells that agree with their columns.
LEMMA DefaultsFit ==
  ASSUME NEW cols, ColumnsFit(cols), NEW fed, NEW cells,
         \A c \in DOMAIN cols : /\ cells[c] \in Cells
                                /\ ~fed => Dated(cols[c].type, cells[c]),
         NoMissing(cols, WithDefaults(cols, cells))
  PROVE  RowFits(cols, WithDefaults(cols, cells), fed)
  <1> DEFINE row == WithDefaults(cols, cells)
  <1>1. \A c \in DOMAIN cols :
          row[c] = IF IsNull(cells[c]) /\ Has(cols[c], "default") THEN cols[c].default
                   ELSE cells[c]
    BY DEF WithDefaults
  <1>2. row \in Seq(Cells) /\ DOMAIN row = DOMAIN cols
    BY DefaultsTyped
  <1> HIDE DEF row
  <1>3. \A c \in DOMAIN cols : cols[c].default \in Cells /\ Dated(cols[c].type, cols[c].default)
    <2>1. \A c \in DOMAIN cols : cols[c] \in Columns /\ ColumnFits(cols[c])
      BY DEF ColumnsFit
    <2>2. QED
      BY <2>1 DEF ColumnFits, Columns
  <1>4. ASSUME NEW c \in DOMAIN cols
        PROVE  CellFits(cols[c], row[c], fed)
    <2>1. row[c] \in Cells /\ (~fed => Dated(cols[c].type, row[c]))
      BY <1>1, <1>3
    <2>2. Required(cols[c]) => ~IsNull(row[c])
      BY DEF NoMissing, row
    <2>3. QED
      BY <2>1, <2>2 DEF CellFits
  <1>5. QED
    BY <1>2, <1>4 DEF RowFits, row

\* A row that disagrees with all others on the key columns.
Differs(cols, rows, row) ==
    \A c \in DOMAIN cols : Keys(cols[c]) =>
        \A r \in DOMAIN rows : ~Conflict(rows[r][c], row[c])

LEMMA CheckedDiffers ==
  ASSUME NEW table, NEW row, constraints_check_new_row(table, row)
  PROVE  Differs(table.cols, table.rows, row)
  BY DEF constraints_check_new_row, Differs

LEMMA AppendFits ==
  ASSUME NEW cols, NEW rows, NEW fed, RowsFit(cols, rows, fed),
         NEW row, RowFits(cols, row, fed), Differs(cols, rows, row)
  PROVE  RowsFit(cols, Append(rows, row), fed)
  <1> DEFINE n == Len(rows)
             s == Append(rows, row)
  <1>1. /\ n \in Nat /\ DOMAIN rows = 1 .. n /\ DOMAIN s = 1 .. n + 1 /\ s[n + 1] = row
        /\ \A r \in 1 .. n : s[r] = rows[r]
        /\ s \in Seq(Seq(Cells)) /\ row \in Seq(Cells)
    BY DEF RowsFit, RowFits
  <1> HIDE DEF n, s
  <1>2. \A r \in DOMAIN s : RowFits(cols, s[r], fed)
    <2>1. SUFFICES ASSUME NEW r \in 1 .. n + 1 PROVE RowFits(cols, s[r], fed)
      BY <1>1
    <2>2. CASE r = n + 1
      BY <1>1, <2>2
    <2>3. CASE r # n + 1
      <3>1. r \in 1 .. n
        BY <1>1, <2>3
      <3>2. QED
        BY <1>1, <3>1 DEF RowsFit
    <2>4. QED
      BY <2>2, <2>3
  <1>3. ASSUME NEW c \in DOMAIN cols, Keys(cols[c]), NEW i \in 1 .. n + 1, NEW j \in 1 .. n + 1,
               i # j
        PROVE  ~Conflict(s[i][c], s[j][c])
    <2>1. \A r \in 1 .. n : ~Conflict(rows[r][c], row[c])
      BY <1>1, <1>3 DEF Differs
    <2>2. \A r \in 1 .. n : ~Conflict(row[c], rows[r][c])
      <3>1. \A r \in 1 .. n : rows[r][c] \in Cells /\ row[c] \in Cells
        BY <1>1, <1>3 DEF RowsFit, RowFits, CellFits
      <3>2. QED
        BY <2>1, <3>1, ConflictSymmetric
    <2>3. CASE i = n + 1
      <3>1. j \in 1 .. n
        BY <1>1, <1>3, <2>3
      <3>2. QED
        BY <1>1, <2>2, <2>3, <3>1
    <2>4. CASE j = n + 1
      <3>1. i \in 1 .. n
        BY <1>1, <1>3, <2>4
      <3>2. QED
        BY <1>1, <2>1, <2>4, <3>1
    <2>5. CASE i # n + 1 /\ j # n + 1
      <3>1. i \in 1 .. n /\ j \in 1 .. n
        BY <1>1, <2>5
      <3>2. QED
        BY <1>1, <1>3, <3>1 DEF RowsFit, KeysDiffer
    <2>6. QED
      BY <2>3, <2>4, <2>5
  <1>4. KeysDiffer(cols, s)
    BY <1>1, <1>3 DEF KeysDiffer
  <1>5. QED
    BY <1>1, <1>2, <1>4 DEF RowsFit, s

-----------------------------------------------------------------------------
(* Statements that change one table.                                         *)

LEMMA ChangeFits ==
  ASSUME TablesFit, NEW name, NEW table, TableFits(table),
         DOMAIN tables' \subseteq DOMAIN tables \cup {name},
         \A n \in DOMAIN tables' : tables'[n] = IF n = name THEN table ELSE tables[n]
  PROVE  TablesFit'
  BY DEF TablesFit

LEMMA WithTableFits ==
  ASSUME TablesFit, NEW name, NEW table, TableFits(table), WithTable(name, table)
  PROVE  TablesFit'
  <1>1. tables' = [n \in {name} \cup DOMAIN tables |-> IF n = name THEN table ELSE tables[n]]
    BY DEF WithTable
  <1>2. QED
    BY <1>1, ChangeFits

\* The rows of one table change; its columns do not.
LEMMA RowsChangeFits ==
  ASSUME TablesFit, NEW name \in DOMAIN tables, NEW rows, NEW fed \in BOOLEAN,
         RowsFit(tables[name].cols, rows, fed),
         tables' = [tables EXCEPT ![name] =
                      [cols |-> tables[name].cols, rows |-> rows, fed |-> fed]]
  PROVE  TablesFit'
  <1> DEFINE table == [cols |-> tables[name].cols, rows |-> rows, fed |-> fed]
  <1>1. TableFits(table)
    BY DEF TableFits, TablesFit
  <1>2. /\ DOMAIN tables' = DOMAIN tables
        /\ \A n \in DOMAIN tables' : tables'[n] = IF n = name THEN table ELSE tables[n]
    OBVIOUS
  <1> HIDE DEF table
  <1>3. QED
    BY <1>1, <1>2, ChangeFits

LEMMA TableParts ==
  ASSUME TablesFit, NEW name \in DOMAIN tables
  PROVE  /\ tables[name] = [cols |-> tables[name].cols, rows |-> tables[name].rows,
                            fed |-> tables[name].fed]
         /\ tables[name].fed \in BOOLEAN
         /\ ColumnsFit(tables[name].cols)
         /\ RowsFit(tables[name].cols, tables[name].rows, tables[name].fed)
  BY DEF TablesFit, TableFits

LEMMA CreateFits ==
  ASSUME TablesFit, NEW d \in Declarations, CreateTable(d.name, d.cols)
  PROVE  TablesFit'
  <1> DEFINE cols == [c \in DOMAIN d.cols |-> Stored(d.cols[c])]
             none == <<>>
             table == [cols |-> cols, rows |-> none, fed |-> FALSE]
  <1>1. d.cols \in Seq(DeclaredColumns) /\ \A c \in DOMAIN d.cols : DefaultFits(d.cols[c])
    BY SchemaConstants DEF CreateTable, sql_parse_create_table
  <1>2. \A c \in DOMAIN d.cols : Stored(d.cols[c]) \in Columns /\ ColumnFits(Stored(d.cols[c]))
    <2>1. \A c \in DOMAIN d.cols : d.cols[c] \in DeclaredColumns
      BY <1>1
    <2>2. QED
      BY <1>1, <2>1, StoredFits
  <1>3. ColumnsFit(cols)
    <2>1. DOMAIN d.cols = 1 .. Len(d.cols) /\ Len(d.cols) \in Nat
      BY <1>1
    <2>2. cols \in Seq(Columns)
      BY <1>2, <2>1
    <2>3. QED
      BY <1>2, <2>2 DEF ColumnsFit
  <1>4. WithTable(d.name, table)
    BY DEF CreateTable
  <1>5. none \in Seq(Seq(Cells)) /\ DOMAIN none = {}
    OBVIOUS
  <1> HIDE DEF cols, none
  <1>6. RowsFit(cols, none, FALSE)
    BY <1>5 DEF RowsFit, KeysDiffer
  <1>7. TableFits(table)
    BY <1>3, <1>6 DEF TableFits
  <1> HIDE DEF table
  <1>8. QED
    BY <1>4, <1>7, WithTableFits

LEMMA DropFits ==
  ASSUME TablesFit, NEW name, DropTable(name)
  PROVE  TablesFit'
  BY DEF DropTable, TablesFit

LEMMA InsertFits ==
  ASSUME TablesFit, NEW name, NEW cells \in [1 .. WidthOf(name) -> Literals],
         Insert(name, cells)
  PROVE  TablesFit'
  <1> DEFINE table == tables[name]
             cols == table.cols
             fed == table.fed
             coerced == cells_coerce_to_columns(cols, cells)
             row == WithDefaults(cols, coerced)
  <1>1. /\ name \in DOMAIN tables /\ NoMissing(cols, row)
        /\ constraints_check_new_row(table, row)
        /\ \A c \in DOMAIN cells : CanCoerce(cells[c], cols[c].type)
        /\ tables' = [tables EXCEPT ![name].rows = Append(@, row)]
    BY DEF Insert
  <1>2. /\ ColumnsFit(cols) /\ RowsFit(cols, table.rows, fed) /\ fed \in BOOLEAN
        /\ table = [cols |-> cols, rows |-> table.rows, fed |-> fed]
    BY <1>1, TableParts
  <1>3. DOMAIN cells = DOMAIN cols /\ \A c \in DOMAIN cells : cells[c] \in LiteralCells
    BY <1>1, <1>2, SchemaConstants DEF WidthOf, ColumnsFit
  <1>4. \A c \in DOMAIN cols : cols[c].type \in ColumnTypes
    <2>1. \A c \in DOMAIN cols : cols[c] \in Columns
      BY <1>2 DEF ColumnsFit
    <2>2. QED
      BY <2>1 DEF Columns
  <1>5. \A c \in DOMAIN cols : /\ coerced[c] \in Cells
                               /\ ~fed => Dated(cols[c].type, coerced[c])
    <2>1. \A c \in DOMAIN cols : coerced[c] = cell_coerce_to_column(cells[c], cols[c].type)
      BY DEF cells_coerce_to_columns
    <2>2. QED
      BY <1>1, <1>3, <1>4, <2>1, CoercedFits
  <1> HIDE DEF table
  <1>6. Differs(cols, table.rows, row)
    BY <1>1, CheckedDiffers
  <1> HIDE DEF cols, fed, coerced
  <1>7. RowFits(cols, row, fed)
    BY <1>1, <1>2, <1>5, DefaultsFit
  <1> HIDE DEF row
  <1>8. RowsFit(cols, Append(table.rows, row), fed)
    BY <1>2, <1>6, <1>7, AppendFits
  <1>9. [table EXCEPT !.rows = Append(@, row)] =
          [cols |-> cols, rows |-> Append(table.rows, row), fed |-> fed]
    BY <1>2
  <1>10. tables' = [tables EXCEPT ![name] =
                      [cols |-> cols, rows |-> Append(table.rows, row), fed |-> fed]]
    <2>1. tables' = [tables EXCEPT ![name] = [table EXCEPT !.rows = Append(@, row)]]
      BY <1>1 DEF table
    <2>2. QED
      BY <1>9, <2>1
  <1>11. QED
    BY <1>1, <1>2, <1>8, <1>10, RowsChangeFits DEF cols, fed, table

LEMMA UpdateFits ==
  ASSUME TablesFit, NEW name, NEW column, NEW lit \in Literals, NEW matched,
         execute_update(name, column, lit, matched)
  PROVE  TablesFit'
  <1> DEFINE table == tables[name]
             cols == table.cols
             old == table.rows
             fed == table.fed
  <1>1. name \in DOMAIN tables
    BY DEF execute_update
  <1>2. PICK c \in DOMAIN cols :
          /\ CanCoerce(lit, cols[c].type)
          /\ LET cell == cell_coerce_to_column(lit, cols[c].type)
                 rows == [r \in DOMAIN old |-> IF r \in matched THEN [old[r] EXCEPT ![c] = cell]
                                               ELSE old[r]]
             IN  /\ constraints_check_row_set(cols, rows)
                 /\ tables' = [tables EXCEPT ![name].rows = rows]
    BY DEF execute_update
  <1>3. /\ ColumnsFit(cols) /\ RowsFit(cols, old, fed) /\ fed \in BOOLEAN
        /\ table = [cols |-> cols, rows |-> old, fed |-> fed]
    BY <1>1, TableParts
  <1> DEFINE cell == cell_coerce_to_column(lit, cols[c].type)
             rows == [r \in DOMAIN old |-> IF r \in matched THEN [old[r] EXCEPT ![c] = cell]
                                           ELSE old[r]]
  <1>4. constraints_check_row_set(cols, rows) /\ tables' = [tables EXCEPT ![name].rows = rows]
    BY <1>2
  <1>5. cell \in Cells /\ Dated(cols[c].type, cell)
    <2>1. cols[c] \in Columns
      BY <1>3 DEF ColumnsFit
    <2>2. cols[c].type \in ColumnTypes /\ lit \in LiteralCells
      BY <2>1, SchemaConstants DEF Columns
    <2>3. QED
      BY <1>2, <2>2, CoercedFits
  <1>6. /\ DOMAIN rows = DOMAIN old
        /\ \A r \in DOMAIN old :
             rows[r] = IF r \in matched THEN [old[r] EXCEPT ![c] = cell] ELSE old[r]
    OBVIOUS
  <1>7. rows = [r \in DOMAIN old |-> rows[r]]
    OBVIOUS
  <1>8. tables' = [tables EXCEPT ![name] = [cols |-> cols, rows |-> rows, fed |-> fed]]
    <2> HIDE DEF rows
    <2>1. tables' = [tables EXCEPT ![name] = [table EXCEPT !.rows = rows]]
      BY <1>4
    <2>2. [table EXCEPT !.rows = rows] = [cols |-> cols, rows |-> rows, fed |-> fed]
      BY <1>3
    <2>3. QED
      BY <2>1, <2>2
  <1> HIDE DEF table, cols, old, fed, cell, rows
  <1>9. ASSUME NEW r \in DOMAIN old
        PROVE  /\ DOMAIN rows[r] = DOMAIN cols /\ rows[r] \in Seq(Cells)
               /\ \A d \in DOMAIN cols : CellFits(cols[d], rows[r][d], fed)
    <2>1. /\ old[r] \in Seq(Cells) /\ DOMAIN old[r] = DOMAIN cols
          /\ \A d \in DOMAIN cols : CellFits(cols[d], old[r][d], fed)
      BY <1>3, <1>9 DEF RowsFit, RowFits
    <2>2. \A d \in DOMAIN cols : Required(cols[d]) => ~IsNull(rows[r][d])
      BY <1>4, <1>6, <1>9 DEF constraints_check_row_set, NoMissing
    <2>3. CASE r \in matched
      <3>1. rows[r] = [old[r] EXCEPT ![c] = cell]
        BY <1>6, <1>9, <2>3
      <3>2. /\ rows[r] \in Seq(Cells) /\ DOMAIN rows[r] = DOMAIN cols
            /\ \A d \in DOMAIN cols : rows[r][d] = IF d = c THEN cell ELSE old[r][d]
        BY <1>5, <2>1, <3>1
      <3>3. QED
        BY <1>5, <2>1, <2>2, <3>2 DEF CellFits
    <2>4. CASE r \notin matched
      BY <1>6, <1>9, <2>1, <2>4
    <2>5. QED
      BY <2>3, <2>4
  <1>10. rows \in Seq(Seq(Cells))
    <2>1. DOMAIN old = 1 .. Len(old) /\ Len(old) \in Nat
      BY <1>3 DEF RowsFit
    <2>2. QED
      BY <1>7, <1>9, <2>1
  <1>11. KeysDiffer(cols, rows)
    <2>1. SUFFICES ASSUME NEW d \in DOMAIN cols, Keys(cols[d]),
                          NEW i \in DOMAIN old, NEW j \in DOMAIN old, i # j
                   PROVE  ~Conflict(rows[i][d], rows[j][d])
      BY <1>6 DEF KeysDiffer
    <2>2. \A a, b \in DOMAIN old : a < b => ~Conflict(rows[a][d], rows[b][d])
      BY <1>4, <1>6, <2>1 DEF constraints_check_row_set
    <2>3. rows[i][d] \in Cells /\ rows[j][d] \in Cells
      BY <1>9, <2>1 DEF CellFits
    <2>4. i < j \/ j < i
      BY <1>3, <2>1 DEF RowsFit
    <2>5. QED
      BY <2>2, <2>3, <2>4, ConflictSymmetric
  <1>12. RowsFit(cols, rows, fed)
    BY <1>6, <1>9, <1>10, <1>11 DEF RowsFit, RowFits
  <1>13. QED
    BY <1>1, <1>3, <1>8, <1>12, RowsChangeFits DEF table, cols, fed

-----------------------------------------------------------------------------
(* INSERT ... SELECT.                                                        *)

LEMMA PickedTyped ==
  ASSUME NEW cols, ColumnsFit(cols), NEW source, ColumnsFit(source.cols), NEW cells,
         \A i \in DOMAIN source.cols : cells[i] \in Cells
  PROVE  \A c \in DOMAIN cols : Picked(cols, source, cells)[c] \in Cells
  <1> SUFFICES ASSUME NEW c \in DOMAIN cols PROVE Picked(cols, source, cells)[c] \in Cells
    OBVIOUS
  <1> DEFINE at == {i \in DOMAIN source.cols : source.cols[i].name = cols[c].name}
  <1>1. Picked(cols, source, cells)[c] = IF at = {} THEN ZeroCell(cols[c].type) ELSE cells[Min(at)]
    BY DEF Picked
  <1>2. ZeroCell(cols[c].type) \in Cells
    <2>1. cols[c] \in Columns
      BY DEF ColumnsFit
    <2>2. cols[c].type \in ColumnTypes
      BY <2>1 DEF Columns
    <2>3. QED
      BY <2>2 DEF ZeroCell, Cells
  <1>3. ASSUME at # {} PROVE cells[Min(at)] \in Cells
    <2>1. at \in SUBSET Nat
      BY DEF ColumnsFit
    <2>2. Min(at) \in at
      BY <1>3, <2>1, LeastMember
    <2>3. QED
      BY <2>2
  <1>4. QED
    BY <1>1, <1>2, <1>3

\* rows and the first k - 1 of new.
UpTo(rows, new, k) == rows \o SubSeq(new, 1, k - 1)

LEMMA UpToGrows ==
  ASSUME NEW S, NEW rows \in Seq(S), NEW new \in Seq(S), NEW k \in 1 .. Len(new)
  PROVE  UpTo(rows, new, k + 1) = Append(UpTo(rows, new, k), new[k])
  <1> DEFINE a == SubSeq(new, 1, k - 1)
             b == SubSeq(new, 1, k)
             x == new[k]
  <1>1. Len(new) \in Nat /\ k \in Nat /\ k \in Int /\ x \in S
    OBVIOUS
  <1>2. /\ a \in Seq(S) /\ Len(a) = k - 1
        /\ \A i \in 1 .. k - 1 : a[i] = new[i]
    BY <1>1
  <1>3. /\ b \in Seq(S) /\ Len(b) = k
        /\ \A i \in 1 .. k : b[i] = new[i]
    BY <1>1
  <1> HIDE DEF a, b, x
  <1>4. b = Append(a, x)
    <2>1. Append(a, x) \in Seq(S) /\ Len(Append(a, x)) = k
      BY <1>1, <1>2
    <2>2. \A i \in 1 .. k : Append(a, x)[i] = b[i]
      <3>1. SUFFICES ASSUME NEW i \in 1 .. k PROVE Append(a, x)[i] = b[i]
        OBVIOUS
      <3>2. CASE i = k
        BY <1>1, <1>2, <1>3, <3>2 DEF x
      <3>3. CASE i # k
        <4>1. i \in 1 .. k - 1
          BY <1>1, <3>3
        <4>2. QED
          BY <1>1, <1>2, <1>3, <4>1
      <3>4. QED
        BY <3>2, <3>3
    <2>3. QED
      BY <1>3, <2>1, <2>2, SeqEqual
  <1>5. rows \o Append(a, x) = Append(rows \o a, x)
    BY <1>1, <1>2, AppendIsConcat, ConcatAssociative
  <1>6. k + 1 - 1 = k
    BY <1>1
  <1>7. QED
    BY <1>4, <1>5, <1>6 DEF UpTo, a, b, x

LEMMA AcceptedFits ==
  ASSUME NEW table, table = [cols |-> table.cols, rows |-> table.rows, fed |-> table.fed],
         ColumnsFit(table.cols), NEW fed, RowsFit(table.cols, table.rows, fed),
         NEW S, NEW rows \in Seq(S),
         \A r \in DOMAIN rows : \A c \in DOMAIN table.cols :
            rows[r][c] \in Cells /\ (~fed => Dated(table.cols[c].type, rows[r][c]))
  PROVE  RowsFit(table.cols, Accepted(table, rows), fed)
  <1> DEFINE cols == table.cols
             old == table.rows
             new == [r \in DOMAIN rows |-> WithDefaults(cols, rows[r])]
             n == Len(rows)
             refused == {r \in DOMAIN rows :
                          \/ ~NoMissing(cols, new[r])
                          \/ ~constraints_check_new_row(
                                 [table EXCEPT !.rows = UpTo(old, new, r)], new[r])}
             stop == Min(refused \cup {n + 1})
  <1>1. Accepted(table, rows) = UpTo(old, new, stop)
    BY DEF Accepted, UpTo
  <1>2. DOMAIN rows = 1 .. n /\ n \in Nat
    OBVIOUS
  <1>3. ASSUME NEW r \in 1 .. n
        PROVE  /\ new[r] = WithDefaults(cols, rows[r])
               /\ \A c \in DOMAIN cols :
                    rows[r][c] \in Cells /\ (~fed => Dated(cols[c].type, rows[r][c]))
    BY <1>2
  <1>4. stop \in 1 .. n + 1 /\ \A r \in 1 .. n : r < stop => r \notin refused
    <2> DEFINE T == refused \cup {n + 1}
    <2>1. refused \subseteq 1 .. n
      BY <1>2
    <2>2. stop = Min(T)
      OBVIOUS
    <2> HIDE DEF refused, stop, n
    <2>3. T \in SUBSET Nat /\ T # {}
      BY <1>2, <2>1
    <2>4. Min(T) \in T /\ \A r \in T : Min(T) <= r
      BY <2>3, LeastMember
    <2>5. T \subseteq 1 .. n + 1
      BY <1>2, <2>1
    <2>6. stop \in 1 .. n + 1 /\ \A r \in refused : stop <= r
      BY <2>2, <2>4, <2>5
    <2>7. QED
      BY <1>2, <2>1, <2>6
  <1>5. ASSUME NEW r \in 1 .. n, r < stop
        PROVE  /\ NoMissing(cols, new[r])
               /\ constraints_check_new_row([table EXCEPT !.rows = UpTo(old, new, r)], new[r])
    BY <1>2, <1>4, <1>5
  <1> HIDE DEF stop, refused
  <1>6. new \in Seq(Seq(Cells)) /\ Len(new) = n
    <2>1. \A r \in 1 .. n : new[r] \in Seq(Cells)
      BY <1>3, DefaultsTyped
    <2>2. new = [r \in 1 .. n |-> new[r]]
      BY <1>2
    <2> HIDE DEF new
    <2>3. QED
      BY <1>2, <2>1, <2>2
  <1> HIDE DEF new, n
  <1>7. old \in Seq(Seq(Cells)) /\ UpTo(old, new, 1) = old
    <2>1. old \in Seq(Seq(Cells))
      BY DEF RowsFit
    <2>2. SubSeq(new, 1, 1 - 1) = <<>>
      BY <1>6
    <2>3. QED
      BY <2>1, <2>2, ConcatEmptySeq DEF UpTo
  <1> HIDE DEF cols, old
  <1>8. ASSUME NEW r \in 1 .. n, r < stop, RowsFit(cols, UpTo(old, new, r), fed)
        PROVE  RowsFit(cols, UpTo(old, new, r + 1), fed)
    <2>1. RowFits(cols, new[r], fed)
      BY <1>3, <1>5, <1>8, DefaultsFit DEF cols
    <2>2. Differs(cols, UpTo(old, new, r), new[r])
      <3> DEFINE w == [table EXCEPT !.rows = UpTo(old, new, r)]
      <3>1. w.cols = cols /\ w.rows = UpTo(old, new, r)
        BY DEF cols
      <3>2. constraints_check_new_row(w, new[r])
        BY <1>5, <1>8
      <3> HIDE DEF w
      <3>3. QED
        BY <3>1, <3>2, CheckedDiffers
    <2>3. UpTo(old, new, r + 1) = Append(UpTo(old, new, r), new[r])
      BY <1>6, <1>7, UpToGrows
    <2>4. QED
      BY <1>8, <2>1, <2>2, <2>3, AppendFits
  <1>9. RowsFit(cols, UpTo(old, new, stop), fed)
    <2> DEFINE T == {k \in 1 .. stop : ~RowsFit(cols, UpTo(old, new, k), fed)}
    <2>1. T \in SUBSET Nat /\ stop \in 1 .. n + 1 /\ n \in Nat
      BY <1>2, <1>4 DEF n
    <2>2. ASSUME T # {} PROVE FALSE
      <3>1. PICK k \in T : \A j \in T : k <= j
        BY <2>1, <2>2, LeastMember
      <3>2. k # 1
        BY <1>7, <3>1 DEF cols, old
      <3>3. k - 1 \in 1 .. n /\ k - 1 < stop /\ k - 1 \in 1 .. stop /\ k - 1 + 1 = k
        BY <2>1, <3>1, <3>2
      <3>4. k - 1 \notin T
        BY <2>1, <3>1, <3>3
      <3>5. RowsFit(cols, UpTo(old, new, k - 1), fed)
        BY <3>3, <3>4
      <3>6. RowsFit(cols, UpTo(old, new, k), fed)
        BY <1>8, <3>3, <3>5
      <3>7. QED
        BY <3>1, <3>6
    <2>3. stop \in 1 .. stop
      BY <2>1
    <2>4. QED
      BY <2>2, <2>3
  <1>10. QED
    BY <1>1, <1>9 DEF cols

LEMMA FedFits ==
  ASSUME NEW cols, NEW rows, NEW fed, NEW fed2, fed => fed2, RowsFit(cols, rows, fed)
  PROVE  RowsFit(cols, rows, fed2)
  <1>1. \A r \in DOMAIN rows : RowFits(cols, rows[r], fed2)
    BY DEF RowsFit, RowFits, CellFits
  <1>2. QED
    BY <1>1 DEF RowsFit

LEMMA InsertSelectFits ==
  ASSUME TablesFit, NEW name, NEW source, execute_insert_select(name, source)
  PROVE  TablesFit'
  <1> DEFINE table == tables[name]
             cols == table.cols
             from == tables[source]
             rows == [r \in DOMAIN from.rows |-> Picked(cols, from, from.rows[r])]
             taken == \E c \in DOMAIN cols : IsDate(cols[c].type)
             fed == table.fed \/ taken
             after == Accepted(table, rows)
             S == {rows[r] : r \in DOMAIN rows}
  <1>1. /\ name \in DOMAIN tables /\ source \in DOMAIN tables
        /\ tables' = [tables EXCEPT ![name].rows = after, ![name].fed = @ \/ taken]
    BY DEF execute_insert_select
  <1>2. /\ ColumnsFit(cols) /\ RowsFit(cols, table.rows, table.fed) /\ table.fed \in BOOLEAN
        /\ table = [cols |-> cols, rows |-> table.rows, fed |-> table.fed]
    BY <1>1, TableParts
  <1>3. ColumnsFit(from.cols) /\ RowsFit(from.cols, from.rows, from.fed)
    BY <1>1, TableParts
  <1>4. /\ DOMAIN rows = DOMAIN from.rows
        /\ \A r \in DOMAIN rows : rows[r] = Picked(cols, from, from.rows[r])
    OBVIOUS
  <1>5. rows \in Seq(S)
    <2>1. DOMAIN from.rows = 1 .. Len(from.rows) /\ Len(from.rows) \in Nat
      BY <1>3 DEF RowsFit
    <2>2. rows \in [1 .. Len(from.rows) -> S]
      BY <2>1
    <2>3. QED
      BY <2>1, <2>2
  <1>6. tables' = [tables EXCEPT ![name] = [cols |-> cols, rows |-> after, fed |-> fed]]
    <2>1. tables' = [tables EXCEPT ![name] = [table EXCEPT !.rows = after, !.fed = @ \/ taken]]
      <3> HIDE DEF after, taken
      <3>1. QED
        BY <1>1
    <2>2. [table EXCEPT !.rows = after].fed = table.fed
      <3> HIDE DEF after, table
      <3>1. QED
        BY <1>2
    <2>3. tables' = [tables EXCEPT ![name] = [table EXCEPT !.rows = after, !.fed = fed]]
      <3> HIDE DEF after, taken, table
      <3>1. QED
        BY <2>1, <2>2
    <2> HIDE DEF after, fed, table
    <2>4. [table EXCEPT !.rows = after, !.fed = fed] =
            [cols |-> cols, rows |-> after, fed |-> fed]
      <3> DEFINE old == table.rows
                 was == table.fed
      <3>1. table = [cols |-> cols, rows |-> old, fed |-> was]
        BY <1>2
      <3> HIDE DEF cols, old, was
      <3> DEFINE w == [table EXCEPT !.rows = after]
      <3>2. w = [cols |-> cols, rows |-> after, fed |-> was]
        BY <3>1
      <3> HIDE DEF w
      <3>3. [w EXCEPT !.fed = fed] = [cols |-> cols, rows |-> after, fed |-> fed]
        BY <3>2
      <3>4. QED
        BY <3>3 DEF w
    <2>5. QED
      BY <2>3, <2>4
  <1>8. fed \in BOOLEAN /\ (table.fed => fed)
    BY <1>2
  <1> HIDE DEF S, rows
  <1>9. ASSUME NEW r \in DOMAIN rows, NEW c \in DOMAIN cols
        PROVE  rows[r][c] \in Cells
    <2>1. \A i \in DOMAIN from.cols : from.rows[r][i] \in Cells
      BY <1>3, <1>4, <1>9 DEF RowsFit, RowFits, CellFits
    <2> HIDE DEF cols, from
    <2>2. Picked(cols, from, from.rows[r])[c] \in Cells
      BY <1>2, <1>3, <1>9, <2>1, PickedTyped
    <2>3. QED
      BY <1>4, <1>9, <2>2
  <1>10. ASSUME NEW r \in DOMAIN rows, NEW c \in DOMAIN cols, ~fed
         PROVE  Dated(cols[c].type, rows[r][c])
    BY <1>10 DEF Dated
  <1>11. RowsFit(cols, table.rows, fed)
    <2> HIDE DEF fed, cols, table
    <2>1. QED
      BY <1>2, <1>8, FedFits
  <1>12. RowsFit(cols, after, fed)
    <2> HIDE DEF fed
    <2>1. \A r \in DOMAIN rows : \A c \in DOMAIN cols :
             rows[r][c] \in Cells /\ (~fed => Dated(cols[c].type, rows[r][c]))
      BY <1>9, <1>10
    <2> HIDE DEF table
    <2>2. QED
      BY <1>2, <1>5, <1>11, <2>1, AcceptedFits
  <1> HIDE DEF after, fed
  <1>13. name \in DOMAIN tables
    BY <1>1
  <1>14. QED
    BY <1>6, <1>8, <1>12, <1>13, RowsChangeFits

-----------------------------------------------------------------------------
(* DELETE.                                                                   *)

LEMMA DeleteFits ==
  ASSUME TablesFit, NEW name, NEW matched, execute_delete(name, matched)
  PROVE  TablesFit'
  <1> DEFINE table == tables[name]
             cols == table.cols
             old == table.rows
             fed == table.fed
             left == DOMAIN old \ matched
             n == Cardinality(left)
  <1>1. name \in DOMAIN tables
    BY DEF execute_delete
  <1>2. PICK kept \in Ordered(left) :
          tables' = [tables EXCEPT ![name].rows = [i \in DOMAIN kept |-> old[kept[i]]]]
    BY DEF execute_delete
  <1> DEFINE rows == [i \in DOMAIN kept |-> old[kept[i]]]
  <1>3. /\ ColumnsFit(cols) /\ RowsFit(cols, old, fed) /\ fed \in BOOLEAN
        /\ table = [cols |-> cols, rows |-> old, fed |-> fed]
    BY <1>1, TableParts
  <1>4. n \in Nat
    <2>1. DOMAIN old = 1 .. Len(old) /\ Len(old) \in Nat
      BY <1>3 DEF RowsFit
    <2>2. IsFiniteSet(DOMAIN old)
      BY <2>1, FS_Interval
    <2>3. IsFiniteSet(left)
      BY <2>2, FS_Subset
    <2>4. QED
      BY <2>3, FS_CardinalityType
  <1>5. /\ DOMAIN kept = 1 .. n
        /\ \A i \in DOMAIN kept : kept[i] \in DOMAIN old
        /\ \A i, j \in DOMAIN kept : i < j => kept[i] < kept[j]
    BY DEF Ordered
  <1>6. /\ DOMAIN rows = DOMAIN kept
        /\ \A i \in DOMAIN rows : rows[i] = old[kept[i]]
        /\ rows = [i \in DOMAIN kept |-> rows[i]]
    OBVIOUS
  <1>7. tables' = [tables EXCEPT ![name] = [cols |-> cols, rows |-> rows, fed |-> fed]]
    <2> HIDE DEF rows
    <2>1. tables' = [tables EXCEPT ![name] = [table EXCEPT !.rows = rows]]
      BY <1>2 DEF rows
    <2>2. [table EXCEPT !.rows = rows] = [cols |-> cols, rows |-> rows, fed |-> fed]
      BY <1>3
    <2>3. QED
      BY <2>1, <2>2
  <1> HIDE DEF rows, left, n, old, cols, fed, table
  <1>8. rows \in Seq(Seq(Cells)) /\ \A i \in DOMAIN rows : RowFits(cols, rows[i], fed)
    <2>1. \A i \in DOMAIN rows : rows[i] \in Seq(Cells) /\ RowFits(cols, rows[i], fed)
      BY <1>3, <1>5, <1>6 DEF RowsFit, RowFits
    <2>2. rows \in Seq(Seq(Cells))
      BY <1>4, <1>5, <1>6, <2>1
    <2>3. QED
      BY <2>1, <2>2
  <1>9. KeysDiffer(cols, rows)
    <2>1. SUFFICES ASSUME NEW c \in DOMAIN cols, Keys(cols[c]),
                          NEW i \in DOMAIN kept, NEW j \in DOMAIN kept, i # j
                   PROVE  ~Conflict(old[kept[i]][c], old[kept[j]][c])
      BY <1>6 DEF KeysDiffer
    <2>2. kept[i] \in DOMAIN old /\ kept[j] \in DOMAIN old
      BY <1>5
    <2>3. kept[i] \in Nat /\ kept[j] \in Nat
      BY <1>3, <2>2 DEF RowsFit
    <2>4. i < j \/ j < i
      BY <1>4, <1>5, <2>1
    <2>5. kept[i] < kept[j] \/ kept[j] < kept[i]
      BY <1>5, <2>4
    <2>6. kept[i] # kept[j]
      BY <2>3, <2>5
    <2>7. QED
      BY <1>3, <2>1, <2>2, <2>6 DEF RowsFit, KeysDiffer
  <1>10. RowsFit(cols, rows, fed)
    BY <1>8, <1>9 DEF RowsFit
  <1>11. QED
    BY <1>1, <1>3, <1>7, <1>10, RowsChangeFits DEF table, cols, fed

-----------------------------------------------------------------------------
(* ALTER TABLE.                                                              *)

LEMMA AlterFits ==
  ASSUME TablesFit, NEW name \in DOMAIN tables, NEW cols, NEW rows,
         ColumnsFit(cols), RowsFit(cols, rows, tables[name].fed),
         WithTable(name, [tables[name] EXCEPT !.cols = cols, !.rows = rows])
  PROVE  TablesFit'
  <1> DEFINE table == tables[name]
             before == table.cols
             old == table.rows
             fed == table.fed
             w == [table EXCEPT !.cols = cols]
             new == [cols |-> cols, rows |-> rows, fed |-> fed]
  <1>1. table = [cols |-> before, rows |-> old, fed |-> fed] /\ fed \in BOOLEAN
    BY TableParts
  <1>2. WithTable(name, [w EXCEPT !.rows = rows]) /\ RowsFit(cols, rows, fed)
    OBVIOUS
  <1> HIDE DEF before, old, fed
  <1>3. w = [cols |-> cols, rows |-> old, fed |-> fed]
    <2> HIDE DEF table
    <2>1. QED
      BY <1>1
  <1> HIDE DEF w
  <1>4. [w EXCEPT !.rows = rows] = new
    BY <1>3
  <1>5. TableFits(new)
    BY <1>1, <1>2 DEF TableFits
  <1> HIDE DEF new
  <1>6. WithTable(name, new)
    BY <1>2, <1>4
  <1>7. QED
    BY <1>5, <1>6, WithTableFits

LEMMA AddColumnFits ==
  ASSUME TablesFit, NEW name, NEW column \in NewColumns,
         execute_alter_add_column(name, column)
  PROVE  TablesFit'
  <1> DEFINE table == tables[name]
             cols == table.cols
             old == table.rows
             fed == table.fed
             n == Len(cols)
             col == Stored(column)
             cols2 == Append(cols, col)
             rows2 == [r \in DOMAIN old |-> Append(old[r], col.default)]
  <1>1. /\ name \in DOMAIN tables /\ DefaultFits(column)
        /\ BackfillFits(col, Len(old))
        /\ WithTable(name, [table EXCEPT !.cols = cols2, !.rows = rows2])
    BY DEF execute_alter_add_column
  <1>2. ColumnsFit(cols) /\ RowsFit(cols, old, fed)
    BY <1>1, TableParts
  <1>3. col \in Columns /\ ColumnFits(col) /\ col.default \in Cells
    BY <1>1, SchemaConstants, StoredFits DEF Columns
  <1>4. /\ n \in Nat /\ DOMAIN cols = 1 .. n /\ cols \in Seq(Columns)
        /\ \A c \in 1 .. n : ColumnFits(cols[c])
    BY <1>2 DEF ColumnsFit
  <1>5. /\ DOMAIN rows2 = DOMAIN old
        /\ \A r \in DOMAIN old : rows2[r] = Append(old[r], col.default)
        /\ rows2 = [r \in DOMAIN old |-> rows2[r]]
    OBVIOUS
  <1>6. old \in Seq(Seq(Cells)) /\ DOMAIN old = 1 .. Len(old) /\ Len(old) \in Nat
    BY <1>2 DEF RowsFit
  <1> HIDE DEF col
  <1>7. /\ cols2 \in Seq(Columns) /\ DOMAIN cols2 = 1 .. n + 1 /\ cols2[n + 1] = col
        /\ \A c \in 1 .. n : cols2[c] = cols[c]
    <2> HIDE DEF cols
    <2>1. QED
      BY <1>3, <1>4 DEF n
  <1> HIDE DEF table, cols, old, fed, n, cols2, rows2
  <1>8. ColumnsFit(cols2)
    <2>1. SUFFICES ASSUME NEW c \in 1 .. n + 1 PROVE ColumnFits(cols2[c])
      BY <1>7 DEF ColumnsFit
    <2>2. CASE c = n + 1
      BY <1>3, <1>7, <2>2
    <2>3. CASE c # n + 1
      <3>1. c \in 1 .. n
        BY <1>4, <2>3
      <3>2. QED
        BY <1>4, <1>7, <3>1
    <2>4. QED
      BY <2>2, <2>3
  <1>9. ASSUME NEW r \in DOMAIN old
        PROVE  /\ rows2[r] \in Seq(Cells) /\ DOMAIN rows2[r] = 1 .. n + 1
               /\ rows2[r][n + 1] = col.default
               /\ \A c \in 1 .. n : rows2[r][c] = old[r][c]
               /\ \A c \in 1 .. n : CellFits(cols[c], old[r][c], fed)
    <2> DEFINE row == old[r]
               cell == col.default
    <2>1. row \in Seq(Cells) /\ DOMAIN row = 1 .. n
      BY <1>2, <1>4, <1>9 DEF RowsFit, RowFits
    <2>2. rows2[r] = Append(row, cell) /\ cell \in Cells
      BY <1>3, <1>5, <1>9
    <2>3. \A c \in 1 .. n : CellFits(cols[c], row[c], fed)
      BY <1>2, <1>4, <1>9 DEF RowsFit, RowFits
    <2> HIDE DEF row, cell
    <2>4. Len(row) = n
      BY <1>4, <2>1
    <2>5. /\ Append(row, cell) \in Seq(Cells) /\ DOMAIN Append(row, cell) = 1 .. n + 1
          /\ Append(row, cell)[n + 1] = cell
          /\ \A c \in 1 .. n : Append(row, cell)[c] = row[c]
      BY <1>4, <2>1, <2>2, <2>4
    <2>6. QED
      BY <2>2, <2>3, <2>5 DEF row, cell
  <1>10. ASSUME NEW r \in DOMAIN old PROVE CellFits(col, col.default, fed)
    <2>1. Len(old) > 0
      BY <1>6, <1>10
    <2>2. ~Has(col, "default") => ~Required(col)
      BY <1>1, <2>1 DEF BackfillFits
    <2>3. QED
      BY <1>3, <2>2 DEF CellFits, ColumnFits
  <1>11. \A r \in DOMAIN old : RowFits(cols2, rows2[r], fed)
    <2>1. SUFFICES ASSUME NEW r \in DOMAIN old, NEW c \in 1 .. n + 1
                   PROVE  CellFits(cols2[c], rows2[r][c], fed)
      BY <1>7, <1>9 DEF RowFits
    <2>2. CASE c = n + 1
      BY <1>7, <1>9, <1>10, <2>2
    <2>3. CASE c # n + 1
      <3>1. c \in 1 .. n
        BY <1>4, <2>3
      <3>2. QED
        BY <1>7, <1>9, <3>1
    <2>4. QED
      BY <2>2, <2>3
  <1>12. KeysDiffer(cols2, rows2)
    <2>1. SUFFICES ASSUME NEW c \in 1 .. n + 1, Keys(cols2[c]),
                          NEW i \in DOMAIN old, NEW j \in DOMAIN old, i # j
                   PROVE  ~Conflict(rows2[i][c], rows2[j][c])
      BY <1>5, <1>7 DEF KeysDiffer
    <2>2. CASE c = n + 1
      <3>1. Len(old) > 1
        BY <1>6, <2>1
      <3>2. ~(Has(col, "default") /\ ~IsNull(col.default))
        BY <1>1, <1>7, <2>1, <2>2, <3>1 DEF BackfillFits
      <3>3. IsNull(col.default)
        BY <1>3, <3>2, NullFits DEF ColumnFits
      <3>4. QED
        BY <1>9, <2>2, <3>3 DEF Conflict
    <2>3. CASE c # n + 1
      <3>1. c \in 1 .. n
        BY <1>4, <2>3
      <3>2. Keys(cols[c]) /\ c \in DOMAIN cols
        BY <1>4, <1>7, <2>1, <3>1
      <3>3. ~Conflict(old[i][c], old[j][c])
        BY <1>2, <2>1, <3>2 DEF RowsFit, KeysDiffer
      <3>4. QED
        BY <1>9, <3>1, <3>3
    <2>4. QED
      BY <2>2, <2>3
  <1>13. rows2 \in Seq(Seq(Cells))
    BY <1>5, <1>6, <1>9
  <1>14. RowsFit(cols2, rows2, fed)
    BY <1>5, <1>11, <1>12, <1>13 DEF RowsFit
  <1>15. name \in DOMAIN tables
    BY <1>1
  <1>16. QED
    BY <1>1, <1>8, <1>14, <1>15, AlterFits DEF table, fed

\* Where the item at place i stands before place k is taken out.
Skip(k, i) == IF i < k THEN i ELSE i + 1

LEMMA Removed ==
  ASSUME NEW S, NEW s \in Seq(S), NEW k \in 1 .. Len(s)
  PROVE  /\ RemoveAt(s, k) \in Seq(S)
         /\ DOMAIN RemoveAt(s, k) = 1 .. Len(s) - 1
         /\ \A i \in 1 .. Len(s) - 1 : /\ Skip(k, i) \in 1 .. Len(s)
                                       /\ RemoveAt(s, k)[i] = s[Skip(k, i)]
  <1> DEFINE n == Len(s)
             a == SubSeq(s, 1, k - 1)
             b == SubSeq(s, k + 1, n)
  <1>1. n \in Nat /\ k \in 1 .. n /\ \A i \in 1 .. n : s[i] \in S
    OBVIOUS
  <1> HIDE DEF n
  <1>2. a \in Seq(S) /\ Len(a) = k - 1 /\ \A i \in 1 .. k - 1 : a[i] = s[i]
    <2>1. /\ a \in Seq(S) /\ Len(a) = IF 1 <= k - 1 THEN k - 1 - 1 + 1 ELSE 0
          /\ \A i \in 1 .. k - 1 - 1 + 1 : a[i] = s[1 + i - 1]
      BY <1>1, SubSeqProperties
    <2> HIDE DEF a
    <2>2. QED
      BY <1>1, <2>1
  <1>3. b \in Seq(S) /\ Len(b) = n - k /\ \A i \in 1 .. n - k : b[i] = s[k + i]
    <2>1. /\ b \in Seq(S) /\ Len(b) = IF k + 1 <= n THEN n - (k + 1) + 1 ELSE 0
          /\ \A i \in 1 .. n - (k + 1) + 1 : b[i] = s[k + 1 + i - 1]
      <3>1. k + 1 \in Int /\ n \in Int /\ \A i \in k + 1 .. n : s[i] \in S
        BY <1>1
      <3>2. QED
        BY <3>1, SubSeqProperties
    <2> HIDE DEF b
    <2>2. Len(b) = n - k /\ n - (k + 1) + 1 = n - k
      BY <1>1, <2>1
    <2>3. ASSUME NEW i \in 1 .. n - k PROVE b[i] = s[k + i]
      <3>1. k + 1 + i - 1 = k + i
        BY <1>1
      <3>2. QED
        BY <2>1, <2>2, <3>1
    <2>4. QED
      BY <2>1, <2>2, <2>3
  <1>4. RemoveAt(s, k) = a \o b
    BY DEF RemoveAt, n
  <1> HIDE DEF a, b
  <1>5. /\ a \o b \in Seq(S) /\ Len(a \o b) = Len(a) + Len(b)
        /\ \A i \in 1 .. Len(a) + Len(b) :
             (a \o b)[i] = IF i <= Len(a) THEN a[i] ELSE b[i - Len(a)]
    BY <1>2, <1>3, ConcatProperties
  <1>6. Len(a) + Len(b) = n - 1
    BY <1>1, <1>2, <1>3
  <1>7. ASSUME NEW i \in 1 .. n - 1
        PROVE  Skip(k, i) \in 1 .. n /\ (a \o b)[i] = s[Skip(k, i)]
    <2>1. CASE i < k
      <3>1. i \in 1 .. k - 1 /\ i \in 1 .. n /\ i <= Len(a)
        BY <1>1, <1>2, <2>1
      <3>2. QED
        BY <1>2, <1>5, <1>6, <2>1, <3>1 DEF Skip
    <2>2. CASE ~(i < k)
      <3>1. /\ i + 1 \in 1 .. n /\ ~(i <= Len(a)) /\ i - Len(a) \in 1 .. n - k
            /\ k + (i - Len(a)) = i + 1
        BY <1>1, <1>2, <2>2
      <3>2. (a \o b)[i] = b[i - Len(a)]
        BY <1>5, <1>6, <3>1
      <3>3. b[i - Len(a)] = s[i + 1]
        BY <1>3, <3>1
      <3>4. QED
        BY <2>2, <3>1, <3>2, <3>3 DEF Skip
    <2>3. QED
      BY <2>1, <2>2
  <1>8. DOMAIN (a \o b) = 1 .. n - 1
    BY <1>5, <1>6
  <1>9. QED
    BY <1>4, <1>5, <1>7, <1>8 DEF n

LEMMA DropColumnFits ==
  ASSUME TablesFit, NEW name, NEW column, execute_alter_drop_column(name, column)
  PROVE  TablesFit'
  <1> DEFINE table == tables[name]
             cols == table.cols
             old == table.rows
             fed == table.fed
             n == Len(cols)
  <1>1. name \in DOMAIN tables
    BY DEF execute_alter_drop_column
  <1>2. PICK k \in DOMAIN cols :
          WithTable(name, [table EXCEPT !.cols = RemoveAt(cols, k),
                                        !.rows = [r \in DOMAIN old |-> RemoveAt(old[r], k)]])
    BY DEF execute_alter_drop_column
  <1> DEFINE cols2 == RemoveAt(cols, k)
             rows2 == [r \in DOMAIN old |-> RemoveAt(old[r], k)]
  <1>3. ColumnsFit(cols) /\ RowsFit(cols, old, fed)
    BY <1>1, TableParts
  <1>4. /\ n \in Nat /\ DOMAIN cols = 1 .. n /\ cols \in Seq(Columns)
        /\ \A c \in 1 .. n : ColumnFits(cols[c])
    BY <1>3 DEF ColumnsFit
  <1>5. /\ DOMAIN rows2 = DOMAIN old
        /\ \A r \in DOMAIN old : rows2[r] = RemoveAt(old[r], k)
        /\ rows2 = [r \in DOMAIN old |-> rows2[r]]
    OBVIOUS
  <1>6. old \in Seq(Seq(Cells)) /\ DOMAIN old = 1 .. Len(old) /\ Len(old) \in Nat
    BY <1>3 DEF RowsFit
  <1>7. WithTable(name, [table EXCEPT !.cols = cols2, !.rows = rows2])
    BY <1>2
  <1>8. /\ cols2 \in Seq(Columns) /\ DOMAIN cols2 = 1 .. n - 1
        /\ \A c \in 1 .. n - 1 : Skip(k, c) \in 1 .. n /\ cols2[c] = cols[Skip(k, c)]
    <2> HIDE DEF cols
    <2>1. k \in 1 .. Len(cols)
      BY <1>4
    <2>2. QED
      BY <1>4, <2>1, Removed
  <1> HIDE DEF table, cols, old, fed, n, cols2, rows2
  <1>9. ColumnsFit(cols2)
    BY <1>4, <1>8 DEF ColumnsFit
  <1>10. ASSUME NEW r \in DOMAIN old
         PROVE  /\ rows2[r] \in Seq(Cells) /\ DOMAIN rows2[r] = 1 .. n - 1
                /\ \A c \in 1 .. n - 1 : rows2[r][c] = old[r][Skip(k, c)]
                /\ \A c \in 1 .. n : CellFits(cols[c], old[r][c], fed)
    <2> DEFINE row == old[r]
    <2>1. row \in Seq(Cells) /\ DOMAIN row = 1 .. n
      BY <1>3, <1>4, <1>10 DEF RowsFit, RowFits
    <2>2. \A c \in 1 .. n : CellFits(cols[c], row[c], fed)
      BY <1>3, <1>4, <1>10 DEF RowsFit, RowFits
    <2>3. rows2[r] = RemoveAt(row, k)
      BY <1>5, <1>10
    <2> HIDE DEF row
    <2>4. Len(row) = n /\ k \in 1 .. Len(row)
      BY <1>4, <2>1
    <2>5. /\ RemoveAt(row, k) \in Seq(Cells) /\ DOMAIN RemoveAt(row, k) = 1 .. Len(row) - 1
          /\ \A c \in 1 .. Len(row) - 1 : RemoveAt(row, k)[c] = row[Skip(k, c)]
      BY <2>1, <2>4, Removed
    <2>6. QED
      BY <2>2, <2>3, <2>4, <2>5 DEF row
  <1>11. \A r \in DOMAIN old : RowFits(cols2, rows2[r], fed)
    BY <1>8, <1>10 DEF RowFits
  <1>12. KeysDiffer(cols2, rows2)
    <2>1. SUFFICES ASSUME NEW c \in 1 .. n - 1, Keys(cols2[c]),
                          NEW i \in DOMAIN old, NEW j \in DOMAIN old, i # j
                   PROVE  ~Conflict(rows2[i][c], rows2[j][c])
      BY <1>5, <1>8 DEF KeysDiffer
    <2>2. Keys(cols[Skip(k, c)]) /\ Skip(k, c) \in DOMAIN cols
      BY <1>4, <1>8, <2>1
    <2>3. ~Conflict(old[i][Skip(k, c)], old[j][Skip(k, c)])
      BY <1>3, <2>1, <2>2 DEF RowsFit, KeysDiffer
    <2>4. QED
      BY <1>10, <2>3
  <1>13. rows2 \in Seq(Seq(Cells))
    BY <1>5, <1>6, <1>10
  <1>14. RowsFit(cols2, rows2, fed)
    BY <1>5, <1>11, <1>12, <1>13 DEF RowsFit
  <1>15. QED
    BY <1>1, <1>7, <1>9, <1>14, AlterFits DEF table, fed

-----------------------------------------------------------------------------
(* Whatever the schema and the statements are, the stored rows keep what the *)
(* schema declares: one cell per column, no NULL in a required column        *)
(* (constraints_check_new_row, constraints_check_row_set and the backfill of *)
(* ALTER TABLE ADD COLUMN), no two rows that agree on a UNIQUE or PRIMARY    *)
(* KEY column, and dates in canonical form wherever the coercion of INSERT   *)
(* and UPDATE was the only way in.                                           *)
THEOREM RowsStayFit == Spec => []RowsFitSchema
  <1>1. Init => TablesFit
    BY DEF Init, TablesFit
  <1>2. TablesFit /\ [Next]_vars => TablesFit'
    <2> SUFFICES ASSUME TablesFit, [Next]_vars PROVE TablesFit'
      OBVIOUS
    <2>1. ASSUME NEW d \in Declarations, CreateTable(d.name, d.cols) PROVE TablesFit'
      BY <2>1, CreateFits
    <2>2. ASSUME NEW name, DropTable(name) PROVE TablesFit'
      BY <2>2, DropFits
    <2>3. ASSUME NEW name, NEW col \in NewColumns, execute_alter_add_column(name, col)
          PROVE  TablesFit'
      BY <2>3, AddColumnFits
    <2>4. ASSUME NEW name, NEW column, execute_alter_drop_column(name, column)
          PROVE  TablesFit'
      BY <2>4, DropColumnFits
    <2>5. ASSUME UNCHANGED tables PROVE TablesFit'
      BY <2>5 DEF TablesFit
    <2>6. ASSUME NEW name, NEW select, execute_create_view(name, select) PROVE TablesFit'
      BY <2>5, <2>6 DEF execute_create_view
    <2>7. ASSUME NEW name, execute_drop_view(name) PROVE TablesFit'
      BY <2>5, <2>7 DEF execute_drop_view
    <2>8. ASSUME NEW name, NEW cells \in [1 .. WidthOf(name) -> Literals], Insert(name, cells)
          PROVE  TablesFit'
      BY <2>8, InsertFits
    <2>9. ASSUME NEW name, NEW source, execute_insert_select(name, source) PROVE TablesFit'
      BY <2>9, InsertSelectFits
    <2>10. ASSUME NEW name, NEW column, NEW lit \in Literals, NEW matched,
                  execute_update(name, column, lit, matched)
           PROVE  TablesFit'
      BY <2>10, UpdateFits
    <2>11. ASSUME NEW name, NEW matched, execute_delete(name, matched) PROVE TablesFit'
      BY <2>11, DeleteFits
    <2>12. CASE Ddl
      BY <2>1, <2>2, <2>3, <2>4, <2>6, <2>7, <2>12 DEF Ddl
    <2>13. CASE Dml
      BY <2>8, <2>9, <2>10, <2>11, <2>13 DEF Dml
    <2>14. CASE UNCHANGED vars
      BY <2>5, <2>14 DEF vars
    <2>15. QED
      BY <2>12, <2>13, <2>14 DEF Next
  <1>3. TablesFit => RowsFitSchema
    BY FitsSchema
  <1>4. QED
    BY <1>1, <1>2, <1>3, PTL DEF Spec

-----------------------------------------------------------------------------
(* Views.                                                                    *)

LEMMA ViewCreated ==
  ASSUME ViewsGrounded, rebound \in BOOLEAN, NEW name, NEW select,
         execute_create_view(name, select)
  PROVE  ViewsGrounded' /\ rebound' \in BOOLEAN
  <1>1. /\ name \notin DOMAIN tables \cup DOMAIN views
        /\ SourceNames(select) \subseteq DOMAIN tables \cup DOMAIN views
        /\ DOMAIN views' = {name} \cup DOMAIN views
        /\ \A n \in DOMAIN views' : views'[n] = IF n = name THEN select ELSE views[n]
        /\ rebound' = (rebound \/ Readers(name) # {})
    BY DEF execute_create_view, WithView
  <1>2. SUFFICES ASSUME ~rebound, Readers(name) = {},
                        NEW S \in SUBSET DOMAIN views', S # {}
                 PROVE  \E v \in S : SourceNames(views'[v]) \cap S = {}
    BY <1>1 DEF ViewsGrounded
  <1>3. CASE S \subseteq {name}
    <2>1. S = {name} /\ name \notin SourceNames(select) /\ views'[name] = select
      BY <1>1, <1>2, <1>3
    <2>2. QED
      BY <2>1
  <1>4. CASE ~(S \subseteq {name})
    <2>1. S \ {name} \in SUBSET DOMAIN views /\ S \ {name} # {}
      BY <1>1, <1>2, <1>4
    <2>2. PICK v \in S \ {name} : SourceNames(views[v]) \cap (S \ {name}) = {}
      BY <1>2, <2>1 DEF ViewsGrounded
    <2>3. name \notin SourceNames(views[v])
      BY <1>2, <2>1 DEF Readers
    <2>4. views'[v] = views[v]
      BY <1>1, <1>2
    <2>5. QED
      BY <2>2, <2>3, <2>4
  <1>5. QED
    BY <1>3, <1>4

LEMMA ViewDropped ==
  ASSUME ViewsGrounded, rebound \in BOOLEAN, NEW name, execute_drop_view(name)
  PROVE  ViewsGrounded' /\ rebound' \in BOOLEAN
  <1>1. /\ DOMAIN views' \subseteq DOMAIN views
        /\ \A n \in DOMAIN views' : views'[n] = views[n]
        /\ rebound' = rebound
    BY DEF execute_drop_view
  <1>2. SUFFICES ASSUME ~rebound, NEW S \in SUBSET DOMAIN views', S # {}
                 PROVE  \E v \in S : SourceNames(views'[v]) \cap S = {}
    BY <1>1 DEF ViewsGrounded
  <1>3. PICK v \in S : SourceNames(views[v]) \cap S = {}
    BY <1>1, <1>2 DEF ViewsGrounded
  <1>4. QED
    BY <1>1, <1>3

(* The stored views can be put in an order in which each reads only from     *)
(* tables and from views before it, for any number of views and any SELECTs, *)
(* until a view takes a name that a stored view already reads from:          *)
(* execute_create_view looks whether the sources exist, and a view that is   *)
(* dropped may come back over its own readers.                               *)
THEOREM ViewsStayGrounded == Spec => []ViewsGrounded
  <1> DEFINE Inv == ViewsGrounded /\ rebound \in BOOLEAN
  <1>1. Init => Inv
    <2> SUFFICES ASSUME Init PROVE Inv
      OBVIOUS
    <2>1. views = <<>> /\ rebound = FALSE
      BY DEF Init
    <2>2. DOMAIN views = {}
      BY <2>1
    <2>3. \A S \in SUBSET DOMAIN views : S = {}
      BY <2>2
    <2>4. QED
      BY <2>1, <2>3 DEF ViewsGrounded
  <1>2. Inv /\ [Next]_vars => Inv'
    <2> SUFFICES ASSUME Inv, [Next]_vars PROVE Inv'
      OBVIOUS
    <2>1. ASSUME UNCHANGED <<views, rebound>> PROVE Inv'
      <3>1. views' = views /\ rebound' = rebound
        BY <2>1
      <3>2. QED
        BY <3>1 DEF ViewsGrounded
    <2>2. CASE \E d \in ViewTexts : execute_create_view(d.name, d.select)
      BY <2>2, ViewCreated DEF execute_create_view
    <2>3. CASE \E name \in ViewNames : execute_drop_view(name)
      BY <2>3, ViewDropped
    <2>4. ASSUME NEW d \in Declarations, CreateTable(d.name, d.cols) PROVE Inv'
      BY <2>1, <2>4 DEF CreateTable
    <2>5. ASSUME NEW name, DropTable(name) PROVE Inv'
      BY <2>1, <2>5 DEF DropTable
    <2>6. ASSUME NEW name, NEW col, execute_alter_add_column(name, col) PROVE Inv'
      BY <2>1, <2>6 DEF execute_alter_add_column
    <2>7. ASSUME NEW name, NEW column, execute_alter_drop_column(name, column) PROVE Inv'
      BY <2>1, <2>7 DEF execute_alter_drop_column
    <2>8. ASSUME NEW name, NEW cells, Insert(name, cells) PROVE Inv'
      BY <2>1, <2>8 DEF Insert
    <2>9. ASSUME NEW name, NEW source, execute_insert_select(name, source) PROVE Inv'
      BY <2>1, <2>9 DEF execute_insert_select
    <2>10. ASSUME NEW name, NEW column, NEW lit, NEW matched,
                  execute_update(name, column, lit, matched)
           PROVE  Inv'
      BY <2>1, <2>10 DEF execute_update
    <2>11. ASSUME NEW name, NEW matched, execute_delete(name, matched) PROVE Inv'
      BY <2>1, <2>11 DEF execute_delete
    <2> HIDE DEF Inv
    <2>12. CASE Ddl
      BY <2>2, <2>3, <2>4, <2>5, <2>6, <2>7, <2>12 DEF Ddl
    <2>13. CASE Dml
      BY <2>8, <2>9, <2>10, <2>11, <2>13 DEF Dml
    <2>14. CASE UNCHANGED vars
      BY <2>1, <2>14 DEF vars
    <2>15. QED
      BY <2>12, <2>13, <2>14 DEF Next
  <1>3. QED
    BY <1>1, <1>2, PTL DEF Spec

=============================================================================
