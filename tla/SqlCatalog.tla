------------------------------ MODULE SqlCatalog ------------------------------
(* The statements of the custom engine that change what the catalog and the  *)
(* tables hold, at the level of rows: DDL on tables, columns, indexes and    *)
(* views, and DML with DEFAULT, NOT NULL, UNIQUE and PRIMARY KEY. How rows   *)
(* and index entries lie on pages is TableStore's subject.                   *)
(*                                                                           *)
(* A statement that reports an error changes nothing and is not a step, with *)
(* one exception: INSERT ... SELECT keeps the rows before the one it refuses.*)
EXTENDS SqlCells

CONSTANTS
    Declarations,   \* [name, cols] that CREATE TABLE may declare
    NewColumns,     \* what ALTER TABLE ADD COLUMN may declare
    Literals,       \* cells a statement can write
    ViewTexts,      \* [name, select] that CREATE VIEW may declare
    SourceNames(_), \* the names in the FROM clause of a SELECT
    MaxRows,        \* bound on the rows of a table
    MaxSize,        \* bound on the cells, tables and views of a database
    MaxTables, MaxViews, MaxColumns   \* MAX_CATALOG_TABLES, _VIEWS, MAX_COLUMNS

VARIABLES
    tables,         \* g_catalog: name -> [cols, rows], and the ghost fed: a date
                    \* column has taken cells from an INSERT ... SELECT
    views,          \* g_views: name -> SELECT
    rebound         \* ghost: a view was created under a name that a stored view
                    \* already read from

vars == <<tables, views, rebound>>

-----------------------------------------------------------------------------
(* Columns and constraints.                                                  *)

\* What the text of a statement, or a bound parameter, can be: never a date.
LiteralCells == [t : {"null", "int", "bool", "float", "string"}, v : Int]
ColumnTypes == {"int", "bool", "float", "string", "date", "timestamp"}
DeclaredColumns ==
    [name : STRING, type : ColumnTypes, default : LiteralCells,
     flags : SUBSET {"default", "not_null", "unique", "primary_key"}]

ASSUME SchemaConstants ==
    /\ \A d \in Declarations : d.cols \in Seq(DeclaredColumns)
    /\ NewColumns \subseteq DeclaredColumns
    /\ Literals \subseteq LiteralCells

Has(col, flag) == flag \in col.flags
IsDate(type) == type \in {"date", "timestamp"}
Keys(col) == {"unique", "primary_key"} \intersect col.flags # {}
Required(col) == {"not_null", "primary_key"} \intersect col.flags # {}

\* A DEFAULT must be NULL or, once coerced, of the column's type.
DefaultFits(col) ==
    Has(col, "default") =>
        /\ CanCoerce(col.default, col.type)
        /\ cell_coerce_to_column(col.default, col.type).t \in {"null", col.type}
Stored(col) ==
    [col EXCEPT !.default = IF Has(col, "default") THEN cell_coerce_to_column(@, col.type) ELSE Null]

sql_parse_create_table(cols) ==
    /\ Len(cols) \in 1..MaxColumns
    /\ \A i \in DOMAIN cols : DefaultFits(cols[i])
    /\ \A i, j \in DOMAIN cols :
            Has(cols[i], "primary_key") /\ Has(cols[j], "primary_key") => i = j

\* DEFAULT stands in for NULL; then NOT NULL and PRIMARY KEY are enforced.
WithDefaults(cols, cells) ==
    [c \in DOMAIN cols |->
        IF IsNull(cells[c]) /\ Has(cols[c], "default") THEN cols[c].default ELSE cells[c]]
NoMissing(cols, cells) == \A c \in DOMAIN cols : Required(cols[c]) => ~IsNull(cells[c])

\* UNIQUE and PRIMARY KEY: NULL conflicts with nothing.
Conflict(a, b) == ~IsNull(a) /\ ~IsNull(b) /\ cell_compare(a, b) = 0
constraints_check_new_row(table, cells) ==
    \A c \in DOMAIN table.cols : Keys(table.cols[c]) =>
        \A r \in DOMAIN table.rows : ~Conflict(table.rows[r][c], cells[c])
\* A check of the changed rows that forgets NOT NULL.
MutCheckRowSet(cols, rows) ==
    \A c \in DOMAIN cols : Keys(cols[c]) =>
        \A i, j \in DOMAIN rows : i < j => ~Conflict(rows[i][c], rows[j][c])

constraints_check_row_set(cols, rows) ==
    /\ \A r \in DOMAIN rows : NoMissing(cols, rows[r])
    /\ \A c \in DOMAIN cols : Keys(cols[c]) =>
            \A i, j \in DOMAIN rows : i < j => ~Conflict(rows[i][c], rows[j][c])

-----------------------------------------------------------------------------
(* Tables.                                                                   *)

WithTable(name, table) ==
    tables' = [n \in {name} \union DOMAIN tables |-> IF n = name THEN table ELSE tables[n]]

\* A view of the same name does not stand in the way: the table hides it.
CreateTable(name, cols) ==
    /\ name \notin DOMAIN tables
    /\ Cardinality(DOMAIN tables) < MaxTables
    /\ sql_parse_create_table(cols)
    /\ WithTable(name, [cols |-> [c \in DOMAIN cols |-> Stored(cols[c])],
                        rows |-> <<>>, fed |-> FALSE])
    /\ UNCHANGED <<views, rebound>>

DropTable(name) ==
    /\ name \in DOMAIN tables
    /\ tables' = [n \in DOMAIN tables \ {name} |-> tables[n]]
    /\ UNCHANGED <<views, rebound>>

\* Old rows get the DEFAULT or NULL; what that would violate is refused.
BackfillFits(col, n) ==
    /\ n > 0 /\ ~Has(col, "default") => ~Required(col)
    /\ n > 1 /\ Has(col, "default") /\ ~IsNull(col.default) => ~Keys(col)

execute_alter_add_column(name, column) ==
    LET table == tables[name]
        col == Stored(column)
    IN  /\ name \in DOMAIN tables
        /\ DefaultFits(column)
        /\ Len(table.cols) < MaxColumns
        /\ \A c \in DOMAIN table.cols : table.cols[c].name # col.name
        /\ BackfillFits(col, Len(table.rows))
        /\ WithTable(name, [table EXCEPT
               !.cols = Append(@, col),
               !.rows = [r \in DOMAIN @ |-> Append(@[r], col.default)]])
        /\ UNCHANGED <<views, rebound>>

execute_alter_drop_column(name, column) ==
    LET table == tables[name]
    IN  /\ name \in DOMAIN tables
        /\ Len(table.cols) > 1
        /\ \E c \in DOMAIN table.cols :
            /\ table.cols[c].name = column
            /\ WithTable(name, [table EXCEPT
                   !.cols = RemoveAt(@, c),
                   !.rows = [r \in DOMAIN @ |-> RemoveAt(@[r], c)]])
        /\ UNCHANGED <<views, rebound>>

-----------------------------------------------------------------------------
(* Rows.                                                                     *)

cells_coerce_to_columns(cols, cells) ==
    [c \in DOMAIN cols |-> cell_coerce_to_column(cells[c], cols[c].type)]

Insert(name, cells) ==
    LET table == tables[name]
        row == WithDefaults(table.cols, cells_coerce_to_columns(table.cols, cells))
    IN  /\ name \in DOMAIN tables
        /\ Len(cells) = Len(table.cols)
        /\ Len(table.rows) < MaxRows
        /\ \A c \in DOMAIN cells : CanCoerce(cells[c], table.cols[c].type)
        /\ NoMissing(table.cols, row)
        /\ constraints_check_new_row(table, row)
        /\ tables' = [tables EXCEPT ![name].rows = Append(@, row)]
        /\ UNCHANGED <<views, rebound>>

\* The cells of a source row by name, a zero where the source has no such
\* column. Nothing is coerced.
Picked(cols, source, cells) ==
    [c \in DOMAIN cols |->
        LET at == {i \in DOMAIN source.cols : source.cols[i].name = cols[c].name}
        IN  IF at = {} THEN ZeroCell(cols[c].type) ELSE cells[Min(at)]]

\* Row by row, each checked against those before it, until one is refused.
Accepted(table, rows) ==
    LET new == [r \in DOMAIN rows |-> WithDefaults(table.cols, rows[r])]
        UpTo(r) == table.rows \o SubSeq(new, 1, r - 1)
        refused == {r \in DOMAIN rows :
                       \/ ~NoMissing(table.cols, new[r])
                       \/ ~constraints_check_new_row([table EXCEPT !.rows = UpTo(r)], new[r])}
    IN  UpTo(Min(refused \union {Len(rows) + 1}))

\* INSERT INTO name SELECT * FROM source, which may be the table itself: the
\* source rows are read before the first is written.
execute_insert_select(name, source) ==
    LET table == tables[name]
        from == tables[source]
        rows == [r \in DOMAIN from.rows |-> Picked(table.cols, from, from.rows[r])]
    IN  /\ {name, source} \subseteq DOMAIN tables
        /\ rows # <<>> /\ Len(table.rows) + Len(rows) <= MaxRows
        /\ tables' = [tables EXCEPT ![name].rows = Accepted(table, rows),
                                    ![name].fed = @ \/ \E c \in DOMAIN table.cols :
                                                        IsDate(table.cols[c].type)]
        /\ UNCHANGED <<views, rebound>>

\* UPDATE name SET column = lit over the rows that WHERE matched.
execute_update(name, column, lit, matched) ==
    LET table == tables[name]
    IN  /\ name \in DOMAIN tables
        /\ matched \subseteq DOMAIN table.rows
        /\ \E c \in DOMAIN table.cols :
            /\ table.cols[c].name = column
            /\ CanCoerce(lit, table.cols[c].type)
            /\ LET cell == cell_coerce_to_column(lit, table.cols[c].type)
                   rows == [r \in DOMAIN table.rows |->
                                IF r \in matched THEN [table.rows[r] EXCEPT ![c] = cell]
                                ELSE table.rows[r]]
               IN  /\ constraints_check_row_set(table.cols, rows)
                   /\ tables' = [tables EXCEPT ![name].rows = rows]
        /\ UNCHANGED <<views, rebound>>

\* The members of a set of places, in order.
Ordered(S) == {f \in [1 .. Cardinality(S) -> S] : \A i, j \in DOMAIN f : i < j => f[i] < f[j]}

execute_delete(name, matched) ==
    /\ name \in DOMAIN tables
    /\ matched \subseteq DOMAIN tables[name].rows
    /\ \E kept \in Ordered(DOMAIN tables[name].rows \ matched) :
            tables' = [tables EXCEPT ![name].rows = [i \in DOMAIN kept |-> @[kept[i]]]]
    /\ UNCHANGED <<views, rebound>>

-----------------------------------------------------------------------------
(* Views. Their sources must exist when they are created, and only then.     *)

Readers(name) == {v \in DOMAIN views : name \in SourceNames(views[v])}
WithView(name, select) ==
    views' = [n \in {name} \union DOMAIN views |-> IF n = name THEN select ELSE views[n]]

\* A creation that does not look whether its sources exist.
MutCreateView(name, select) ==
    /\ name \notin DOMAIN tables \union DOMAIN views
    /\ Cardinality(DOMAIN views) < MaxViews
    /\ WithView(name, select)
    /\ rebound' = (rebound \/ Readers(name) # {})
    /\ UNCHANGED tables

execute_create_view(name, select) ==
    /\ name \notin DOMAIN tables \union DOMAIN views
    /\ Cardinality(DOMAIN views) < MaxViews
    /\ SourceNames(select) \subseteq DOMAIN tables \union DOMAIN views
    /\ WithView(name, select)
    /\ rebound' = (rebound \/ Readers(name) # {})
    /\ UNCHANGED tables

execute_drop_view(name) ==
    /\ name \in DOMAIN views
    /\ views' = [n \in DOMAIN views \ {name} |-> views[n]]
    /\ UNCHANGED <<tables, rebound>>

-----------------------------------------------------------------------------
Init ==
    /\ tables = <<>>
    /\ views = <<>>
    /\ rebound = FALSE

TableNames == {d.name : d \in Declarations}
ViewNames == {d.name : d \in ViewTexts}
Names == TableNames \union ViewNames
ColumnNames == UNION {{d.cols[i].name : i \in DOMAIN d.cols} : d \in Declarations}
               \union {c.name : c \in NewColumns}
RowsOf(name) == IF name \in DOMAIN tables THEN DOMAIN tables[name].rows ELSE {}
WidthOf(name) == IF name \in DOMAIN tables THEN Len(tables[name].cols) ELSE 0

Ddl ==
    \/ \E d \in Declarations : CreateTable(d.name, d.cols)
    \/ \E name \in TableNames :
        \/ DropTable(name)
        \/ \E col \in NewColumns : execute_alter_add_column(name, col)
        \/ \E column \in ColumnNames : execute_alter_drop_column(name, column)
    \/ \E d \in ViewTexts : execute_create_view(d.name, d.select)
    \/ \E name \in ViewNames : execute_drop_view(name)

Dml ==
    \E name \in TableNames :
        \/ \E cells \in [1 .. WidthOf(name) -> Literals] : Insert(name, cells)
        \/ \E source \in TableNames : execute_insert_select(name, source)
        \/ \E column \in ColumnNames, lit \in Literals, matched \in SUBSET RowsOf(name) :
                execute_update(name, column, lit, matched)
        \/ \E matched \in SUBSET RowsOf(name) : execute_delete(name, matched)

\* Every table, view and cell counts.
Size ==
    Cardinality(DOMAIN tables) + Cardinality(DOMAIN views)
    + FoldSet(LAMBDA n, sum : sum + Len(tables[n].rows) * Len(tables[n].cols), 0, DOMAIN tables)

Next == (Ddl \/ Dml) /\ Size' <= MaxSize

Spec == Init /\ [][Next]_vars

-----------------------------------------------------------------------------
(* Properties.                                                               *)

\* What was declared holds for the stored rows whatever statements and ALTER
\* TABLEs came between: a row has one cell per column, required columns hold
\* no NULL (a column added as NOT NULL DEFAULT NULL excepted: its backfill is
\* not checked), no two rows agree on a key column, and a date column holds
\* dates unless the table was fed by INSERT ... SELECT, which coerces nothing.
RowsFitSchema ==
    \A name \in DOMAIN tables :
        LET cols == tables[name].cols
            rows == tables[name].rows
        IN  /\ \A r \in DOMAIN rows : DOMAIN rows[r] = DOMAIN cols
            /\ \A c \in DOMAIN cols, r \in DOMAIN rows :
                /\ Required(cols[c]) /\ ~(Has(cols[c], "default") /\ IsNull(cols[c].default))
                    => ~IsNull(rows[r][c])
                /\ ~tables[name].fed /\ IsDate(cols[c].type)
                    => \/ IsNull(rows[r][c])
                       \/ rows[r][c].t = cols[c].type /\ rows[r][c].v \in Canonical[cols[c].type]
            /\ \A c \in DOMAIN cols : Keys(cols[c]) =>
                \A i, j \in DOMAIN rows : i # j => ~Conflict(rows[i][c], rows[j][c])

\* Resolving a view comes to an end, however many there are: among any views
\* there is one that reads none of them, as long as no view was created under a
\* name that a stored view already read from. execute_create_view checks only
\* that the sources exist.
ViewsGrounded ==
    ~rebound => \A S \in SUBSET DOMAIN views :
                    S # {} => \E v \in S : SourceNames(views[v]) \intersect S = {}

=============================================================================
