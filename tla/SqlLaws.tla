------------------------------- MODULE SqlLaws -------------------------------
(* What SELECT owes its readers, checked on every database the statements of *)
(* SqlCatalog can produce.                                                   *)
EXTENDS SqlCatalog, SqlSelect

CONSTANTS
    Statements, \* SELECTs beside those of the views
    Trees,      \* WHERE clauses as expression trees
    Probes      \* literals to compare an indexed column with

\* The database with an index on the column of that name wherever there is one.
Indexed(column) ==
    [tables |-> [n \in DOMAIN tables |->
                    [cols |-> tables[n].cols, rows |-> tables[n].rows, indexed |-> {column}]],
     views |-> views]
Db == Indexed("")

\* Two sequences with the same elements in some order.
SameBag(s, u) ==
    /\ Len(s) = Len(u)
    /\ \A x \in ToSet(s) : Cardinality({i \in DOMAIN s : s[i] = x})
                         = Cardinality({i \in DOMAIN u : u[i] = x})

-----------------------------------------------------------------------------
(* A WHERE clause as it is written: parentheses only where needed.           *)

Column(node) ==
    IF node.prefix = "" THEN <<Ident(node.column)>>
    ELSE <<Ident(node.prefix), Word("."), Ident(node.column)>>
ListTokens(list) ==
    FlattenSeq([i \in DOMAIN list |->
        IF i = Len(list) THEN <<Lit(list[i])>> ELSE <<Lit(list[i]), Word(",")>>])
Negated(node, toks) == IF node.negate THEN <<Word("not")>> \o toks ELSE toks

RECURSIVE Written(_, _)
Written(node, level) ==
    LET parens(prec, toks) == IF prec < level THEN <<Word("(")>> \o toks \o <<Word(")")>> ELSE toks
    IN  CASE node.type = "or" ->
                parens(0, Written(node.left, 0) \o <<Word("or")>> \o Written(node.right, 1))
          [] node.type = "and" ->
                parens(1, Written(node.left, 1) \o <<Word("and")>> \o Written(node.right, 2))
          [] node.type = "not" -> parens(2, <<Word("not")>> \o Written(node.left, 2))
          [] node.type = "cmp" -> Column(node) \o <<Word(node.cmp_op), Lit(node.literal)>>
          [] node.type = "is_null" -> Column(node) \o <<Word("is"), Word("null")>>
          [] node.type = "is_not_null" -> Column(node) \o <<Word("is"), Word("not"), Word("null")>>
          [] node.type = "in" ->
                Column(node) \o Negated(node, <<Word("in"), Word("(")>>)
                    \o ListTokens(node.list) \o <<Word(")")>>
          [] node.type = "like" ->
                Column(node) \o Negated(node, <<Word("like"), Lit(node.literal)>>)

Clause(word, toks, absent) == IF absent THEN <<>> ELSE <<Word(word)>> \o toks
WrittenColumn(col) ==
    CASE col.agg = "none" -> Column([prefix |-> col.prefix, column |-> col.name])
      [] OTHER -> <<Word(col.agg), Word("("),
                    IF col.arg = "*" THEN Word("*") ELSE Ident(col.arg), Word(")")>>
WrittenSelect(stmt) ==
    LET by(col) == <<Word("by")>> \o Column([prefix |-> col.prefix, column |-> col.name])
        list == IF stmt.cols = <<>> THEN <<Word("*")>>
                ELSE Tail(FlattenSeq([i \in DOMAIN stmt.cols |->
                                        <<Word(",")>> \o WrittenColumn(stmt.cols[i])]))
        join == CASE stmt.join.kind = "none" -> <<>>
                  [] OTHER -> (IF stmt.join.kind = "left" THEN <<Word("left"), Word("outer")>> ELSE <<>>)
                              \o <<Word("join"), Ident(stmt.join.table), Word("on"),
                                   Ident(stmt.table), Word("."), Ident(stmt.join.left), Word("="),
                                   Ident(stmt.join.table), Word("."), Ident(stmt.join.right)>>
    IN  <<Word("select")>> \o list \o <<Word("from"), Ident(stmt.table)>> \o join
        \o (IF stmt.where.type = "none" THEN <<>> ELSE <<Word("where")>> \o Written(stmt.where, 0))
        \o Clause("group", by(stmt.group), stmt.group = NoCol)
        \o Clause("order", by(stmt.order), stmt.order = NoCol)
        \o (IF stmt.desc THEN <<Word("desc")>> ELSE <<>>)
        \o (IF stmt.limit = -1 THEN <<>> ELSE <<Word("limit"), Lit(IntCell(stmt.limit))>>)

\* The text with a placeholder for every literal, and the values to bind.
Asked(toks) == [i \in DOMAIN toks |-> IF toks[i].k = "lit" THEN Word("?") ELSE toks[i]]
Binds(toks) == LET lits == SelectSeq(toks, LAMBDA t : t.k = "lit")
               IN  [i \in DOMAIN lits |-> lits[i].x]

Delivers(read, node) == read.ok /\ read.node = node
ReadBack(toks, stmt) ==
    /\ BindsFit(Asked(toks), Binds(toks))
    /\ \A text \in {toks, Bound(Asked(toks), Binds(toks))} : Delivers(sql_parse_select(text), stmt)
AllReadBack ==
    \A stmt \in Statements \union {d.select : d \in ViewTexts} \union {Star("t", t) : t \in Trees} :
        ReadBack(WrittenSelect(stmt), stmt)

\* SQL's three-valued logic over the truth values 0, 1 (unknown) and 2: AND is
\* the minimum, OR the maximum; IN is a chain of equalities joined by OR.
RECURSIVE Kleene(_, _)
Kleene(node, row) ==
    LET cell == CHOOSE c \in row_find_field(row, node.column) : TRUE
        equal(lit) == IF IsNull(cell) \/ IsNull(lit) THEN 1
                      ELSE IF cell_compare(cell, lit) = 0 THEN 2 ELSE 0
    IN  CASE node.type = "and" -> Min({Kleene(node.left, row), Kleene(node.right, row)})
          [] node.type = "or"  -> Max({Kleene(node.left, row), Kleene(node.right, row)})
          [] node.type = "not" -> 2 - Kleene(node.left, row)
          [] node.type = "in"  ->
                LET any == Max({equal(node.list[i]) : i \in DOMAIN node.list})
                IN  IF node.negate THEN 2 - any ELSE any
          [] OTHER -> LET v == EvalLeaf(node, cell) IN IF v = -1 THEN 1 ELSE 2 * v

KeepsTheTrue(t, read) ==
    /\ Delivers(read, t)
    /\ \A n \in DOMAIN tables : \A row \in ToSet(Scan(tables[n])) :
        row_find_field(row, "k") # {} =>
            (where_eval(row, read.node, DmlScope) = 1 <=> Kleene(t, row) = 2)

\* A statement delivers the rows its text asks for. Reading back what was
\* written, with literals or with placeholders and bound values, gives the same
\* statement (NOT binds before AND before OR); a view, which is stored as text
\* and read again for every use, depends on it. And the rows a WHERE clause keeps
\* are those for which it is true in three-valued logic.
WhereMeansWhatItSays ==
    AllReadBack /\ \A t \in Trees : KeepsTheTrue(t, parse_where_clause(Written(t, 0)))

-----------------------------------------------------------------------------
\* Cells of a column are of its own kind: numbers in number columns, text in
\* text columns. The engine does not enforce it.
Kindred(type, cell) ==
    \/ IsNull(cell)
    \/ cell_owns_text(type) /\ cell_owns_text(cell.t)
    \/ type = "bool" /\ cell.t \in {"bool", "int"}
    \/ type \in {"int", "float"} /\ cell.t \in {"int", "float"}
WellTyped(table) ==
    \A r \in DOMAIN table.rows, c \in DOMAIN table.cols :
        Kindred(table.cols[c].type, table.rows[r][c])

\* Float literals whose neighbours are ints of the build.
InIntRange(lit) == lit.t = "float" => lit.v > 2 * MinInt + 1 /\ lit.v < 2 * MaxInt - 1

\* An index only saves reading: over a column whose cells are of one kind, and
\* for literals inside the int range, a lookup delivers the rows a full scan
\* delivers, whatever mixture of int and float keys and truncated text it holds,
\* with terms before the one served and past the cap on terms looked at.
IndexMatchesScan ==
    \A n \in DOMAIN tables : WellTyped(tables[n]) =>
        \A c \in DOMAIN tables[n].cols, op \in CmpOps, lit \in Probes : InIntRange(lit) =>
            LET column == tables[n].cols[c].name
                term == Cmp([prefix |-> "", name |-> column], op, lit)
                notNull == NullTest([prefix |-> n, name |-> column], FALSE)
                where == Junction("and", Junction("and", notNull, term), notNull)
            IN  SameBag(sql_exec(Indexed(column), Star(n, where)).rows,
                        sql_exec(Db, Star(n, where)).rows)

-----------------------------------------------------------------------------
Split(table, groups) ==
    /\ \A i, j \in DOMAIN groups : i < j => cell_compare(groups[i][1].value, groups[j][1].value) = -1
    /\ \A i \in DOMAIN groups : cell_compare(groups[i][1].value, groups[i][3].value) = 0
    /\ FoldLeft(LAMBDA sum, row : sum + row[2].value.v, 0, groups) = Len(table.rows)

\* COUNT(*) by group splits the rows: every key once, and the counts add up to
\* the rows that passed WHERE.
GroupsPartition ==
    \A n \in DOMAIN tables : WellTyped(tables[n]) =>
        \A c \in DOMAIN tables[n].cols :
            LET name == tables[n].cols[c].name
            IN  Split(tables[n], sql_exec(Db, [Star(n, NoWhere) EXCEPT
                    !.cols = <<Plain("", name), Aggregate("count", "*"), Aggregate("max", name)>>,
                    !.group = [prefix |-> n, name |-> name]]).rows)

-----------------------------------------------------------------------------
Pairs(l, r) == {p \in (DOMAIN l) \X (DOMAIN r) :
                    LET a == row_find_field(l[p[1]], "k")
                        b == row_find_field(r[p[2]], "k")
                    IN  \E x \in a, y \in b : ~IsNull(x) /\ ~IsNull(y) /\ cell_compare(x, y) = 0}
Sides(left, right, res) ==
    LET pairs == Pairs(left, right)
        single == {i \in DOMAIN left : \A p \in pairs : p[1] # i}
        shown == {<<res[i][1].value, res[i][2].value>> : i \in DOMAIN res}
        cell(row) == CellOr0(row_find_field(row, "k"))
    IN  /\ Len(res) = Cardinality(pairs) + Cardinality(single)
        /\ \A p \in pairs : <<cell(left[p[1]]), cell(right[p[2]])>> \in shown
        /\ \A i \in single : \E s \in shown : s[1] = cell(left[i])
Source(name) == materialize_source(Db, name, Cardinality(DOMAIN views))
BothRead(left, right, joined) ==
    left.status = "ok" /\ right.status = "ok" => Sides(left.rows, right.rows, joined.rows)
LeftJoin(a, b) ==
    [Star(a, NoWhere) EXCEPT
        !.cols = <<Plain(a, "k"), Plain(b, "k")>>,
        !.join = [kind |-> "left", table |-> b, left |-> "k", right |-> "k"]]

\* A LEFT JOIN pairs every left row with each right row whose key equals its
\* own, and keeps a left row without partner once; a prefixed column of the
\* result comes from the side it names although both sides have that name.
JoinKeepsSides ==
    \A a, b \in Names : a # b =>
        BothRead(Source(a), Source(b), sql_exec(Db, LeftJoin(a, b)))

-----------------------------------------------------------------------------
Merges(def) == /\ def.cols = <<>> /\ def.join.kind = "none"
               /\ def.where.type # "none" /\ def.limit = -1
AgreesWith(outer, merged) == outer.status = "ok" => SameBag(outer.rows, merged.rows)
TypesFit(v, outer) ==
    \A column \in ColumnNames, i \in DOMAIN outer.rows :
        \A type \in sql_query_column_type(Db, Star(v, NoWhere), column),
           cell \in row_find_field(outer.rows[i], column) : Kindred(type, cell)

\* A view over one source with a WHERE of its own behaves like that source with
\* both conditions: nothing is lost or shown twice by going through the view.
\* And the type the checker infers for a column, through any nesting of views,
\* fits the cells that arrive as long as the tables hold cells of their kind.
ViewsCompose ==
    \A v \in DOMAIN views \ DOMAIN tables, t \in Trees :
        /\ Merges(views[v]) =>
            AgreesWith(sql_exec(Db, Star(v, t)),
                       sql_exec(Db, Star(views[v].table, Junction("and", views[v].where, t))))
        /\ (\A n \in DOMAIN tables : WellTyped(tables[n])) =>
            TypesFit(v, sql_exec(Db, Star(v, t)))

\* Resolving a view ends, as long as no view was ever created under a name that
\* a stored view already read from.
ViewsEnd ==
    ~rebound => \A v \in DOMAIN views : sql_exec(Db, Star(v, NoWhere)).status # "endless"

=============================================================================
