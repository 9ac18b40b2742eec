------------------------------ MODULE SqlSelect ------------------------------
(* What a SELECT of the custom engine delivers: its source rows (a table by  *)
(* scan or by index, a view, a join), WHERE, ORDER BY, GROUP BY with         *)
(* aggregates, the column list and LIMIT.                                    *)
(*                                                                           *)
(* A database is [tables, views]: tables maps a name to [cols, rows,         *)
(* indexed], views maps a name to a parsed SELECT. A table's rows are        *)
(* sequences of cells, the rows of a result sequences of fields.             *)
(*                                                                           *)
(* A SELECT is [cols, table, join, where, group, order, desc, limit]; cols   *)
(* is <<>> for *; join, group and order are NoJoin and NoCol when absent, and *)
(* limit is -1.                                                              *)
EXTENDS SqlWhere, TLC

NoJoin == [kind |-> "none"]
NoWhere == [type |-> "none"]
NoCol == [prefix |-> "", name |-> ""]
Star(table, where) ==
    [cols |-> <<>>, table |-> table, join |-> NoJoin, where |-> where,
     group |-> NoCol, order |-> NoCol, desc |-> FALSE, limit |-> -1]
Plain(prefix, name) == [agg |-> "none", prefix |-> prefix, name |-> name]
Aggregate(agg, arg) == [agg |-> agg, prefix |-> "", name |-> agg, arg |-> arg]

-----------------------------------------------------------------------------
(* The statement's text, as tokens.                                          *)

CONSTANT MaxSelectColumns       \* MAX_SELECT_COLUMNS

Aggregates == {"count", "sum", "avg", "min", "max"}

SelectColumn(toks, i) ==
    IF Kind(toks, i) \in Aggregates
    THEN IF Kind(toks, i + 1) = "(" /\ Kind(toks, i + 2) \in {"*", "ident"} /\ Kind(toks, i + 3) = ")"
         THEN Read(Aggregate(Kind(toks, i), IF Kind(toks, i + 2) = "*" THEN "*" ELSE toks[i + 2].x), i + 4)
         ELSE Fail
    ELSE LET col == Qualified(toks, i)
         IN  IF col.ok THEN Read(Plain(col.node.prefix, col.node.name), col.at) ELSE Fail

RECURSIVE SelectList(_, _, _)
SelectList(toks, i, cols) ==
    LET col == SelectColumn(toks, i)
    IN  CASE cols = <<>> /\ Kind(toks, i) = "*" -> Read(<<>>, i + 1)
          [] Len(cols) >= MaxSelectColumns \/ ~col.ok -> Fail
          [] OTHER -> IF Kind(toks, col.at) = ","
                      THEN SelectList(toks, col.at + 1, Append(cols, col.node))
                      ELSE Read(Append(cols, col.node), col.at)

\* [LEFT [OUTER]] JOIN table ON first.x = table.y, the tables in this order.
JoinClause(toks, i, table) ==
    LET j == CASE Kind(toks, i) = "join" -> i
               [] Kind(toks, i) = "left" /\ Kind(toks, i + 1) = "outer" -> i + 2
               [] OTHER -> i + 1
        left == Qualified(toks, j + 3)
        right == Qualified(toks, left.at + 1)
    IN  CASE Kind(toks, i) \notin {"join", "left"} -> Read(NoJoin, i)
          [] Kind(toks, i) \in {"join", "left"} /\ Kind(toks, j) # "join" -> Fail
          [] OTHER -> IF /\ Kind(toks, j + 1) = "ident" /\ Kind(toks, j + 2) = "on"
                         /\ left.ok /\ Kind(toks, left.at) = "=" /\ right.ok
                         /\ left.node.prefix = table /\ right.node.prefix = toks[j + 1].x
                      THEN Read([kind |-> IF Kind(toks, i) = "left" THEN "left" ELSE "inner",
                                 table |-> toks[j + 1].x,
                                 left |-> left.node.name, right |-> right.node.name], right.at)
                      ELSE Fail

\* GROUP BY or ORDER BY and a column.
ByClause(toks, i, word) ==
    CASE Kind(toks, i) # word -> Read(NoCol, i)
      [] Kind(toks, i) = word /\ Kind(toks, i + 1) # "by" -> Fail
      [] OTHER -> Qualified(toks, i + 2)

\* A limit below zero is zero; a bound limit must be an int.
LimitClause(toks, i) ==
    CASE Kind(toks, i) # "limit" -> Read(-1, i)
      [] Kind(toks, i) = "limit" /\ Kind(toks, i + 1) = "lit" ->
            IF toks[i + 1].x.t = "int" THEN Read(Max({0, toks[i + 1].x.v}), i + 2) ELSE Fail
      [] OTHER -> Fail

\* A statement is read clause by clause: [ok, node, at] holds what was read so
\* far, a clause adds its field.
Put(stmt, field, part) ==
    IF part.ok THEN Read([stmt.node EXCEPT ![field] = part.node], part.at) ELSE Fail

WithFrom(toks, cols) ==
    IF cols.ok /\ Kind(toks, cols.at) = "from" /\ Kind(toks, cols.at + 1) = "ident"
    THEN Read([Star(toks[cols.at + 1].x, NoWhere) EXCEPT !.cols = cols.node], cols.at + 2)
    ELSE Fail
WithJoin(toks, stmt) ==
    IF stmt.ok THEN Put(stmt, "join", JoinClause(toks, stmt.at, stmt.node.table)) ELSE Fail
WithWhere(toks, stmt) ==
    IF stmt.ok /\ Kind(toks, stmt.at) = "where"
    THEN Put(stmt, "where", where_parse_or(toks, stmt.at + 1)) ELSE stmt
WithColumn(toks, stmt, word) ==
    IF stmt.ok THEN Put(stmt, word, ByClause(toks, stmt.at, word)) ELSE Fail
\* ASC or DESC, only behind ORDER BY.
WithDirection(toks, stmt) ==
    IF stmt.ok /\ stmt.node.order # NoCol /\ Kind(toks, stmt.at) \in {"asc", "desc"}
    THEN Read([stmt.node EXCEPT !.desc = Kind(toks, stmt.at) = "desc"], stmt.at + 1) ELSE stmt
WithLimit(toks, stmt) ==
    IF stmt.ok THEN Put(stmt, "limit", LimitClause(toks, stmt.at)) ELSE Fail
Whole(toks, stmt) == IF stmt.ok /\ stmt.at > Len(toks) THEN [ok |-> TRUE, node |-> stmt.node] ELSE Fail

sql_parse_select(toks) ==
    LET from == WithFrom(toks, SelectList(toks, 2, <<>>))
        where == WithWhere(toks, WithJoin(toks, from))
        order == WithColumn(toks, WithColumn(toks, where, "group"), "order")
    IN  IF Kind(toks, 1) # "select" THEN Fail
        ELSE Whole(toks, WithLimit(toks, WithDirection(toks, order)))

-----------------------------------------------------------------------------
Fields(table, cells) ==
    [i \in DOMAIN table.cols |-> [name |-> table.cols[i].name, value |-> cells[i]]]
Scan(table) == [i \in DOMAIN table.rows |-> Fields(table, table.rows[i])]

-----------------------------------------------------------------------------
(* Index lookup. A scan is a list of key ranges; the rows it collects come   *)
(* in key order, and the whole WHERE clause is evaluated on them afterwards. *)

\* Conversion of a float (in halves) to int: toward zero, and the smallest int
\* when the value is out of range (what the build's conversion produces).
ToInt(h) ==
    LET n == IF h >= 0 THEN h \div 2 ELSE -((-h) \div 2)
    IN  IF n \in MinInt..MaxInt THEN n ELSE MinInt

\* Two's complement wrap into the int range.
WrapInt(n) == MinInt + ((n - MinInt) % (MaxInt - MinInt + 1))

Infinity == 4 * (MaxInt - MinInt)
NoKey == <<9, 0>>       \* above every key: an open upper end

KeyRange(lo, loinc, hi, hiinc) == [lo |-> lo, loinc |-> loinc, hi |-> hi, hiinc |-> hiinc]
InRange(k, r) ==
    /\ KeyLess(r.lo, k) \/ (r.loinc /\ k = r.lo)
    /\ KeyLess(k, r.hi) \/ (r.hiinc /\ k = r.hi)

\* The part of the key space lo..hi on the literal's side of key.
Bounded(op, key, lo, hi) ==
    CASE op = "="  -> KeyRange(key, TRUE, key, TRUE)
      [] op = "<"  -> KeyRange(lo, TRUE, key, FALSE)
      [] op = ">"  -> KeyRange(key, FALSE, hi, TRUE)
      [] op = "<=" -> KeyRange(lo, TRUE, key, TRUE)
      [] op = ">=" -> KeyRange(key, TRUE, hi, TRUE)

index_scan_numeric(node) ==
    LET lit == node.literal
        op == node.cmp_op
        ival == IF lit.t = "int" THEN lit.v ELSE ToInt(lit.v)
        ints(key) == Bounded(op, <<1, key>>, <<1, MinInt>>, <<1, MaxInt>>)
        floats == Bounded(op, <<2, AsHalves(lit)>>, <<2, -Infinity>>, <<2, Infinity>>)
        intRange ==
            CASE lit.t = "int" \/ (op = "=" /\ lit.v = 2 * ival) -> <<ints(ival)>>
              [] lit.t # "int" /\ op = "=" /\ lit.v # 2 * ival -> <<>>
              [] lit.t # "int" /\ op \in {"<", "<="} ->
                    <<[ints(WrapInt(ival + 1)) EXCEPT !.hiinc = TRUE]>>
              [] lit.t # "int" /\ op \in {">", ">="} ->
                    <<[ints(WrapInt(ival - 1)) EXCEPT !.loinc = TRUE]>>
    IN  Append(intRange, floats)

\* A bound that trusts the truncated key of a long literal.
MutScanString(node) == <<Bounded(node.cmp_op, encode_key(node.literal), <<3, 1>>, NoKey)>>

\* A bound that the key cannot hold in full is taken inclusively.
index_scan_string(node) ==
    LET key == encode_key(node.literal)
        exact == Len(Texts[node.literal.v]) < KeyWidth
        r == Bounded(node.cmp_op, key, <<3, 1>>, NoKey)
    IN  <<CASE node.cmp_op = "<" -> [r EXCEPT !.hiinc = ~exact]
            [] node.cmp_op = ">" -> [r EXCEPT !.loinc = ~exact]
            [] OTHER -> r>>

CONSTANT MaxIndexConjuncts      \* MAX_INDEX_CONJUNCTS

RECURSIVE AndTerms(_)
AndTerms(node) ==
    IF node.type = "and" THEN AndTerms(node.left) \o AndTerms(node.right) ELSE <<node>>

\* Terms past the cap are not looked at for an index; WHERE still has them.
collect_and_terms(node) ==
    LET terms == AndTerms(node)
    IN  SubSeq(terms, 1, Min({Len(terms), MaxIndexConjuncts}))

ColumnAt(table, name) ==
    LET at == {i \in DOMAIN table.cols : table.cols[i].name = name}
    IN  IF at = {} THEN 0 ELSE Min(at)

conjunct_matches_index(node, name, table, column) ==
    /\ node.type = "cmp" /\ node.cmp_op # "<>"
    /\ node.column = column /\ node.prefix \in {"", name}
    /\ ~IsNull(node.literal)
    /\ ColumnAt(table, column) # 0
    /\ LET type == table.cols[ColumnAt(table, column)].type
       IN  CASE node.literal.t = "string" -> cell_owns_text(type)
             [] node.literal.t = "bool"   -> type = "bool" /\ node.cmp_op = "="
             [] OTHER                     -> type \in {"int", "float"}

\* Insertion sort: a row moves left past those that go after it. after holds
\* the pairs of places of rows of which the first compares greater.
SortRows(rows, after) ==
    LET insert(sorted, r) ==
            LET stay == {i \in DOMAIN sorted : <<sorted[i], r>> \notin after}
            IN  InsertAt(sorted, (IF stay = {} THEN 0 ELSE Max(stay)) + 1, r)
        order == FoldLeft(insert, <<>>, [r \in DOMAIN rows |-> r])
    IN  [i \in DOMAIN rows |-> rows[order[i]]]

\* The rows of a table with a key in one of the ranges, in key order.
Collected(table, column, ranges) ==
    LET at == ColumnAt(table, column)
        key(cells) == encode_key(cells[at])
        places == DOMAIN table.rows
        byKey == SortRows(table.rows, {p \in places \X places :
                            KeyLess(key(table.rows[p[2]]), key(table.rows[p[1]]))})
        in(r) == SelectSeq(byKey, LAMBDA cells : InRange(key(cells), r))
    IN  FlattenSeq([i \in DOMAIN ranges |-> in(ranges[i])])

\* The source rows of a table: through the first term, and for it the first
\* index, that can be served, or else by a full scan.
try_index_lookup(name, table, where) ==
    LET terms == IF where.type = "none" THEN <<>> ELSE collect_and_terms(where)
        served == {t \in DOMAIN terms : \E c \in table.indexed :
                        conjunct_matches_index(terms[t], name, table, c)}
    IN  IF served = {} THEN Scan(table)
        ELSE LET node == terms[Min(served)]
                 ranges == CASE node.literal.t = "string" -> index_scan_string(node)
                             [] node.literal.t = "bool" ->
                                    <<KeyRange(encode_key(node.literal), TRUE, encode_key(node.literal), TRUE)>>
                             [] OTHER -> index_scan_numeric(node)
                 found == Collected(table, node.column, ranges)
             IN  [i \in DOMAIN found |-> Fields(table, found[i])]

-----------------------------------------------------------------------------
(* Aggregates, grouping and the column list.                                 *)

CellOr0(cells) == IF cells = {} THEN IntCell(0) ELSE CHOOSE c \in cells : TRUE

Numbers(rows, arg) ==
    SelectSeq([i \in DOMAIN rows |-> CellOr0(row_find_field(rows[i], arg))],
              LAMBDA c : c.t \in {"int", "float"})
Present(rows, arg) ==
    SelectSeq(rows, LAMBDA r : \E c \in row_find_field(r, arg) : ~IsNull(c))
Sum2(cells) == FoldLeft(LAMBDA acc, c : acc + AsHalves(c), 0, cells)

\* MIN and MAX keep the first of the cells that compare equal.
Extreme(cells, sign) ==
    FoldLeft(LAMBDA best, c : IF sign * cell_compare(c, best) > 0 THEN c ELSE best,
             cells[1], cells)

\* The average is rounded down to a half.
compute_aggregate(agg, rows, arg) ==
    LET present == Present(rows, arg)
        cells == [i \in DOMAIN present |-> CellOr0(row_find_field(present[i], arg))]
        numbers == Numbers(present, arg)
    IN  CASE agg = "count" -> IntCell(IF arg = "*" THEN Len(rows) ELSE Len(present))
          [] agg # "count" /\ rows = <<>> -> IntCell(0)
          [] agg = "sum" /\ rows # <<>> -> FloatCell(Sum2(numbers))
          [] agg = "avg" /\ rows # <<>> ->
                FloatCell(IF numbers = <<>> THEN 0 ELSE Sum2(numbers) \div Len(numbers))
          [] agg \in {"min", "max"} /\ rows # <<>> ->
                IF cells = <<>> THEN Null ELSE Extreme(cells, IF agg = "max" THEN 1 ELSE -1)

result_append_aggregate(stmt, rows, scope) ==
    [i \in DOMAIN stmt.cols |->
        LET col == stmt.cols[i]
        IN  [name |-> col.name,
             value |-> CASE col.agg # "none" -> compute_aggregate(col.agg, rows, col.arg)
                         [] col.agg = "none" /\ rows = <<>> -> IntCell(0)
                         [] OTHER -> CellOr0(resolve_field(rows[1], col.prefix, col.name, scope))]]

result_append(stmt, row, scope) ==
    IF stmt.cols = <<>> THEN row
    ELSE [i \in DOMAIN stmt.cols |->
            [name |-> stmt.cols[i].name,
             value |-> CellOr0(resolve_field(row, stmt.cols[i].prefix, stmt.cols[i].name, scope))]]

\* Runs of rows whose keys compare equal to the first key of the run.
RECURSIVE Runs(_, _, _)
Runs(rows, col, scope) ==
    IF rows = <<>> THEN <<>>
    ELSE LET key(i) == CellOr0(resolve_field(rows[i], col.prefix, col.name, scope))
             breaks == {i \in DOMAIN rows : cell_compare(key(1), key(i)) # 0}
             n == IF breaks = {} THEN Len(rows) ELSE Min(breaks) - 1
         IN  <<SubSeq(rows, 1, n)>> \o Runs(SubSeq(rows, n + 1, Len(rows)), col, scope)

\* Grouping of the rows as they come, without the sort before it.
MutRunsUnsorted(stmt, rows, scope) == Runs(rows, stmt.group, scope)

SortedBy(rows, col, desc, scope) ==
    LET cell(r) == CellOr0(resolve_field(rows[r], col.prefix, col.name, scope))
        cmp(p) == cell_compare(cell(p[1]), cell(p[2]))
    IN  SortRows(rows, {p \in (DOMAIN rows) \X (DOMAIN rows) : IF desc THEN cmp(p) < 0 ELSE cmp(p) > 0})

Groups(stmt, rows, scope) ==
    Runs(SortedBy(rows, stmt.group, FALSE, scope), stmt.group, scope)

stmt_has_aggregates(stmt) == \E i \in DOMAIN stmt.cols : stmt.cols[i].agg # "none"

-----------------------------------------------------------------------------
(* Sources and the statement itself. A result is [status, rows]: "ok", or    *)
(* "fail" for a statement that reports an error, or "endless" when resolving *)
(* its views never ends.                                                     *)

Ok(rows) == [status |-> "ok", rows |-> rows]
Failed(status) == [status |-> status, rows |-> <<>>]

source_exists(db, name) == name \in DOMAIN db.tables \union DOMAIN db.views
view_source_exists(db, stmt) ==
    /\ source_exists(db, stmt.table)
    /\ stmt.join.kind # "none" => source_exists(db, stmt.join.table)

row_zero(table) ==
    [i \in DOMAIN table.cols |-> [name |-> table.cols[i].name,
                                  value |-> ZeroCell(table.cols[i].type)]]

\* Filler for a left row without a match: the shape of an empty view is unknown.
join_source_zero_row(db, name, rows) ==
    CASE name \in DOMAIN db.tables -> row_zero(db.tables[name])
      [] name \notin DOMAIN db.tables /\ rows = <<>> -> <<>>
      [] OTHER -> [i \in DOMAIN rows[1] |-> [name |-> rows[1][i].name,
                                             value |-> ZeroCell(rows[1][i].value.t)]]

evaluate_join(l, r, stmt) ==
    \E a \in row_find_field(l, stmt.join.left), b \in row_find_field(r, stmt.join.right) :
        ~IsNull(a) /\ ~IsNull(b) /\ cell_compare(a, b) = 0

JoinRows(stmt, left, right, zero) ==
    FlattenSeq([i \in DOMAIN left |->
        LET matched == SelectSeq(right, LAMBDA r : evaluate_join(left[i], r, stmt))
        IN  IF matched = <<>>
            THEN (IF stmt.join.kind = "left" THEN <<left[i] \o zero>> ELSE <<>>)
            ELSE [j \in DOMAIN matched |-> left[i] \o matched[j]]])

Width(db, name, rows) ==
    CASE name \in DOMAIN db.tables -> Len(db.tables[name].cols)
      [] name \notin DOMAIN db.tables /\ rows = <<>> -> 0
      [] OTHER -> Len(rows[1])

Filtered(stmt, rows, scope) ==
    IF stmt.where.type = "none" THEN rows
    ELSE SelectSeq(rows, LAMBDA r : where_eval(r, stmt.where, scope) = 1)

\* WHERE, ORDER BY, grouping, column list and LIMIT over the source rows.
\* ORDER BY and LIMIT do not apply to aggregates, GROUP BY only to them.
Limited(rows, limit) == IF limit >= 0 THEN SubSeq(rows, 1, Min({limit, Len(rows)})) ELSE rows
AggregateRows(stmt, groups, scope) ==
    [i \in DOMAIN groups |-> result_append_aggregate(stmt, groups[i], scope)]
Shown(stmt, rows, scope) == [i \in DOMAIN rows |-> result_append(stmt, rows[i], scope)]
Deliver(stmt, rows, scope) ==
    IF stmt_has_aggregates(stmt)
    THEN AggregateRows(stmt, IF stmt.group = NoCol THEN <<rows>> ELSE Groups(stmt, rows, scope), scope)
    ELSE Limited(Shown(stmt, IF stmt.order = NoCol THEN rows
                             ELSE SortedBy(rows, stmt.order, stmt.desc, scope), scope), stmt.limit)
Finish(stmt, source, scope) == Deliver(stmt, Filtered(stmt, source, scope), scope)

\* A statement over one source, and over two.
FromOne(stmt, source) ==
    IF source.status = "ok"
    THEN Ok(Finish(stmt, source.rows, [kind |-> "table", table |-> stmt.table]))
    ELSE source
FromTwo(db, stmt, left, right) ==
    CASE left.status = "endless" \/ (left.status = "ok" /\ right.status = "endless") ->
            Failed("endless")
      [] left.status = "fail" \/ (left.status = "ok" /\ right.status = "fail") -> Ok(<<>>)
      [] OTHER ->
            Ok(Finish(stmt,
                JoinRows(stmt, left.rows, right.rows,
                         join_source_zero_row(db, stmt.join.table, right.rows)),
                [kind |-> "join", table |-> stmt.table, joined |-> stmt.join.table,
                 left |-> Width(db, stmt.table, left.rows),
                 right |-> Width(db, stmt.join.table, right.rows)]))

RECURSIVE execute_select(_, _, _)

\* A view that, as a source, is read without its own WHERE clause.
MutMaterializeView(db, name, depth) ==
    CASE name \notin DOMAIN db.views -> Failed("fail")
      [] name \in DOMAIN db.views /\ depth = 0 -> Failed("endless")
      [] OTHER -> IF view_source_exists(db, db.views[name])
                  THEN execute_select(db, [db.views[name] EXCEPT !.where = NoWhere], depth - 1)
                  ELSE Failed("fail")

materialize_view(db, name, depth) ==
    CASE name \notin DOMAIN db.views -> Failed("fail")
      [] name \in DOMAIN db.views /\ depth = 0 -> Failed("endless")
      [] OTHER -> IF view_source_exists(db, db.views[name])
                  THEN execute_select(db, db.views[name], depth - 1)
                  ELSE Failed("fail")

materialize_source(db, name, depth) ==
    IF name \in DOMAIN db.tables THEN Ok(Scan(db.tables[name]))
    ELSE materialize_view(db, name, depth)

\* depth is the number of nested views still accepted; more of them than there
\* are views can only mean that the same ones come round again.
execute_select(db, stmt, depth) ==
    CASE stmt.join.kind # "none" ->
            FromTwo(db, stmt, materialize_source(db, stmt.table, depth),
                              materialize_source(db, stmt.join.table, depth))
      [] stmt.join.kind = "none" /\ stmt.table \in DOMAIN db.tables ->
            FromOne(stmt, Ok(try_index_lookup(stmt.table, db.tables[stmt.table], stmt.where)))
      [] stmt.join.kind = "none" /\ ~source_exists(db, stmt.table) -> Ok(<<>>)
      [] OTHER -> FromOne(stmt, materialize_view(db, stmt.table, depth))

sql_exec(db, stmt) == execute_select(db, stmt, Cardinality(DOMAIN db.views))

-----------------------------------------------------------------------------
(* The type the checker gives to a column of a query before it runs: a set   *)
(* that is empty when the type is not known.                                 *)

TableType(table, column) ==
    LET at == ColumnAt(table, column) IN IF at = 0 THEN {} ELSE {table.cols[at].type}

RECURSIVE view_column_type(_, _, _, _)
view_column_type(db, stmt, column, depth) ==
    LET at == {i \in DOMAIN stmt.cols : stmt.cols[i].prefix = "" /\ stmt.cols[i].name = column}
    IN  CASE depth = 0 \/ (stmt.cols # <<>> /\ at = {}) -> {}
          [] depth # 0 /\ at # {} /\ stmt.table \in DOMAIN db.tables
                /\ stmt.cols[Min(at)].agg # "none" ->
                {IF stmt.cols[Min(at)].agg = "count" THEN "int" ELSE "float"}
          [] OTHER ->
                CASE stmt.table \in DOMAIN db.tables -> TableType(db.tables[stmt.table], column)
                  [] stmt.table \in DOMAIN db.views \ DOMAIN db.tables ->
                        view_column_type(db, db.views[stmt.table], column, depth - 1)
                  [] OTHER -> {}

sql_query_column_type(db, stmt, column) ==
    CASE stmt.cols # <<>> /\ \A i \in DOMAIN stmt.cols : stmt.cols[i].name # column -> {}
      [] stmt.table \in DOMAIN db.tables -> TableType(db.tables[stmt.table], column)
      [] stmt.table \in DOMAIN db.views \ DOMAIN db.tables ->
            view_column_type(db, db.views[stmt.table], column, Cardinality(DOMAIN db.views) + 1)
      [] OTHER -> {}

=============================================================================
