------------------------------ MODULE SqlWhere ------------------------------
(* The WHERE clause of the custom SQL engine: tokens, the recursive-descent  *)
(* parser, and three-valued evaluation over one row. A row is a sequence of  *)
(* fields [name, value]. A token is [k |-> kind] with its payload in x.      *)
EXTENDS SqlCells

CONSTANT MaxInList      \* MAX_IN_LIST

Word(k) == [k |-> k, x |-> Null]
Ident(name) == [k |-> "ident", x |-> name]
Lit(c) == [k |-> IF IsNull(c) THEN "null" ELSE "lit", x |-> c]

Kind(toks, i) == IF i <= Len(toks) THEN toks[i].k ELSE "eof"

\* sql_number_placeholders and the binding of the numbered placeholders: the
\* n-th ? becomes the n-th value; the counts must agree.
Placeholders(toks) == {i \in DOMAIN toks : toks[i].k = "?"}
BindsFit(toks, binds) ==
    Len(binds) > 0 => Cardinality(Placeholders(toks)) = Len(binds)
Bound(toks, binds) ==
    [i \in DOMAIN toks |->
        IF toks[i].k = "?" /\ Len(binds) > 0
        THEN [k |-> "lit", x |-> sql_param_cell(binds[Cardinality({j \in Placeholders(toks) : j <= i})])]
        ELSE toks[i]]

-----------------------------------------------------------------------------
(* Nodes of the expression tree.                                             *)

Junction(op, l, r) == [type |-> op, left |-> l, right |-> r]
Negation(l) == [type |-> "not", left |-> l]
Cmp(col, op, lit) == [type |-> "cmp", prefix |-> col.prefix, column |-> col.name,
                      cmp_op |-> op, literal |-> lit]
NullTest(col, isnull) == [type |-> IF isnull THEN "is_null" ELSE "is_not_null",
                          prefix |-> col.prefix, column |-> col.name]
InList(col, list, negate) == [type |-> "in", prefix |-> col.prefix, column |-> col.name,
                              list |-> list, negate |-> negate]
Like(col, pattern, negate) == [type |-> "like", prefix |-> col.prefix, column |-> col.name,
                               literal |-> pattern, negate |-> negate]

CmpOps == {"=", "<", ">", "<=", ">=", "<>"}

-----------------------------------------------------------------------------
(* The parser. Each operator returns the node it read and the position after *)
(* it, or Fail.                                                              *)

Fail == [ok |-> FALSE]
Read(node, i) == [ok |-> TRUE, node |-> node, at |-> i]

IsLiteral(toks, i) == Kind(toks, i) \in {"lit", "null"}

\* A column name, alone or behind a table name and a dot.
Qualified(toks, i) ==
    CASE Kind(toks, i) # "ident" -> Fail
      [] Kind(toks, i) = "ident" /\ Kind(toks, i + 1) # "." ->
            Read([prefix |-> "", name |-> toks[i].x], i + 1)
      [] OTHER -> IF Kind(toks, i + 2) = "ident"
                  THEN Read([prefix |-> toks[i].x, name |-> toks[i + 2].x], i + 3) ELSE Fail

\* The literals of an IN list from position i up to its closing parenthesis.
\* A comma may stand before the parenthesis.
RECURSIVE InLiterals(_, _, _)
InLiterals(toks, i, list) ==
    IF Kind(toks, i) = ")" THEN (IF list = <<>> THEN Fail ELSE Read(list, i + 1))
    ELSE IF Len(list) >= MaxInList \/ ~IsLiteral(toks, i) THEN Fail
    ELSE CASE Kind(toks, i + 1) = "," -> InLiterals(toks, i + 2, Append(list, toks[i].x))
           [] Kind(toks, i + 1) = ")" -> InLiterals(toks, i + 1, Append(list, toks[i].x))
           [] OTHER -> Fail

\* What may follow a column name at position i.
Comparison(toks, i, col) ==
    LET negated == Kind(toks, i) = "not"
        j == IF negated THEN i + 1 ELSE i
        isnot == Kind(toks, i + 1) = "not"
        k == IF isnot THEN i + 2 ELSE i + 1
    IN  CASE Kind(toks, i) = "is" ->
                IF Kind(toks, k) = "null" THEN Read(NullTest(col, ~isnot), k + 1) ELSE Fail
          [] Kind(toks, j) = "in" ->
                IF Kind(toks, j + 1) # "(" THEN Fail
                ELSE LET l == InLiterals(toks, j + 2, <<>>)
                     IN  IF l.ok THEN Read(InList(col, l.node, negated), l.at) ELSE Fail
          [] Kind(toks, j) = "like" ->
                IF Kind(toks, j + 1) = "lit" /\ toks[j + 1].x.t = "string"
                THEN Read(Like(col, toks[j + 1].x, negated), j + 2) ELSE Fail
          [] Kind(toks, j) \in CmpOps /\ ~negated /\ IsLiteral(toks, i + 1) ->
                Read(Cmp(col, Kind(toks, i), toks[i + 1].x), i + 2)
          [] OTHER -> Fail

RECURSIVE where_parse_or(_, _), where_parse_not(_, _), Tail2(_, _, _), Linked(_, _, _, _)

Closed(toks, inner) ==
    IF inner.ok /\ Kind(toks, inner.at) = ")" THEN [inner EXCEPT !.at = @ + 1] ELSE Fail
Compared(toks, col) == IF col.ok THEN Comparison(toks, col.at, col.node) ELSE Fail
where_parse_primary(toks, i) ==
    IF Kind(toks, i) = "(" THEN Closed(toks, where_parse_or(toks, i + 1))
    ELSE Compared(toks, Qualified(toks, i))

where_parse_not(toks, i) ==
    IF Kind(toks, i) # "not" THEN where_parse_primary(toks, i)
    ELSE LET operand == where_parse_not(toks, i + 1)
         IN  IF operand.ok THEN [operand EXCEPT !.node = Negation(@)] ELSE Fail

\* The loops of where_parse_and and where_parse_or: left-associative chains of
\* operands one precedence level up.
Tail2(toks, op, left) ==
    IF ~left.ok \/ Kind(toks, left.at) # op THEN left
    ELSE Linked(toks, op, left,
                IF op = "and" THEN where_parse_not(toks, left.at + 1)
                ELSE Tail2(toks, "and", where_parse_not(toks, left.at + 1)))
Linked(toks, op, left, right) ==
    IF right.ok THEN Tail2(toks, op, Read(Junction(op, left.node, right.node), right.at)) ELSE Fail

where_parse_and(toks, i) == Tail2(toks, "and", where_parse_not(toks, i))

\* A parser that gives AND and OR the same precedence.
MutWhereParseOr(toks, i) ==
    LET left == where_parse_not(toks, i)
    IN  IF left.ok /\ Kind(toks, left.at) \in {"and", "or"}
        THEN LET right == where_parse_or(toks, left.at + 1)
             IN  IF right.ok THEN Read(Junction(Kind(toks, left.at), left.node, right.node), right.at)
                 ELSE Fail
        ELSE left

where_parse_or(toks, i) == Tail2(toks, "or", where_parse_and(toks, i))

\* The whole clause of an UPDATE, DELETE or SELECT: nothing may be left over.
parse_where_clause(toks) ==
    LET r == where_parse_or(toks, 1)
    IN  IF r.ok /\ r.at > Len(toks) THEN r ELSE Fail

-----------------------------------------------------------------------------
(* Evaluation: 1 true, 0 false, -1 unknown.                                  *)

RECURSIVE like_match(_, _, _, _)
like_match(p, i, s, j) ==
    IF i > Len(p) THEN j > Len(s)
    ELSE IF p[i] = Percent
         THEN i = Len(p) \/ \E k \in j .. (Len(s) + 1) : like_match(p, i + 1, s, k)
         ELSE /\ j <= Len(s)
              /\ p[i] \in {Underscore, s[j]}
              /\ like_match(p, i + 1, s, j + 1)

Truth(b) == IF b THEN 1 ELSE 0

cmp_holds(op, cmp) ==
    CASE op = "="  -> cmp = 0
      [] op = "<"  -> cmp < 0
      [] op = ">"  -> cmp > 0
      [] op = "<=" -> cmp <= 0
      [] op = ">=" -> cmp >= 0
      [] op = "<>" -> cmp # 0

\* One comparison against the cell the column resolved to.
EvalLeaf(node, c) ==
    CASE node.type = "is_null"     -> Truth(IsNull(c))
      [] node.type = "is_not_null" -> Truth(~IsNull(c))
      [] IsNull(c)                 -> -1
      [] node.type = "cmp" ->
            IF IsNull(node.literal) THEN -1
            ELSE Truth(cmp_holds(node.cmp_op, cell_compare(c, node.literal)))
      [] node.type = "in" ->
            LET nulls == \E i \in DOMAIN node.list : IsNull(node.list[i])
                found == \E i \in DOMAIN node.list :
                            ~IsNull(node.list[i]) /\ cell_compare(c, node.list[i]) = 0
            IN  IF found THEN Truth(~node.negate)
                ELSE IF nulls THEN -1 ELSE Truth(node.negate)
      [] node.type = "like" ->
            IF c.t # "string" THEN -1
            ELSE Truth(like_match(Texts[node.literal.v], 1, Texts[c.v], 1) # node.negate)

\* The first field of a row with the name, in positions lo..hi: a set that is
\* empty when there is none.
FirstNamed(row, name, lo, hi) ==
    LET at == {i \in lo .. Min({hi, Len(row)}) : row[i].name = name}
    IN  IF at = {} THEN {} ELSE {row[Min(at)].value}

row_find_field(row, name) == FirstNamed(row, name, 1, Len(row))

\* A lookup of a prefixed name that does not know where the left side ends.
MutResolveField(row, prefix, name, scope) == row_find_field(row, name)

\* A prefixed name in a joined row is looked up on its own side only. The scope
\* of an UPDATE or DELETE ignores prefixes.
resolve_field(row, prefix, name, scope) ==
    CASE prefix = "" \/ scope.kind = "dml" -> row_find_field(row, name)
      [] scope.kind = "table" ->
            IF prefix = scope.table THEN row_find_field(row, name) ELSE {}
      [] scope.kind = "join" ->
            CASE prefix = scope.table  -> FirstNamed(row, name, 1, scope.left)
              [] prefix = scope.joined /\ prefix # scope.table ->
                    FirstNamed(row, name, scope.left + 1, scope.left + scope.right)
              [] OTHER -> {}

DmlScope == [kind |-> "dml"]

RECURSIVE where_eval(_, _, _)
where_eval(row, node, scope) ==
    CASE node.type = "and" ->
            LET l == where_eval(row, node.left, scope)
                r == where_eval(row, node.right, scope)
            IN  IF 0 \in {l, r} THEN 0 ELSE IF -1 \in {l, r} THEN -1 ELSE 1
      [] node.type = "or" ->
            LET l == where_eval(row, node.left, scope)
                r == where_eval(row, node.right, scope)
            IN  IF 1 \in {l, r} THEN 1 ELSE IF -1 \in {l, r} THEN -1 ELSE 0
      [] node.type = "not" ->
            LET v == where_eval(row, node.left, scope) IN IF v = -1 THEN -1 ELSE 1 - v
      [] OTHER ->
            LET cells == resolve_field(row, node.prefix, node.column, scope)
            IN  IF cells = {} THEN -1 ELSE EvalLeaf(node, CHOOSE c \in cells : TRUE)

=============================================================================
