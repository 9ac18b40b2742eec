---------------------------- MODULE LangMeaning -----------------------------
(***************************************************************************)
(* What a program means, defined on its tree without code or stack: the    *)
(* reference the compiled program is compared with.  A state holds the     *)
(* variables in scope as <<name, value>> pairs, newest last, the heap and  *)
(* the output.  An expression has a value or fails; a statement ends       *)
(* normally or with break, continue, return or raise.  A row variable      *)
(* stands for its own row, a cursor for the query it was declared with.    *)
(* Written is the text of a tree, with parentheses only where the          *)
(* operators' precedence asks for them.                                    *)
(***************************************************************************)
EXTENDS LangTypes, LangValues

Answer(v, s) == [v |-> v, s |-> s, e |-> ""]
Failure(e, s) == [v |-> value_null, s |-> s, e |-> e]
Finish(s, sig) == [s |-> s, sig |-> sig]
Normal == <<"normal">>

Entry(s, name) == s.env[SelectLastInSeq(s.env, LAMBDA d : d[1] = name)]
Declare(s, name, v) == [s EXCEPT !.env = Append(@, <<name, v>>)]
Assign(s, name, v) == [s EXCEPT !.env[SelectLastInSeq(s.env, LAMBDA d : d[1] = name)][2] = v]
Leave(outer, s) == [s EXCEPT !.env = SubSeq(@, 1, Len(outer.env))]
Allocate(kind, o, s) == Answer(<<kind, Len(s.heap) + 1>>, [s EXCEPT !.heap = Append(@, o)])
Answered(r, s) == IF r.error = "" THEN Answer(r.value, [s EXCEPT !.heap = r.heap]) ELSE Failure(r.error, s)

RECURSIVE Eval(_, _, _), Exec(_, _, _), ExecAll(_, _, _), While(_, _, _, _), DoWhile(_, _, _, _), Each(_, _, _, _, _, _),
          CFor(_, _, _, _, _), Rows(_, _, _, _, _), Choose(_, _, _, _, _)

EvalAll(es, s, G) ==
  LET next(a, e) == LET r == Eval(e, a.s, G)
                    IN  IF a.e # "" THEN a
                        ELSE IF r.e # "" THEN Failure(r.e, r.s) ELSE Answer(Append(a.v, r.v), r.s)
  IN  FoldLeft(next, Answer(<<>>, s), es)

Operands(e) ==
  CASE e[1] = "binary" -> <<e[3], e[4]>>
    [] e[1] = "unary" -> <<e[3]>>
    [] e[1] = "index" -> <<e[2], e[3]>>
    [] e[1] = "array" -> e[2]
    [] e[1] = "map_literal" -> [i \in 1..(2 * Len(e[2])) |-> IF i % 2 = 1 THEN e[3][(i + 1) \div 2] ELSE e[2][i \div 2]]
    [] e[1] = "struct_literal" -> e[4]
    [] e[1] = "row_field" -> <<e[2]>>

Operation(op, a, b) ==
  CASE op = "+" -> value_add(a, b) [] op = "-" -> value_sub(a, b) [] op = "*" -> value_mul(a, b)
    [] op = "/" -> value_div(a, b) [] op = "==" -> value_eq(a, b) [] op = "<" -> value_lt(a, b) [] op = ">" -> value_gt(a, b)

Apply(e, vs, s) ==
  CASE e[1] = "binary" -> Answer(Operation(e[2], vs[1], vs[2]), s)
    [] e[1] = "unary" /\ e[2] = "!" -> Answer(value_bool(~value_is_truthy(vs[1])), s)
    [] e[1] = "unary" ->
         IF Kind(vs[1]) \in {"int", "float", "null"} THEN Answer(negated(vs[1]), s) ELSE Failure("Cannot negate non-numeric value", s)
    [] e[1] = "index" -> Answered(index_get(vs[1], vs[2], s.heap), s)
    [] e[1] = "array" -> Allocate("array", array_of(vs), s)
    [] e[1] = "map_literal" ->
         LET n == Len(vs) \div 2
         IN  IF \E i \in 1..n : Kind(vs[2 * i]) \notin {"int", "string"} THEN Failure("Map key must be int or string", s)
             ELSE Allocate("map", [kind |-> "map", keys |-> [i \in 1..n |-> vs[2 * (n - i + 1)]],
                              values |-> [i \in 1..n |-> vs[2 * (n - i + 1) - 1]]], s)
    [] e[1] = "struct_literal" -> Allocate("row", row_obj_of(e[3], vs), s)
    [] e[1] = "row_field" /\ Kind(vs[1]) # "row" -> Failure("Cannot access field on non-row value", s)
    [] e[1] = "row_field" -> Answer(row_obj_get_field(s.heap[vs[1][2]], e[3]), s)

(* The callee sees its parameters only; on return the variables behind OUT *)
(* and IN OUT parameters take the parameters' last values.                 *)
Invoke(name, args, s, G) ==
  LET d == G.procs[SelectInSeq(G.procs, LAMBDA x : x.name = name)]
      given == EvalAll([k \in DOMAIN args |-> IF d.params[k].mode = "out" THEN <<"literal", value_int(0)>> ELSE args[k]], s, G)
      bound == [given.s EXCEPT !.env = [k \in DOMAIN args |-> <<d.params[k].name, given.v[k]>>]]
      r == ExecAll(d.body, bound, G)
      back == [r.s EXCEPT !.env = s.env]
      write(t, k) == IF d.params[k].mode = "in" THEN t ELSE Assign(t, args[k][2], r.s.env[k][2])
  IN  CASE given.e # "" -> given
        [] r.sig[1] = "raise" -> Failure(r.sig[2], back)
        [] r.sig[1] = "return" -> Answer(r.sig[2], FoldLeft(write, back, [k \in DOMAIN args |-> k]))

Eval(e, s, G) ==
  CASE e[1] = "literal" -> Answer(e[2], s)
    [] e[1] \in {"variable", "sql_param"} -> Answer(Entry(s, e[2])[2], s)
    [] e[1] = "cursor_attr" -> Answer(cursor_attribute(Entry(s, e[2])[2], e[3], s.heap), s)
    [] e[1] = "call" /\ e[2] \in Natives ->
         LET args == EvalAll(e[3], s, G) IN IF args.e # "" THEN args ELSE Answered(native_call(e[2], args.v, args.s.heap), args.s)
    [] e[1] = "call" -> Invoke(e[2], e[3], s, G)
    [] e[1] = "row_field" /\ e[2][1] = "variable" /\ Entry(s, e[2][2])[2][1] = "current" ->
         LET r == Entry(s, e[2][2])[2] IN Answer(r[3][SelectInSeq(r[2], LAMBDA c : c[1] = e[3])], s)
    [] OTHER -> LET vs == EvalAll(Operands(e), s, G) IN IF vs.e # "" THEN vs ELSE Apply(e, vs.v, vs.s)

(* Evaluate, then go on with the value, or raise.                          *)
Raised(r) == Finish(r.s, <<"raise", r.e>>)

ExecAll(stmts, s, G) ==
  LET next(r, x) == IF r.sig = Normal THEN Exec(x, r.s, G) ELSE r
      r == FoldLeft(next, Finish(s, Normal), stmts)
  IN  Finish(Leave(s, r.s), r.sig)

Ends(sig) == sig[1] \in {"break", "return", "raise"}
LoopEnd(r) == Finish(r.s, IF r.sig[1] = "break" THEN Normal ELSE r.sig)

While(cond, body, s, G) ==
  LET t == Eval(cond, s, G)
      r == ExecAll(body, t.s, G)
  IN  CASE t.e # "" -> Raised(t)
        [] ~value_is_truthy(t.v) -> Finish(t.s, Normal)
        [] Ends(r.sig) -> LoopEnd(r)
        [] OTHER -> While(cond, body, r.s, G)

DoWhile(cond, body, s, G) ==
  LET r == ExecAll(body, s, G)
      t == Eval(cond, r.s, G)
  IN  CASE Ends(r.sig) -> LoopEnd(r)
        [] t.e # "" -> Raised(t)
        [] value_is_truthy(t.v) -> DoWhile(cond, body, t.s, G)
        [] OTHER -> Finish(t.s, Normal)

CFor(cond, step, body, s, G) ==
  LET t == IF cond = NoNode THEN Answer(value_int(1), s) ELSE Eval(cond, s, G)
      r == ExecAll(body, t.s, G)
      u == ExecAll(step, r.s, G)
  IN  CASE t.e # "" -> Raised(t)
        [] ~value_is_truthy(t.v) -> Finish(t.s, Normal)
        [] Ends(r.sig) -> LoopEnd(r)
        [] u.sig # Normal -> u
        [] OTHER -> CFor(cond, step, body, u.s, G)

(* The elements of an array as it is when each turn comes.                 *)
Each(var, array, i, body, s, G) ==
  LET r == ExecAll(body, Declare(s, var, s.heap[array[2]].items[i]), G)
      t == Leave(s, r.s)
  IN  CASE i > Len(s.heap[array[2]].items) -> Finish(s, Normal)
        [] Ends(r.sig) -> LoopEnd(Finish(t, r.sig))
        [] OTHER -> Each(var, array, i + 1, body, t, G)

Rows(var, query, rows, body, R) ==
  LET r == ExecAll(body, Declare(R.s, var, <<"current", query.cols, rows[1]>>), R.G)
      t == Leave(R.s, r.s)
  IN  CASE rows = <<>> -> Finish(R.s, Normal)
        [] Ends(r.sig) -> LoopEnd(Finish(t, r.sig))
        [] OTHER -> Rows(var, query, Tail(rows), body, [R EXCEPT !.s = t])

Choose(i, sel, c, s, G) ==
  LET r == Eval(c[3][i], s, G)
  IN  CASE i > Len(c[3]) -> ExecAll(c[5], s, G)
        [] r.e # "" -> Raised(r)
        [] value_is_truthy(value_eq(sel, r.v)) -> ExecAll(c[4][i], r.s, G)
        [] OTHER -> Choose(i + 1, sel, c, r.s, G)

Arguments1(names, s) == [i \in DOMAIN names |-> Entry(s, names[i])[2]]
Stored(r, s) == IF r.error = "" THEN Finish([s EXCEPT !.heap = r.heap], Normal) ELSE Finish(s, <<"raise", r.error>>)
AssignAll(vars, values, s) ==
  FoldLeft(LAMBDA t, i : Assign(t, vars[i], values[i]), s, [i \in DOMAIN vars |-> i])

Initial(type, s) ==
  CASE type_is_array(type) -> Allocate("array", array_of(<<>>), s)
    [] type_is_map(type) -> Allocate("map", map_new, s)
    [] type[1] = "struct" -> Allocate("row", row_obj_of(<<>>, <<>>), s)
    [] OTHER -> Answer(value_int(0), s)

ExecTry(x, s, G) ==
  LET r == ExecAll(x[2], s, G)
      c == ExecAll(x[4], Declare(r.s, x[3], value_string(<<r.sig[2]>>)), G)
  IN  IF r.sig[1] # "raise" THEN r ELSE Finish(Leave(s, c.s), c.sig)

ExecCFor(x, s, G) ==
  LET i == FoldLeft(LAMBDA r, y : Exec(y, r.s, G), Finish(s, Normal), x[2])
      r == CFor(x[3], x[4], x[5], i.s, G)
  IN  IF i.sig # Normal THEN i ELSE Finish(Leave(s, r.s), r.sig)

ExecFetch(x, s) ==
  LET id == Entry(s, x[2])[2][2]
      c == s.heap[id]
      moved == [s EXCEPT !.heap[id] = [@ EXCEPT !.rows = Tail(@), !.found = TRUE, !.count = @ + 1]]
  IN  CASE id = 0 -> Finish(s, <<"raise", "FETCH requires a cursor variable">>)
        [] ~c.open -> Finish(s, <<"raise", "FETCH on closed cursor">>)
        [] c.rows = <<>> -> Finish([s EXCEPT !.heap[id].found = FALSE], Normal)
        [] OTHER -> Finish(AssignAll(x[3], Head(c.rows), moved), Normal)

ExecOpen(x, s) ==
  LET query == IF x[3] = <<>> THEN Entry(s, x[2])[3] ELSE x[3]
      rows == driver_query(query[1], Arguments1(query[1].params, s))
      opened == Allocate("cursor", cursor_of(rows), s)
  IN  Finish(Assign(opened.s, x[2], opened.v), Normal)

ExecSelect(query, s) ==
  LET rows == driver_query(query, Arguments1(query.params, s))
  IN  IF rows = <<>> THEN Finish(s, <<"raise", "SELECT INTO found no matching row">>)
      ELSE Finish(AssignAll(query.into, rows[1], s), Normal)

(* Statements that evaluate one expression first.                          *)
ExecWith(x, e, s, G) ==
  LET r == Eval(e, s, G)
  IN  CASE r.e # "" -> Raised(r)
        [] x[1] = "var_decl" -> Finish(Declare(r.s, x[3], r.v), Normal)
        [] x[1] = "assign" -> Finish(Assign(r.s, x[2], r.v), Normal)
        [] x[1] = "return" -> Finish(r.s, <<"return", r.v>>)
        [] x[1] = "print" -> Finish([r.s EXCEPT !.out = Append(@, value_print(r.v, r.s.heap))], Normal)
        [] x[1] = "expr" -> Finish(r.s, Normal)
        [] x[1] = "if" -> ExecAll(IF value_is_truthy(r.v) THEN x[3] ELSE x[4], r.s, G)
        [] x[1] = "foreach" -> Each(x[2], r.v, 1, x[4], r.s, G)
        [] x[1] = "case" -> Choose(1, r.v, x, r.s, G)

Exec(x, s, G) ==
  CASE x[1] = "var_decl" /\ x[4] = NoNode ->
         LET r == Initial(x[2], s) IN Finish(Declare(r.s, x[3], r.v), Normal)
    [] x[1] = "var_decl" -> ExecWith(x, x[4], s, G)
    [] x[1] = "assign" -> ExecWith(x, x[3], s, G)
    [] x[1] \in {"return", "print", "expr", "if", "case"} -> ExecWith(x, x[2], s, G)
    [] x[1] = "foreach" -> ExecWith(x, x[3], s, G)
    [] x[1] = "field_assign" ->
         LET r == EvalAll(<<x[2], x[4]>>, s, G)
         IN  IF r.e # "" THEN Raised(r) ELSE Stored(index_set(r.v[1], value_string(<<x[3]>>), r.v[2], r.s.heap), r.s)
    [] x[1] = "index_assign" ->
         LET r == EvalAll(<<x[2], x[3], x[4]>>, s, G)
         IN  IF r.e # "" THEN Raised(r) ELSE Stored(index_set(r.v[1], r.v[2], r.v[3], r.s.heap), r.s)
    [] x[1] = "while" -> While(x[2], x[3], s, G)
    [] x[1] = "do_while" -> DoWhile(x[2], x[3], s, G)
    [] x[1] = "cfor" -> ExecCFor(x, s, G)
    [] x[1] = "for" -> Rows(x[2], x[3], driver_query(x[3], Arguments1(x[3].params, s)), x[4], [s |-> s, G |-> G])
    [] x[1] \in {"break", "continue"} -> Finish(s, <<x[1]>>)
    [] x[1] = "try_catch" -> ExecTry(x, s, G)
    [] x[1] = "exception_decl" -> Finish(s, Normal)
    [] x[1] = "raise" -> Finish(s, <<"raise", x[2]>>)
    [] x[1] = "sql_query" -> ExecSelect(x[2], s)
    [] x[1] = "cursor_decl" -> Finish([s EXCEPT !.env = Append(@, <<x[2], <<"cursor", 0>>, x[3]>>)], Normal)
    [] x[1] = "cursor_open" -> ExecOpen(x, s)
    [] x[1] = "cursor_fetch" -> ExecFetch(x, s)
    [] x[1] = "cursor_close" ->
         LET id == Entry(s, x[2])[2][2]
         IN  IF id = 0 THEN Finish(s, <<"raise", "CLOSE requires a cursor variable">>)
             ELSE Finish([s EXCEPT !.heap[id] = [@ EXCEPT !.open = FALSE, !.found = FALSE, !.rows = <<>>]], Normal)

(* The output of a program, and the value main returns or the error it     *)
(* ends with.                                                              *)
Meaning(G) ==
  LET r == Invoke("main", <<>>, [env |-> <<>>, heap |-> <<>>, out |-> <<>>], G)
  IN  IF r.e = "" THEN [out |-> r.s.out, ends |-> "done", value |-> <<r.v>>]
      ELSE [out |-> Append(r.s.out, <<"error", r.e>>), ends |-> "error", value |-> <<>>]

---------------------------------------------------------------------------
RECURSIVE WrittenExpr(_, _), WrittenStmt(_), WrittenType(_)

Separated(parts) ==
  IF parts = <<>> THEN <<>> ELSE FoldLeft(LAMBDA all, part : all \o << <<",">> >> \o part, parts[1], Tail(parts))

Token(type) == << <<type>> >>
Name(name) == << <<"ident", name>> >>

Binding(e) == CASE e[1] = "binary" -> get_rule(e[2])
                [] e[1] = "unary" -> PREC_UNARY
                [] OTHER -> PREC_CALL

WrittenArgs(args) == Token("(") \o Separated([i \in DOMAIN args |-> WrittenExpr(args[i], PREC_ASSIGNMENT)]) \o Token(")")

WrittenLiteral(v) ==
  CASE v[1] = "bool" -> Token(IF v[2] = 1 THEN "true" ELSE "false")
    [] v[1] = "null" -> Token("null")
    [] OTHER -> <<v>>

Bare(e) ==
  CASE e[1] = "literal" -> WrittenLiteral(e[2])
    [] e[1] = "variable" -> Name(e[2])
    [] e[1] = "binary" -> WrittenExpr(e[3], get_rule(e[2])) \o Token(e[2]) \o WrittenExpr(e[4], get_rule(e[2]) + 1)
    [] e[1] = "unary" -> Token(e[2]) \o WrittenExpr(e[3], PREC_UNARY)
    [] e[1] = "array" -> Token("[") \o Separated([i \in DOMAIN e[2] |-> WrittenExpr(e[2][i], PREC_ASSIGNMENT)]) \o Token("]")
    [] e[1] = "map_literal" ->
         Token("{") \o Separated([i \in DOMAIN e[2] |-> WrittenExpr(e[2][i], PREC_ASSIGNMENT) \o Token(":")
                                                          \o WrittenExpr(e[3][i], PREC_ASSIGNMENT)]) \o Token("}")
    [] e[1] = "struct_literal" ->
         Name(e[2]) \o Token("{") \o Separated([i \in DOMAIN e[3] |-> Name(e[3][i]) \o Token("=")
                                                                       \o WrittenExpr(e[4][i], PREC_ASSIGNMENT)]) \o Token("}")
    [] e[1] = "index" -> WrittenExpr(e[2], PREC_CALL) \o Token("[") \o WrittenExpr(e[3], PREC_ASSIGNMENT) \o Token("]")
    [] e[1] = "row_field" -> WrittenExpr(e[2], PREC_CALL) \o Token(".") \o Name(e[3])
    [] e[1] = "cursor_attr" -> Name(e[2]) \o Token("%") \o Name(e[3])
    [] e[1] = "call" /\ (is_collection_method_name(e[2]) \/ e[2] = "array_trim") ->
         WrittenExpr(e[3][1], PREC_CALL) \o Token(".") \o Name(IF e[2] = "array_trim" THEN "trim" ELSE e[2]) \o WrittenArgs(Tail(e[3]))
    [] e[1] = "call" -> Name(e[2]) \o WrittenArgs(e[3])

WrittenExpr(e, prec) == IF Binding(e) < prec THEN Token("(") \o Bare(e) \o Token(")") ELSE Bare(e)

Full(e) == WrittenExpr(e, PREC_ASSIGNMENT)

WrittenType(t) ==
  CASE t[1] = "array" -> Token("array") \o Token("<") \o WrittenType(t[2]) \o Token(">")
    [] t[1] = "map" -> Token("map") \o Token("<") \o WrittenType(t[2]) \o Token(",") \o WrittenType(t[3]) \o Token(">")
    [] t[1] = "struct" -> Name(t[2])
    [] t[1] = "unknown" -> Token("any_type")
    [] OTHER -> Token(t[1])

Block(stmts) == FoldLeft(LAMBDA ts, x : ts \o WrittenStmt(x), Token("{"), stmts) \o Token("}")
Statement(ts) == ts \o Token(";")
Query(query) == << <<"sql_query", query>> >>

WrittenStep(x) == IF x[1] = "assign" THEN Name(x[2]) \o Token("=") \o Full(x[3]) ELSE Full(x[2])

WrittenStmt(x) ==
  CASE x[1] = "var_decl" ->
         Statement(WrittenType(x[2]) \o Name(x[3]) \o IF x[4] = NoNode THEN <<>> ELSE Token("=") \o Full(x[4]))
    [] x[1] = "assign" -> Statement(WrittenStep(x))
    [] x[1] = "field_assign" -> Statement(Bare(x[2]) \o Token(".") \o Name(x[3]) \o Token("=") \o Full(x[4]))
    [] x[1] = "index_assign" -> Statement(Bare(x[2]) \o Token("[") \o Full(x[3]) \o Token("]") \o Token("=") \o Full(x[4]))
    [] x[1] = "return" -> Statement(Token("return") \o Full(x[2]))
    [] x[1] = "print" -> Statement(Token("print") \o Full(x[2]))
    [] x[1] = "expr" -> Statement(Full(x[2]))
    [] x[1] = "if" -> Token("if") \o Full(x[2]) \o Block(x[3]) \o IF x[4] = <<>> THEN <<>> ELSE Token("else") \o Block(x[4])
    [] x[1] = "while" -> Token("while") \o Full(x[2]) \o Block(x[3])
    [] x[1] = "do_while" -> Statement(Token("do") \o Block(x[3]) \o Token("while") \o Full(x[2]))
    [] x[1] = "foreach" -> Token("for") \o Name(x[2]) \o Token("in") \o Full(x[3]) \o Block(x[4])
    [] x[1] = "for" -> Token("for") \o Name(x[2]) \o Token("in") \o Query(x[3]) \o Block(x[4])
    [] x[1] = "cfor" ->
         Token("for") \o Token("(") \o (IF x[2] = <<>> THEN Token(";") ELSE WrittenStmt(x[2][1]))
           \o (IF x[3] = NoNode THEN <<>> ELSE Full(x[3])) \o Token(";")
           \o (IF x[4] = <<>> THEN <<>> ELSE WrittenStep(x[4][1])) \o Token(")") \o Block(x[5])
    [] x[1] \in {"break", "continue"} -> Statement(Token(x[1]))
    [] x[1] = "try_catch" ->
         Token("try") \o Block(x[2]) \o Token("catch") \o Token("(") \o Name(x[3]) \o Token(")") \o Block(x[4])
    [] x[1] = "exception_decl" -> Statement(Name(x[2]) \o Token("exception"))
    [] x[1] = "raise" -> Statement(Token("raise") \o Name(x[2]))
    [] x[1] = "case" ->
         Token("case") \o Full(x[2]) \o Token("{")
           \o FoldLeft(LAMBDA ts, i : ts \o Token("when") \o Full(x[3][i]) \o Token(":") \o Block(x[4][i]), <<>>,
                       [i \in DOMAIN x[3] |-> i])
           \o (IF x[5] = <<>> THEN Token("}") ELSE Token("else") \o Token(":") \o Block(x[5]) \o Token("}"))
    [] x[1] = "sql_query" -> Statement(Query(x[2]))
    [] x[1] = "cursor_decl" -> Statement(Token("cursor") \o Name(x[2]) \o IF x[3] = <<>> THEN <<>> ELSE Token("is") \o Query(x[3][1]))
    [] x[1] = "cursor_open" -> Statement(Token("open") \o Name(x[2]) \o IF x[3] = <<>> THEN <<>> ELSE Token("for") \o Query(x[3][1]))
    [] x[1] = "cursor_fetch" ->
         Statement(Token("fetch") \o Name(x[2]) \o Token("into") \o Separated([i \in DOMAIN x[3] |-> Name(x[3][i])]))
    [] x[1] = "cursor_close" -> Statement(Token("close") \o Name(x[2]))

WrittenProc(d) ==
  LET mode(m) == CASE m = "in" -> <<>> [] m = "out" -> Token("out") [] OTHER -> Token("in") \o Token("out")
  IN  Token("proc") \o Name(d.name) \o Token("(")
        \o Separated([k \in DOMAIN d.params |-> Name(d.params[k].name) \o mode(d.params[k].mode) \o WrittenType(d.params[k].type)])
        \o Token(")") \o Token("->") \o WrittenType(d.ret) \o Block(d.body)

WrittenStruct(d) ==
  Token("struct") \o Name(d.name) \o Token("{")
    \o Separated([i \in DOMAIN d.fields |-> Name(d.fields[i][1]) \o WrittenType(d.fields[i][2])]) \o Token("}")

Written(G) ==
  FoldLeft(LAMBDA ts, d : ts \o WrittenProc(d),
           FoldLeft(LAMBDA ts, d : ts \o WrittenStruct(d), <<>>, G.structs), G.procs)
=============================================================================
