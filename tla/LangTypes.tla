----------------------------- MODULE LangTypes ------------------------------
(***************************************************************************)
(* The type checker.  Its environment holds the scope stack as one         *)
(* sequence of <<name, type>> pairs (a lookup finds the last pair with the *)
(* name, and leaving a scope restores the sequence of before), the row     *)
(* variables with the columns of their queries, and, for the rest of the   *)
(* program, the exceptions and the cursors declared so far.  G holds the   *)
(* program's structs and procedures.  An expression has a type or          *)
(* TypeError, a statement a verdict and the environment it leaves behind.  *)
(***************************************************************************)
EXTENDS LangSyntax, SequencesExt

type_int == <<"int_type">>
type_float == <<"float_type">>
type_string == <<"string_type">>
type_bool == <<"bool_type">>
type_unknown == <<"unknown">>
type_cursor == <<"cursor">>
TypeError == <<"error">>

type_is_numeric(t) == t \in {type_int, type_float}
type_is_array(t) == t[1] = "array"
type_is_map(t) == t[1] = "map"

LastNamed(pairs, name, default) ==
  LET i == SelectLastInSeq(pairs, LAMBDA d : d[1] = name)
  IN  IF i = 0 THEN default ELSE pairs[i][2]

resolve_local(env, name) == LastNamed(env.locals, name, TypeError)

(* The columns of a row variable's query, the parameters of a cursor's.    *)
find_row(env, name) == LastNamed(env.rows, name, <<>>)
find_cursor(env, name) == LastNamed(env.cursors, name, <<>>)

types_compatible(expected, actual) ==
  \/ type_unknown \in {expected, actual}
  \/ expected = actual
  \/ type_is_numeric(expected) /\ type_is_numeric(actual)

MutTypesAssignable(target, value) == TRUE

types_assignable(target, value) ==
  \/ type_unknown \in {target, value}
  \/ target = value
  \/ target = type_float /\ value = type_int

is_condition_type(t) == t \in {type_unknown, type_bool} \/ type_is_numeric(t)

is_scalar(t) == t \in {type_int, type_float, type_string, type_bool}

is_primitive(t) == t \in {type_unknown, type_int, type_float, type_string, type_bool}

common_numeric_type(left, right) == IF type_float \in {left, right} THEN type_float ELSE type_int

find_struct(G, name) == {i \in DOMAIN G.structs : G.structs[i].name = name}

struct_field_type(G, name, fld) ==
  LET types == {f[2] : f \in {f \in UNION {ToSet(G.structs[i].fields) : i \in find_struct(G, name)} : f[1] = fld}}
  IN  IF types = {} THEN TypeError ELSE CHOOSE t \in types : TRUE

resolve_field_type(G, base, fld) ==
  IF base[1] = "struct" THEN struct_field_type(G, base[2], fld) ELSE TypeError

Natives == {"length", "append", "delete", "first", "last", "next", "prior", "extend", "array_trim"}

native_arity(name) == IF name \in {"length", "first", "last"} THEN 1 ELSE 2

RECURSIVE infer_expr(_, _, _, _), check_block(_, _, _, _), check_stmt(_, _, _, _)

InferLiteral(v) ==
  CASE v[1] = "int" -> type_int
    [] v[1] = "float" -> type_float
    [] v[1] = "string" -> type_string
    [] v[1] = "bool" -> type_bool
    [] v[1] = "null" -> type_unknown

InferBinary(op, left, right) ==
  CASE TypeError \in {left, right} -> TypeError
    [] op = "+" /\ left = type_string /\ right = type_string -> type_string
    [] op \in {"+", "-", "*", "/"} ->
         IF \A t \in {left, right} : t = type_unknown \/ type_is_numeric(t)
         THEN common_numeric_type(left, right) ELSE TypeError
    [] OTHER -> IF is_primitive(left) /\ is_primitive(right) /\ types_compatible(left, right)
                THEN type_bool ELSE TypeError

InferUnary(op, operand) ==
  CASE operand = TypeError -> TypeError
    [] op = "-" -> CASE operand = type_unknown -> type_int
                     [] type_is_numeric(operand) -> operand
                     [] OTHER -> TypeError
    [] OTHER -> IF operand \in {type_unknown, type_bool} \/ type_is_numeric(operand) THEN type_bool ELSE TypeError

check_native_call(name, args, env, G) ==
  LET a == infer_expr(args[1], NoType, env, G)
      b == infer_expr(args[2], IF type_is_array(a) THEN a[2] ELSE NoType, env, G)
  IN  CASE Len(args) # native_arity(name) -> TypeError
        [] a = TypeError \/ (Len(args) = 2 /\ b = TypeError) -> TypeError
        [] name = "length" ->
             IF a \in {type_unknown, type_string} \/ type_is_array(a) \/ type_is_map(a) THEN type_int ELSE TypeError
        [] name = "append" ->
             IF a = type_unknown \/ (type_is_array(a) /\ (a[2] \in {NoType, b} \/ b = type_unknown)) THEN a ELSE TypeError
        [] name \in {"extend", "array_trim"} ->
             IF (type_is_array(a) \/ a = type_unknown) /\ b \in {type_int, type_unknown} THEN a ELSE TypeError
        [] type_is_map(a) ->
             IF Len(args) = 2 /\ b \notin {type_unknown, a[2]} THEN TypeError ELSE a[2]
        [] OTHER -> IF a = type_unknown THEN type_unknown ELSE TypeError

(* A call of one of the program's procedures: arity, variables for OUT and *)
(* IN OUT parameters, assignable argument types.                           *)
InferCall(name, args, env, G) ==
  LET i == SelectInSeq(G.procs, LAMBDA d : d.name = name)
      sig == G.procs[i]
      fits == \A k \in DOMAIN args :
                /\ sig.params[k].mode # "in" => args[k][1] = "variable"
                /\ LET t == infer_expr(args[k], sig.params[k].type, env, G)
                   IN  t # TypeError /\ types_assignable(sig.params[k].type, t)
  IN  IF name \in Natives THEN check_native_call(name, args, env, G)
      ELSE IF i # 0 /\ Len(args) = Len(sig.params) /\ fits THEN sig.ret ELSE TypeError

InferArray(elements, hint, env, G) ==
  LET types == [i \in DOMAIN elements |-> infer_expr(elements[i], NoType, env, G)]
  IN  CASE elements = <<>> -> IF type_is_array(hint) THEN hint ELSE TypeError
        [] types[1] # TypeError /\ \A i \in DOMAIN types : types[i] = types[1] -> <<"array", types[1]>>
        [] OTHER -> TypeError

InferIndex(base, index) ==
  CASE TypeError \in {base, index} -> TypeError
    [] type_is_array(base) -> IF index = type_int THEN base[2] ELSE TypeError
    [] type_is_map(base) -> IF index = base[2] THEN base[3] ELSE TypeError
    [] OTHER -> TypeError

InferStruct(name, fields, values, env, G) ==
  LET fits(i) == LET expected == struct_field_type(G, name, fields[i])
                     actual == infer_expr(values[i], expected, env, G)
                 IN  TypeError \notin {expected, actual} /\ types_assignable(expected, actual)
  IN  IF find_struct(G, name) # {} /\ \A i \in DOMAIN fields : fits(i) THEN <<"struct", name>> ELSE TypeError

InferMap(keys, values, hint, env, G) ==
  LET keyTypes == [i \in DOMAIN keys |-> infer_expr(keys[i], NoType, env, G)]
      key == IF type_is_map(hint) THEN hint[2] ELSE keyTypes[1]
      valHint == IF type_is_map(hint) THEN hint[3] ELSE NoType
      first == infer_expr(values[1], valHint, env, G)
      val == IF type_is_map(hint) THEN hint[3] ELSE first
      fits(i) == LET v == infer_expr(values[i], IF i = 1 THEN valHint ELSE val, env, G)
                 IN  /\ keyTypes[i] \in {type_unknown, type_int, type_string}
                     /\ keyTypes[i] \in {type_unknown, key}
                     /\ v \in {type_unknown, val} \ {TypeError}
  IN  CASE keys = <<>> -> IF type_is_map(hint) THEN hint ELSE TypeError
        [] \A i \in DOMAIN keys : fits(i) -> <<"map", key, val>>
        [] OTHER -> TypeError

sql_row_field_type(env, var, fld) == LastNamed(find_row(env, var), fld, TypeError)

InferRowField(row, fld, env, G) ==
  IF row[1] = "variable" /\ find_row(env, row[2]) # <<>> /\ resolve_local(env, row[2]) = type_unknown
  THEN sql_row_field_type(env, row[2], fld)
  ELSE resolve_field_type(G, infer_expr(row, NoType, env, G), fld)

InferCursorAttr(cursor, attr, env) ==
  CASE resolve_local(env, cursor) \notin {type_unknown, type_cursor} -> TypeError
    [] attr = "rowcount" -> type_int
    [] attr \in {"found", "notfound", "isopen"} -> type_bool
    [] OTHER -> TypeError

infer_expr(e, hint, env, G) ==
  CASE e[1] = "literal" -> InferLiteral(e[2])
    [] e[1] = "variable" -> resolve_local(env, e[2])
    [] e[1] = "binary" -> InferBinary(e[2], infer_expr(e[3], NoType, env, G), infer_expr(e[4], NoType, env, G))
    [] e[1] = "unary" -> InferUnary(e[2], infer_expr(e[3], NoType, env, G))
    [] e[1] = "call" -> InferCall(e[2], e[3], env, G)
    [] e[1] = "array" -> InferArray(e[2], hint, env, G)
    [] e[1] = "index" -> InferIndex(infer_expr(e[2], NoType, env, G), infer_expr(e[3], NoType, env, G))
    [] e[1] = "sql_param" -> resolve_local(env, e[2])
    [] e[1] = "cursor_attr" -> InferCursorAttr(e[2], e[3], env)
    [] e[1] = "row_field" -> InferRowField(e[2], e[3], env, G)
    [] e[1] = "struct_literal" -> InferStruct(e[2], e[3], e[4], env, G)
    [] e[1] = "map_literal" -> InferMap(e[2], e[3], hint, env, G)

Verdict(ok, env) == [ok |-> ok, env |-> env]
add_local(env, name, type) == [env EXCEPT !.locals = Append(@, <<name, type>>)]
bind_row(env, name, cols) == [env EXCEPT !.rows = Append(@, <<name, cols>>)]
bind_cursor(env, name, params) == [env EXCEPT !.cursors = Append(@, <<name, params>>)]
add_exception(env, name) == [env EXCEPT !.exceptions = @ \cup {name}]
resolve_exception(env, name) == name \in env.exceptions

pop_scope(env, inner) == [inner EXCEPT !.locals = env.locals, !.rows = env.rows]

(* Blocks one after another, each in a scope of its own.                   *)
CheckScopes(blocks, ret, env, G) ==
  FoldLeft(LAMBDA v, b : LET w == check_block(b, ret, v.env, G)
                         IN  Verdict(v.ok /\ w.ok, pop_scope(env, w.env)),
           Verdict(TRUE, env), blocks)

CheckVarDecl(type, name, init, env, G) ==
  LET t == infer_expr(init, type, env, G)
      final == IF type = <<"array", NoType>> /\ t[1] = "array" THEN t ELSE type
  IN  IF init = NoNode THEN Verdict(TRUE, add_local(env, name, type))
      ELSE Verdict(t # TypeError /\ types_assignable(final, t), add_local(env, name, final))

CheckAssign(target, value, env, G) ==
  LET rhs == infer_expr(value, target, env, G)
  IN  Verdict(TypeError \notin {target, rhs} /\ types_assignable(target, rhs), env)

CheckIndexAssign(array, index, value, env, G) ==
  LET base == infer_expr(array, NoType, env, G)
      elem == CASE type_is_array(base) -> base[2]
                [] type_is_map(base) -> base[3]
                [] OTHER -> NoType
      idx == infer_expr(index, NoType, env, G)
      rhs == infer_expr(value, elem, env, G)
  IN  Verdict(/\ elem # NoType /\ TypeError \notin {idx, rhs}
              /\ idx = (IF type_is_array(base) THEN type_int ELSE base[2])
              /\ types_assignable(elem, rhs), env)

CheckCond(cond, env, G) == LET t == infer_expr(cond, NoType, env, G) IN t # TypeError /\ is_condition_type(t)

CheckBranches(cond, blocks, ret, env, G) ==
  LET v == CheckScopes(blocks, ret, env, G) IN Verdict(CheckCond(cond, env, G) /\ v.ok, v.env)

(* The init's variable goes to the enclosing scope: the loop opens none.   *)
CheckCFor(init, cond, step, body, ret, env, G) ==
  LET i == check_block(init, ret, env, G)
      j == check_block(step, ret, i.env, G)
      inner == CheckScopes(<<body>>, ret, j.env, G)
  IN  Verdict(i.ok /\ (cond = NoNode \/ CheckCond(cond, i.env, G)) /\ j.ok /\ inner.ok, inner.env)

(* A body in a scope that opens with the loop's or the handler's variable. *)
CheckWith(inner, body, ret, env, G) ==
  LET v == check_block(body, ret, inner, G) IN Verdict(v.ok, pop_scope(env, v.env))

CheckForeach(var, iterable, body, ret, env, G) ==
  LET t == infer_expr(iterable, NoType, env, G)
      elem == IF type_is_array(t) THEN t[2] ELSE type_unknown
  IN  IF t = type_unknown \/ type_is_array(t)
      THEN CheckWith(add_local(env, var, elem), body, ret, env, G)
      ELSE Verdict(FALSE, env)

ParamsOk(params, env) == \A i \in DOMAIN params : resolve_local(env, params[i]) # TypeError

CheckFor(var, query, body, ret, env, G) ==
  IF ParamsOk(query.params, env)
  THEN CheckWith(add_local(bind_row(env, var, query.cols), var, type_unknown), body, ret, env, G)
  ELSE Verdict(FALSE, env)

CheckSqlQuery(query, env) ==
  Verdict(/\ ParamsOk(query.params, env)
          /\ query.into # <<>>
          /\ \A i \in DOMAIN query.into : is_scalar(resolve_local(env, query.into[i])), env)

CheckCursorOpen(name, query, env) ==
  LET params == IF query = <<>> THEN find_cursor(env, name) ELSE query[1].params
  IN  Verdict(resolve_local(env, name) \in {type_unknown, type_cursor} /\ ParamsOk(params, env),
              IF query = <<>> THEN env ELSE bind_cursor(env, name, params))

CheckCursorFetch(name, vars, env) ==
  Verdict(/\ resolve_local(env, name) \in {type_unknown, type_cursor}
          /\ \A i \in DOMAIN vars : LET t == resolve_local(env, vars[i]) IN t = type_unknown \/ is_scalar(t), env)

CheckTry(try, var, catch, ret, env, G) ==
  LET v == CheckScopes(<<try>>, ret, env, G)
      w == CheckWith(add_local(v.env, var, type_string), catch, ret, v.env, G)
  IN  Verdict(v.ok /\ w.ok, w.env)

CheckCase(sel, values, blocks, else, ret, env, G) ==
  LET t == infer_expr(sel, NoType, env, G)
      v == CheckScopes(Append(blocks, else), ret, env, G)
  IN  Verdict(/\ t # TypeError
              /\ \A i \in DOMAIN values : infer_expr(values[i], NoType, env, G) = t
              /\ v.ok, v.env)

check_stmt(s, ret, env, G) ==
  CASE s[1] = "var_decl" -> CheckVarDecl(s[2], s[3], s[4], env, G)
    [] s[1] = "assign" -> CheckAssign(resolve_local(env, s[2]), s[3], env, G)
    [] s[1] = "field_assign" ->
         CheckAssign(resolve_field_type(G, infer_expr(s[2], NoType, env, G), s[3]), s[4], env, G)
    [] s[1] = "index_assign" -> CheckIndexAssign(s[2], s[3], s[4], env, G)
    [] s[1] = "return" -> CheckAssign(ret, s[2], env, G)
    [] s[1] = "if" -> CheckBranches(s[2], <<s[3], s[4]>>, ret, env, G)
    [] s[1] \in {"while", "do_while"} -> CheckBranches(s[2], <<s[3]>>, ret, env, G)
    [] s[1] \in {"break", "continue"} -> Verdict(TRUE, env)
    [] s[1] = "cfor" -> CheckCFor(s[2], s[3], s[4], s[5], ret, env, G)
    [] s[1] = "foreach" -> CheckForeach(s[2], s[3], s[4], ret, env, G)
    [] s[1] = "for" -> CheckFor(s[2], s[3], s[4], ret, env, G)
    [] s[1] \in {"print", "expr"} -> Verdict(infer_expr(s[2], NoType, env, G) # TypeError, env)
    [] s[1] = "try_catch" -> CheckTry(s[2], s[3], s[4], ret, env, G)
    [] s[1] = "exception_decl" -> Verdict(TRUE, add_exception(env, s[2]))
    [] s[1] = "raise" -> Verdict(resolve_exception(env, s[2]), env)
    [] s[1] = "case" -> CheckCase(s[2], s[3], s[4], s[5], ret, env, G)
    [] s[1] = "sql_query" -> CheckSqlQuery(s[2], env)
    [] s[1] = "cursor_decl" ->
         LET declared == add_local(env, s[2], type_cursor)
         IN  Verdict(TRUE, IF s[3] = <<>> THEN declared ELSE bind_cursor(declared, s[2], s[3][1].params))
    [] s[1] = "cursor_open" -> CheckCursorOpen(s[2], s[3], env)
    [] s[1] = "cursor_fetch" -> CheckCursorFetch(s[2], s[3], env)
    [] s[1] = "cursor_close" -> Verdict(resolve_local(env, s[2]) \in {type_unknown, type_cursor}, env)

(* The statements of a block in turn; the caller drops the scope it grew.  *)
check_block(stmts, ret, env, G) ==
  FoldLeft(LAMBDA v, s : IF v.ok THEN check_stmt(s, ret, v.env, G) ELSE v, Verdict(TRUE, env), stmts)

typecheck_program(G) ==
  LET start == [locals |-> <<>>, rows |-> <<>>, cursors |-> <<>>, exceptions |-> {"no_data_found", "too_many_rows"}]
      checkProc(v, d) ==
        LET params == [k \in DOMAIN d.params |-> <<d.params[k].name, d.params[k].type>>]
            w == check_block(d.body, d.ret, [v.env EXCEPT !.locals = params], G)
        IN  Verdict(v.ok /\ w.ok, pop_scope(start, w.env))
  IN  FoldLeft(checkProc, Verdict(TRUE, start), G.procs).ok
=============================================================================
