------------------------------ MODULE LangCode ------------------------------
(***************************************************************************)
(* The code generator: from the tree to a sequence of instructions.  An    *)
(* instruction is a tuple, opcode first; a jump holds its distance from    *)
(* the instruction after it.  A break or continue is a placeholder until   *)
(* its loop is closed.  env holds the compiler's locals, one stack slot    *)
(* each, as <<name, type, is_sql_row>>, and the queries of the cursors     *)
(* declared so far, which no scope takes back.  loop is what LoopContext   *)
(* remembers: the locals that a break and a continue leave alone.          *)
(***************************************************************************)
EXTENDS LangTypes, LangValues

Code(c, ok) == [c |-> c, ok |-> ok]
Nothing == Code(<<>>, TRUE)
emit(instr) == Code(<<instr>>, TRUE)
a ++ b == Code(a.c \o b.c, a.ok /\ b.ok)

emit_constant(v) == emit(<<"CONST", v>>)
emit_get_local(slot) == emit(<<"GET_LOCAL", slot>>)
emit_set_local(slot) == emit(<<"SET_LOCAL", slot>>)
emit_jump(op, distance) == emit(<<op, distance>>)
Pops(n) == Code([i \in 1..n |-> <<"POP">>], TRUE)
Assigned(slot) == emit_set_local(slot) ++ Pops(1)

local_count(env) == Len(env.locals)

(* The slot of the innermost local of that name, -1 if there is none.      *)
resolve_slot(env, name) == SelectLastInSeq(env.locals, LAMBDA l : l[1] = name) - 1

resolve_slot_type(env, name) ==
  LET slot == resolve_slot(env, name) IN IF slot < 0 THEN NoType ELSE env.locals[slot + 1][2]

add_slot(env, name, type) == [env EXCEPT !.locals = Append(@, <<name, type, FALSE>>)]
add_row_slot(env, name) == [env EXCEPT !.locals = Append(@, <<name, type_unknown, TRUE>>)]
register_cursor_query(env, name, query) == [env EXCEPT !.queries = Append(@, <<name, query>>)]
find_cursor_query(env, name) == LastNamed(env.queries, name, <<>>)

find_proc(G, name) == SelectInSeq(G.procs, LAMBDA d : d.name = name)

Get(env, name) ==
  LET slot == resolve_slot(env, name) IN IF slot < 0 THEN Code(<<>>, FALSE) ELSE emit_get_local(slot)

RECURSIVE compile_expr(_, _, _), compile_stmt(_, _, _, _), compile_block(_, _, _, _), CaseBranches(_, _, _, _, _, _)

CompileAll(es, env, G) == FoldLeft(LAMBDA code, e : code ++ compile_expr(e, env, G), Nothing, es)

BinaryOp(op) == CASE op = "+" -> "ADD" [] op = "-" -> "SUB" [] op = "*" -> "MUL" [] op = "/" -> "DIV"
                  [] op = "==" -> "EQ" [] op = "<" -> "LT" [] op = ">" -> "GT" [] OTHER -> "none"

CompileBinary(op, left, right, env, G) ==
  compile_expr(left, env, G) ++ compile_expr(right, env, G) ++ Code(<< <<BinaryOp(op)>> >>, BinaryOp(op) # "none")

(* The last pair's value and key end up on top.                            *)
CompileMap(keys, values, env, G) ==
  CompileAll([i \in 1..(2 * Len(keys)) |-> IF i % 2 = 1 THEN values[(i + 1) \div 2] ELSE keys[i \div 2]], env, G)
    ++ emit(<<"MAP_BUILD", Len(keys)>>)

(* An OUT argument starts as 0; the variables behind OUT and IN OUT        *)
(* arguments are listed as <<position, slot>> for the return to write.     *)
CompileCall(name, args, env, G) ==
  LET i == find_proc(G, name)
      mode(k) == IF i # 0 /\ k <= Len(G.procs[i].params) THEN G.procs[i].params[k].mode ELSE "in"
      positions == [k \in DOMAIN args |-> k]
      outs == SelectSeq(positions, LAMBDA k : mode(k) # "in")
      slots == [k \in DOMAIN outs |-> <<outs[k] - 1, resolve_slot(env, args[outs[k]][2])>>]
      pass(code, k) == code ++ IF mode(k) = "out" THEN emit_constant(value_int(0)) ELSE compile_expr(args[k], env, G)
      passed == FoldLeft(pass, Nothing, positions)
  IN  CASE name \in Natives ->
             CompileAll(args, env, G) ++ Code(<< <<"NATIVE_CALL", name, Len(args)>> >>, Len(args) = native_arity(name))
        [] outs = <<>> -> passed ++ Code(<< <<"CALL", name, Len(args), <<>> >> >>, i # 0)
        [] OTHER -> passed ++ Code(<< <<"CALL_OUT", name, Len(args), slots>> >>,
                                   \A k \in DOMAIN outs : args[outs[k]][1] = "variable" /\ slots[k][2] >= 0)

(* x.field on a row variable reads the engine's current row.               *)
CompileRowField(row, fld, env, G) ==
  LET slot == IF row[1] = "variable" THEN resolve_slot(env, row[2]) ELSE -1
  IN  IF slot >= 0 /\ env.locals[slot + 1][3] THEN emit(<<"GET_FIELD", fld>>)
      ELSE compile_expr(row, env, G) ++ emit(<<"ROW_GET", fld>>)

compile_expr(e, env, G) ==
  CASE e[1] = "literal" -> emit_constant(e[2])
    [] e[1] \in {"variable", "sql_param"} -> Get(env, e[2])
    [] e[1] = "array" -> CompileAll(e[2], env, G) ++ emit(<<"ARRAY_BUILD", Len(e[2])>>)
    [] e[1] = "map_literal" -> CompileMap(e[2], e[3], env, G)
    [] e[1] = "index" -> CompileAll(<<e[2], e[3]>>, env, G) ++ emit(<<"INDEX_GET">>)
    [] e[1] = "binary" -> CompileBinary(e[2], e[3], e[4], env, G)
    [] e[1] = "call" -> CompileCall(e[2], e[3], env, G)
    [] e[1] = "unary" -> compile_expr(e[3], env, G) ++ emit(IF e[2] = "-" THEN <<"NEGATE">> ELSE <<"NOT">>)
    [] e[1] = "cursor_attr" -> Get(env, e[2]) ++ emit(<<"CURSOR_ATTR", e[3]>>)
    [] e[1] = "row_field" -> CompileRowField(e[2], e[3], env, G)
    [] e[1] = "struct_literal" -> CompileAll(e[4], env, G) ++ emit(<<"STRUCT_BUILD", e[3]>>)

(* A statement yields its code and the environment after it.               *)
Compiled(code, env) == [c |-> code.c, ok |-> code.ok, env |-> env]
pop_locals(env, inner) == [inner EXCEPT !.locals = env.locals]

NoLoop == [broke |-> -1, continued |-> -1]
push_loop(broke, continued) == [broke |-> broke, continued |-> continued]

MutBreak(env, loop) ==
  Pops(local_count(env) - loop.continued) ++ Code(<< <<"BREAK">> >>, loop # NoLoop)

emit_break(env, loop) ==
  Pops(local_count(env) - loop.broke) ++ Code(<< <<"BREAK">> >>, loop # NoLoop)

emit_continue(env, loop) ==
  Pops(local_count(env) - loop.continued) ++ Code(<< <<"CONTINUE">> >>, loop # NoLoop)

(* The loop's code ends here: breaks go behind it, continues to a target.  *)
pop_loop(code, target) ==
  Code([i \in DOMAIN code.c |-> CASE code.c[i] = <<"BREAK">> -> <<"JMP", Len(code.c) - i>>
                                  [] code.c[i] = <<"CONTINUE">> -> <<"JMP", target - i - 1>>
                                  [] OTHER -> code.c[i]], code.ok)

(* test; out if false; body; step; back.                                   *)
LoopBody(test, body, step) ==
  LET round == test ++ emit_jump("JZ", Len(body.c) + Len(step.c) + 1) ++ body ++ step
  IN  round ++ emit_jump("JMP", -(Len(round.c) + 1))

compile_block(stmts, env, loop, G) ==
  LET compileNext(code, s) ==
        LET next == compile_stmt(s, code.env, loop, G)
        IN  IF code.ok THEN Compiled(code ++ next, next.env) ELSE code
      all == FoldLeft(compileNext, Compiled(Nothing, env), stmts)
  IN  Compiled(all ++ Pops(local_count(all.env) - local_count(env)), pop_locals(env, all.env))

Default(type) ==
  CASE type_is_array(type) -> emit(<<"ARRAY_BUILD", 0>>)
    [] type_is_map(type) -> emit(<<"MAP_BUILD", 0>>)
    [] type[1] = "struct" -> emit_constant(value_string(<<>>)) ++ emit(<<"STRUCT_BUILD", <<>> >>)
    [] OTHER -> emit_constant(value_int(0))

CompileVarDecl(type, name, init, env, G) ==
  LET code == IF init = NoNode THEN Default(type) ELSE compile_expr(init, env, G)
  IN  Compiled(code ++ emit_set_local(local_count(env)), add_slot(env, name, type))

CompileAssign(name, value, env, G) ==
  LET slot == resolve_slot(env, name)
  IN  compile_expr(value, env, G) ++ IF slot < 0 THEN Code(<<>>, FALSE) ELSE Assigned(slot)

CompileIf(cond, then, else, env, loop, G) ==
  LET t == compile_block(then, env, loop, G)
      f == compile_block(else, t.env, loop, G)
  IN  Compiled(compile_expr(cond, env, G) ++ emit_jump("JZ", Len(t.c) + 1) ++ t ++ emit_jump("JMP", Len(f.c)) ++ f,
               f.env)

CompileWhile(cond, body, env, G) ==
  LET b == compile_block(body, env, push_loop(local_count(env), local_count(env)), G)
  IN  Compiled(pop_loop(LoopBody(compile_expr(cond, env, G), b, Nothing), 1), b.env)

CompileDoWhile(cond, body, env, G) ==
  LET b == compile_block(body, env, push_loop(local_count(env), local_count(env)), G)
      round == b ++ compile_expr(cond, env, G) ++ emit_jump("JZ", 1)
  IN  Compiled(pop_loop(round ++ emit_jump("JMP", -(Len(round.c) + 1)), Len(b.c) + 1), b.env)

(* continue goes behind the body, where the index advances.                *)
ForeachLoop(test, fetch, body, step) ==
  pop_loop(LoopBody(test, fetch ++ body, step), Len(test.c) + 1 + Len(fetch.c) + Len(body.c) + 1)

(* Three locals of its own: the array, the index and the variable.         *)
CompileForeach(var, iterable, body, env, G) ==
  LET n == local_count(env)
      inner == add_slot(add_slot(add_slot(env, "__fe_array", type_unknown), "__fe_idx", type_int), var, type_unknown)
      test == emit_get_local(n + 1) ++ emit_get_local(n) ++ emit(<<"NATIVE_CALL", "length", 1>>) ++ emit(<<"LT">>)
      fetch == emit_get_local(n) ++ emit_get_local(n + 1) ++ emit(<<"INDEX_GET">>) ++ Assigned(n + 2)
      b == compile_block(body, inner, push_loop(n + 3, n + 3), G)
      step == emit_get_local(n + 1) ++ emit_constant(value_int(1)) ++ emit(<<"ADD">>) ++ Assigned(n + 1)
      start == compile_expr(iterable, env, G) ++ emit_set_local(n) ++ emit_constant(value_int(0))
                 ++ emit_set_local(n + 1) ++ emit_constant(value_int(0)) ++ emit_set_local(n + 2)
  IN  Compiled(start ++ ForeachLoop(test, fetch, b, step) ++ Pops(3), pop_locals(env, b.env))

CompileCFor(init, cond, step, body, env, loop, G) ==
  LET first == FoldLeft(LAMBDA code, s : compile_stmt(s, env, loop, G), Compiled(Nothing, env), init)
      n == local_count(first.env)
      test == IF cond = NoNode THEN emit_constant(value_bool(TRUE)) ELSE compile_expr(cond, first.env, G)
      b == compile_block(body, first.env, push_loop(n, n), G)
      last == FoldLeft(LAMBDA code, s : compile_stmt(s, b.env, push_loop(n, n), G), Compiled(Nothing, b.env), step)
      behind == Len(test.c) + 1 + Len(b.c) + 1
  IN  Compiled(first ++ pop_loop(LoopBody(test, b, last), behind) ++ Pops(n - local_count(env)), pop_locals(env, last.env))

Bind(params, env) ==
  FoldLeft(LAMBDA code, name : code ++ Get(env, name) ++ emit(<<"SQL_BIND">>), Nothing, params)

(* The row variable's slot is pushed before the loop and popped behind it; *)
(* a break pops it itself.                                                 *)
CompileFor(var, query, body, env, G) ==
  LET n == local_count(env)
      b == compile_block(body, add_row_slot(env, var), push_loop(n, n + 1), G)
      round == emit_jump("SQL_NEXT", Len(b.c) + 1) ++ b
      whole == round ++ emit_jump("JMP", -(Len(round.c) + 1)) ++ Pops(1)
  IN  Compiled(Bind(query.params, env) ++ emit(<<"SQL", query>>) ++ emit_constant(value_int(0))
                 ++ emit_set_local(n) ++ pop_loop(whole, 1), pop_locals(env, b.env))

(* SELECT ... INTO scalar variables.                                       *)
CompileSqlQuery(query, env) ==
  LET store(code, i) == code ++ emit(<<"SQL_GET_COLUMN", i>>) ++ Assigned(resolve_slot(env, query.into[i]))
      stores == FoldLeft(store, Nothing, [i \in DOMAIN query.into |-> i])
  IN  Bind(query.params, env) ++ emit(<<"SQL", query>>) ++ emit_jump("SQL_NEXT", Len(stores.c) + 1) ++ stores
        ++ emit_jump("JMP", 1) ++ emit(<<"RAISE", <<"SELECT INTO found no matching row">> >>)

CompileCursorOpen(name, query, env) ==
  LET q == IF query = <<>> THEN find_cursor_query(env, name) ELSE query
      slot == resolve_slot(env, name)
  IN  IF q = <<>> THEN Code(<<>>, FALSE)
      ELSE Bind(q[1].params, env) ++ Get(env, name) ++ emit(<<"CURSOR_OPEN", q[1]>>) ++ Assigned(slot)

CompileTry(try, var, catch, env, loop, G) ==
  LET inner == add_slot(env, var, type_string)
      t == compile_block(try, inner, loop, G)
      c == compile_block(catch, t.env, loop, G)
  IN  Compiled(emit(<<"TRY", Len(t.c) + 1, local_count(inner)>>) ++ t
                 ++ emit_jump("END_TRY", Len(c.c) + 1) ++ c ++ Pops(1), pop_locals(env, c.env))

(* when ... from the i-th on, then the else block: the selector stays on   *)
(* the stack below, and no local stands for it.                            *)
CaseBranches(i, values, blocks, else, env, R) ==
  LET b == compile_block(blocks[i], env, R.loop, R.G)
      rest == CaseBranches(i + 1, values, blocks, else, b.env, R)
  IN  IF i > Len(values) THEN compile_block(else, env, R.loop, R.G)
      ELSE Compiled(emit(<<"DUP">>) ++ compile_expr(values[i], env, R.G) ++ emit(<<"EQ">>) ++ emit_jump("JZ", Len(b.c) + 1)
                      ++ b ++ emit_jump("JMP", Len(rest.c)) ++ rest, rest.env)

CompileCase(sel, values, blocks, else, env, loop, G) ==
  LET branches == CaseBranches(1, values, blocks, else, env, [loop |-> loop, G |-> G])
  IN  Compiled(compile_expr(sel, env, G) ++ branches ++ Pops(1), branches.env)

compile_stmt(s, env, loop, G) ==
  CASE s[1] = "var_decl" -> CompileVarDecl(s[2], s[3], s[4], env, G)
    [] s[1] = "assign" -> Compiled(CompileAssign(s[2], s[3], env, G), env)
    [] s[1] = "field_assign" ->
         Compiled(compile_expr(s[2], env, G) ++ emit_constant(value_string(<<s[3]>>)) ++ compile_expr(s[4], env, G)
                    ++ emit(<<"INDEX_SET">>), env)
    [] s[1] = "index_assign" -> Compiled(CompileAll(<<s[2], s[3], s[4]>>, env, G) ++ emit(<<"INDEX_SET">>), env)
    [] s[1] = "return" -> Compiled(compile_expr(s[2], env, G) ++ emit(<<"RETURN">>), env)
    [] s[1] = "if" -> CompileIf(s[2], s[3], s[4], env, loop, G)
    [] s[1] = "while" -> CompileWhile(s[2], s[3], env, G)
    [] s[1] = "do_while" -> CompileDoWhile(s[2], s[3], env, G)
    [] s[1] = "foreach" -> CompileForeach(s[2], s[3], s[4], env, G)
    [] s[1] = "cfor" -> CompileCFor(s[2], s[3], s[4], s[5], env, loop, G)
    [] s[1] = "for" -> CompileFor(s[2], s[3], s[4], env, G)
    [] s[1] = "break" -> Compiled(emit_break(env, loop), env)
    [] s[1] = "continue" -> Compiled(emit_continue(env, loop), env)
    [] s[1] = "print" -> Compiled(compile_expr(s[2], env, G) ++ emit(<<"PRINT">>), env)
    [] s[1] = "expr" -> Compiled(compile_expr(s[2], env, G) ++ Pops(1), env)
    [] s[1] = "try_catch" -> CompileTry(s[2], s[3], s[4], env, loop, G)
    [] s[1] = "exception_decl" -> Compiled(Nothing, env)
    [] s[1] = "raise" -> Compiled(emit(<<"RAISE", <<s[2]>> >>), env)
    [] s[1] = "case" -> CompileCase(s[2], s[3], s[4], s[5], env, loop, G)
    [] s[1] = "sql_query" -> Compiled(CompileSqlQuery(s[2], env), env)
    [] s[1] = "cursor_decl" ->
         LET declared == add_slot(env, s[2], type_cursor)
         IN  Compiled(emit_constant(<<"cursor", 0>>) ++ emit_set_local(local_count(env)),
                      IF s[3] = <<>> THEN declared ELSE register_cursor_query(declared, s[2], s[3]))
    [] s[1] = "cursor_open" -> Compiled(CompileCursorOpen(s[2], s[3], env), env)
    [] s[1] = "cursor_fetch" ->
         LET slots == [i \in DOMAIN s[3] |-> resolve_slot(env, s[3][i])]
         IN  Compiled(Get(env, s[2]) ++ Code(<< <<"CURSOR_FETCH", slots>> >>, \A i \in DOMAIN slots : slots[i] >= 0), env)
    [] s[1] = "cursor_close" -> Compiled(Get(env, s[2]) ++ emit(<<"CURSOR_CLOSE">>), env)

(* The procedures one behind the other, after a jump to the entry at the   *)
(* end; calls are patched with the offset of their procedure.              *)
do_compile_source(G) ==
  LET addProc(acc, d) ==
        LET params == [k \in DOMAIN d.params |-> <<d.params[k].name, d.params[k].type, FALSE>>]
            body == compile_block(d.body, [locals |-> params, queries |-> acc.queries], NoLoop, G)
        IN  [code |-> acc.code ++ body ++ emit(<<"RETURN">>), queries |-> body.env.queries,
             offsets |-> Append(acc.offsets, Len(acc.code.c) + 2)]
      procs == FoldLeft(addProc, [code |-> Nothing, queries |-> <<>>, offsets |-> <<>>], G.procs)
      all == emit_jump("JMP", Len(procs.code.c)) ++ procs.code ++ emit_jump("JMP", 0)
               ++ Code(<< <<"CALL", "main", 0, <<>> >>, <<"RETURN">> >>, find_proc(G, "main") # 0)
      patch_call(instr) == IF instr[1] \in {"CALL", "CALL_OUT"}
                           THEN [instr EXCEPT ![2] = procs.offsets[find_proc(G, instr[2])]] ELSE instr
  IN  IF all.ok THEN Code([i \in DOMAIN all.c |-> patch_call(all.c[i])], TRUE) ELSE Code(<<>>, FALSE)
=============================================================================
