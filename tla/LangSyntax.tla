----------------------------- MODULE LangSyntax -----------------------------
(***************************************************************************)
(* The parser: a Pratt parser for expressions, one operator per statement  *)
(* form, from a sequence of tokens to a syntax tree.  A token is a tuple:  *)
(* its type, and for names and literals the name or the value.  A parse    *)
(* returns the node, the position of the next token and whether had_error  *)
(* is still clear; once it is set, what the parser builds is discarded.    *)
(* Where the code calls advance() without a check, the position moves on   *)
(* whatever the token is.  S is the set of the struct names seen so far.   *)
(* The text of a query is one token; its value is a record of what the     *)
(* parser extracts from the text (the ?names in order, the INTO list) and  *)
(* of what the engine will answer (columns and rows).                      *)
(***************************************************************************)
EXTENDS Integers, Sequences

NoNode == <<"none">>
NoType == <<"null">>

(* The tree's nodes: a node is a tuple that starts with its kind.          *)
create_literal_expr(v) == <<"literal", v>>
create_variable_expr(name) == <<"variable", name>>
create_binary_expr(op, left, right) == <<"binary", op, left, right>>
create_unary_expr(op, operand) == <<"unary", op, operand>>
create_call_expr(name, args) == <<"call", name, args>>
create_array_expr(elements) == <<"array", elements>>
create_map_literal_expr(keys, values) == <<"map_literal", keys, values>>
create_index_expr(array, index) == <<"index", array, index>>
create_row_field_expr(row, field) == <<"row_field", row, field>>
create_cursor_attr_expr(cursor, attr) == <<"cursor_attr", cursor, attr>>
create_sql_param_expr(name) == <<"sql_param", name>>
create_struct_literal_expr(name, fields, values) == <<"struct_literal", name, fields, values>>
create_var_decl_stmt(type, name, init) == <<"var_decl", type, name, init>>
create_assign_stmt(name, value) == <<"assign", name, value>>
create_field_assign_stmt(object, field, value) == <<"field_assign", object, field, value>>
create_index_assign_stmt(array, index, value) == <<"index_assign", array, index, value>>
create_if_stmt(cond, then, else) == <<"if", cond, then, else>>
create_while_stmt(cond, body) == <<"while", cond, body>>
create_do_while_stmt(cond, body) == <<"do_while", cond, body>>
create_foreach_stmt(var, iterable, body) == <<"foreach", var, iterable, body>>
create_cfor_stmt(init, cond, step, body) == <<"cfor", init, cond, step, body>>
create_break_stmt == <<"break">>
create_continue_stmt == <<"continue">>
create_return_stmt(value) == <<"return", value>>
create_print_stmt(value) == <<"print", value>>
create_expr_stmt(value) == <<"expr", value>>
create_try_catch_stmt(try, var, catch) == <<"try_catch", try, var, catch>>
create_exception_decl_stmt(name) == <<"exception_decl", name>>
create_raise_stmt(name) == <<"raise", name>>
create_case_stmt(sel, values, blocks, else) == <<"case", sel, values, blocks, else>>
create_for_stmt(var, query, body) == <<"for", var, query, body>>
create_sql_stmt(query) == <<"sql_query", query>>
create_cursor_decl_stmt(name, query) == <<"cursor_decl", name, query>>
create_cursor_open_stmt(name, query) == <<"cursor_open", name, query>>
create_cursor_fetch_stmt(name, vars) == <<"cursor_fetch", name, vars>>
create_cursor_close_stmt(name) == <<"cursor_close", name>>
create_proc_decl(name, params, ret, body) ==
  [name |-> name, params |-> params, ret |-> ret, body |-> body]

Parsed(x, p, ok) == [x |-> x, p |-> p, ok |-> ok]
Failed(p) == Parsed(NoNode, p, FALSE)

check(ts, p, type) == p <= Len(ts) /\ ts[p][1] = type

TokenType(ts, p) == IF p <= Len(ts) THEN ts[p][1] ELSE "eof"

copy_token_lexeme(ts, p) == IF p <= Len(ts) /\ Len(ts[p]) = 2 THEN ts[p][2] ELSE "?"

(* The rules table: how tightly an infix token binds.                      *)
PREC_NONE == 0
PREC_ASSIGNMENT == 1
PREC_EQUALITY == 2
PREC_COMPARISON == 3
PREC_TERM == 4
PREC_FACTOR == 5
PREC_UNARY == 6
PREC_CALL == 7

get_rule(type) ==
  CASE type \in {"==", "!="} -> PREC_EQUALITY
    [] type \in {"<", ">", "<=", ">="} -> PREC_COMPARISON
    [] type \in {"+", "-"} -> PREC_TERM
    [] type \in {"*", "/"} -> PREC_FACTOR
    [] type \in {".", "(", "[", "%"} -> PREC_CALL
    [] OTHER -> PREC_NONE

is_collection_method_name(name) ==
  name \in {"delete", "first", "last", "next", "prior", "extend", "trim"}

MethodCall(method, receiver, args) ==
  create_call_expr(IF method = "trim" THEN "array_trim" ELSE method, <<receiver>> \o args)

RECURSIVE parse_precedence(_, _, _, _), InfixLoop(_, _, _, _), ExprList(_, _, _),
          PairList(_, _, _, _), block(_, _, _), StmtList(_, _, _), statement(_, _, _),
          if_statement(_, _, _), WhenList(_, _, _), parse_type(_, _), ParamList(_, _),
          FieldList(_, _), parse_program(_, _, _)

expression(ts, p, S) == parse_precedence(ts, p, PREC_ASSIGNMENT, S)

ExprList(ts, p, S) ==
  LET e == expression(ts, p, S)
      more == ExprList(ts, e.p + 1, S)
  IN  IF e.ok /\ check(ts, e.p, ",") THEN Parsed(<<e.x>> \o more.x, more.p, more.ok)
      ELSE Parsed(<<e.x>>, e.p, e.ok)

(* Arguments or elements up to a closing token that is not checked.        *)
Arguments(ts, p, close, S) ==
  LET es == IF check(ts, p, close) THEN Parsed(<<>>, p, TRUE) ELSE ExprList(ts, p, S)
  IN  Parsed(es.x, es.p + 1, es.ok)

(* key <sep> expression, ...: the pairs of a map or a struct literal.      *)
PairList(ts, p, inStruct, S) ==
  LET k == IF inStruct THEN Parsed(copy_token_lexeme(ts, p), p + 1, check(ts, p, "ident"))
           ELSE expression(ts, p, S)
      v == expression(ts, k.p + 1, S)
      ok == k.ok /\ (inStruct \/ check(ts, k.p, ":")) /\ v.ok
      more == PairList(ts, v.p + 1, inStruct, S)
  IN  IF ok /\ check(ts, v.p, ",")
      THEN Parsed(<< <<k.x>> \o more.x[1], <<v.x>> \o more.x[2] >>, more.p, more.ok)
      ELSE Parsed(<< <<k.x>>, <<v.x>> >>, v.p, ok)

Pairs(ts, p, inStruct, S) ==
  LET ps == IF check(ts, p, "}") THEN Parsed(<< <<>>, <<>> >>, p, TRUE) ELSE PairList(ts, p, inStruct, S)
  IN  Parsed(ps.x, ps.p + 1, ps.ok /\ check(ts, ps.p, "}"))

grouping(ts, p, S) ==
  LET e == expression(ts, p, S) IN Parsed(e.x, e.p + 1, e.ok)

unary(ts, p, S) ==
  LET e == parse_precedence(ts, p, PREC_UNARY, S)
  IN  Parsed(create_unary_expr(TokenType(ts, p - 1), e.x), e.p, e.ok)

literal_bool(ts, p) == Parsed(create_literal_expr(<<"bool", IF TokenType(ts, p - 1) = "true" THEN 1 ELSE 0>>), p, TRUE)

literal_null(p) == Parsed(create_literal_expr(<<"null">>), p, TRUE)

number(ts, p) == Parsed(create_literal_expr(ts[p - 1]), p, TRUE)

map_literal(ts, p, S) ==
  LET ps == Pairs(ts, p, FALSE, S) IN Parsed(create_map_literal_expr(ps.x[1], ps.x[2]), ps.p, ps.ok)

struct_literal(ts, p, name, S) ==
  LET ps == Pairs(ts, p + 1, TRUE, S)
  IN  Parsed(create_struct_literal_expr(name, ps.x[1], ps.x[2]), ps.p, ps.ok)

variable(ts, p, S) ==
  LET name == copy_token_lexeme(ts, p - 1)
  IN  IF check(ts, p, "{") /\ name \in S THEN struct_literal(ts, p, name, S)
      ELSE Parsed(create_variable_expr(name), p, TRUE)

array_literal(ts, p, S) ==
  LET es == Arguments(ts, p, "]", S) IN Parsed(create_array_expr(es.x), es.p, es.ok)

index_expr(ts, p, left, S) ==
  LET e == expression(ts, p, S) IN Parsed(create_index_expr(left, e.x), e.p + 1, e.ok)

(* Members of packages, and a variable named row, are left out.             *)
field(ts, p, left, S) ==
  LET name == copy_token_lexeme(ts, p)
      args == Arguments(ts, p + 2, ")", S)
  IN  IF check(ts, p + 1, "(") /\ is_collection_method_name(name)
      THEN Parsed(MethodCall(name, left, args.x), args.p, args.ok)
      ELSE Parsed(create_row_field_expr(left, name), p + 1, TRUE)

cursor_attr(ts, p, left) ==
  IF left[1] = "variable" THEN Parsed(create_cursor_attr_expr(left[2], copy_token_lexeme(ts, p)), p + 1, TRUE)
  ELSE Failed(p)

call(ts, p, left, S) ==
  LET args == Arguments(ts, p, ")", S)
  IN  IF left[1] = "variable" THEN Parsed(create_call_expr(left[2], args.x), args.p, args.ok)
      ELSE Failed(p)

MutBinary(ts, p, left, S) ==
  LET op == TokenType(ts, p - 1)
      right == parse_precedence(ts, p, get_rule(op), S)
  IN  Parsed(create_binary_expr(op, left, right.x), right.p, right.ok)

binary(ts, p, left, S) ==
  LET op == TokenType(ts, p - 1)
      right == parse_precedence(ts, p, get_rule(op) + 1, S)
  IN  Parsed(create_binary_expr(op, left, right.x), right.p, right.ok)

PrefixRule(ts, p, S) ==
  LET type == TokenType(ts, p - 1)
  IN  CASE type = "(" -> grouping(ts, p, S)
        [] type \in {"-", "!"} -> unary(ts, p, S)
        [] type \in {"true", "false"} -> literal_bool(ts, p)
        [] type = "null" -> literal_null(p)
        [] type \in {"int", "float", "string"} -> number(ts, p)
        [] type = "{" -> map_literal(ts, p, S)
        [] type = "[" -> array_literal(ts, p, S)
        [] type = "ident" -> variable(ts, p, S)
        [] OTHER -> Failed(p)

InfixRule(ts, p, left, S) ==
  LET type == TokenType(ts, p - 1)
  IN  CASE type = "." -> field(ts, p, left, S)
        [] type = "(" -> call(ts, p, left, S)
        [] type = "[" -> index_expr(ts, p, left, S)
        [] type = "%" -> cursor_attr(ts, p, left)
        [] OTHER -> binary(ts, p, left, S)

InfixLoop(ts, left, prec, S) ==
  IF left.ok /\ prec <= get_rule(TokenType(ts, left.p))
  THEN InfixLoop(ts, InfixRule(ts, left.p + 1, left.x, S), prec, S)
  ELSE left

parse_precedence(ts, p, prec, S) == InfixLoop(ts, PrefixRule(ts, p + 1, S), prec, S)

(* A type is a tuple: the kind, and the types or the name it is built of.  *)
parse_type(ts, p) ==
  LET t == TokenType(ts, p)
      elem == parse_type(ts, p + 2)
      val == parse_type(ts, elem.p + 1)
  IN  CASE t \in {"int_type", "float_type", "string_type", "bool_type"} -> Parsed(<<t>>, p + 1, TRUE)
        [] t = "any_type" -> Parsed(<<"unknown">>, p + 1, TRUE)
        [] t = "ident" -> Parsed(<<"struct", copy_token_lexeme(ts, p)>>, p + 1, TRUE)
        [] t = "array" /\ check(ts, p + 1, "<") ->
             Parsed(<<"array", elem.x>>, elem.p + 1, elem.ok /\ check(ts, elem.p, ">"))
        [] t = "array" -> Parsed(<<"array", NoType>>, p + 1, TRUE)
        [] t = "map" /\ check(ts, p + 1, "<") ->
             Parsed(<<"map", elem.x, val.x>>, val.p + 1,
                    /\ elem.ok /\ elem.x \in {<<"int_type">>, <<"string_type">>} /\ check(ts, elem.p, ",")
                    /\ val.ok /\ check(ts, val.p, ">"))
        [] t = "map" -> Parsed(<<"map", <<"string_type">>, <<"unknown">>>>, p + 1, TRUE)
        [] OTHER -> Failed(p)

StmtList(ts, p, S) ==
  LET s == statement(ts, p, S)
      more == StmtList(ts, s.p, S)
  IN  IF check(ts, p, "}") \/ p > Len(ts) THEN Parsed(<<>>, p, TRUE)
      ELSE IF ~s.ok THEN Failed(p)
      ELSE Parsed(IF more.ok THEN <<s.x>> \o more.x ELSE <<>>, more.p, more.ok)

block(ts, p, S) ==
  LET ss == StmtList(ts, p + 1, S)
  IN  Parsed(ss.x, ss.p + 1, ss.ok /\ check(ts, ss.p, "}"))

var_decl(ts, p, S) ==
  LET type == parse_type(ts, p)
      init == expression(ts, type.p + 2, S)
      name == copy_token_lexeme(ts, type.p)
  IN  IF check(ts, type.p + 1, "=")
      THEN Parsed(create_var_decl_stmt(type.x, name, init.x), init.p + 1, type.ok /\ init.ok)
      ELSE Parsed(create_var_decl_stmt(type.x, name, NoNode), type.p + 2, type.ok)

(* name.member...: a collection method, a field assignment or a field read. *)
MemberStmt(ts, p, S) ==
  LET object == create_variable_expr(copy_token_lexeme(ts, p))
      name == copy_token_lexeme(ts, p + 2)
      args == Arguments(ts, p + 4, ")", S)
      value == expression(ts, p + 4, S)
      stmt == IF check(ts, p + 3, "(")
              THEN Parsed(create_expr_stmt(MethodCall(name, object, args.x)), args.p,
                          args.ok /\ is_collection_method_name(name))
              ELSE IF check(ts, p + 3, "=")
              THEN Parsed(create_field_assign_stmt(object, name, value.x), value.p, value.ok)
              ELSE Parsed(create_expr_stmt(create_row_field_expr(object, name)), p + 3, TRUE)
  IN  Parsed(stmt.x, stmt.p + 1, check(ts, p + 2, "ident") /\ stmt.ok /\ check(ts, stmt.p, ";"))

RECURSIVE IndexChain(_, _, _, _)
IndexChain(ts, p, array, S) ==
  LET index == expression(ts, p, S)
      value == expression(ts, index.p + 2, S)
  IN  IF index.ok /\ check(ts, index.p + 1, "[")
      THEN IndexChain(ts, index.p + 2, create_index_expr(array, index.x), S)
      ELSE Parsed(create_index_assign_stmt(array, index.x, value.x), value.p + 1, index.ok /\ value.ok)

assignment(ts, p, S) ==
  LET name == copy_token_lexeme(ts, p)
      target == create_variable_expr(name)
      called == call(ts, p + 2, target, S)
      value == expression(ts, p + 2, S)
  IN  CASE check(ts, p + 1, ".") -> MemberStmt(ts, p, S)
        [] check(ts, p + 1, "(") -> Parsed(create_expr_stmt(called.x), called.p + 1, called.ok)
        [] check(ts, p + 1, "[") -> IndexChain(ts, p + 2, target, S)
        [] OTHER -> Parsed(create_assign_stmt(name, value.x), value.p + 1, value.ok)

if_statement(ts, p, S) ==
  LET cond == expression(ts, p, S)
      then == block(ts, cond.p, S)
      nested == if_statement(ts, then.p + 2, S)
      else == CASE ~check(ts, then.p, "else") -> Parsed(<<>>, then.p, TRUE)
                [] check(ts, then.p + 1, "if") -> Parsed(<<nested.x>>, nested.p, nested.ok)
                [] OTHER -> block(ts, then.p + 1, S)
  IN  Parsed(create_if_stmt(cond.x, then.x, else.x), else.p, cond.ok /\ then.ok /\ else.ok)

while_statement(ts, p, S) ==
  LET cond == expression(ts, p, S)
      body == block(ts, cond.p, S)
  IN  Parsed(create_while_stmt(cond.x, body.x), body.p, cond.ok /\ body.ok)

do_while_statement(ts, p, S) ==
  LET body == block(ts, p, S)
      cond == expression(ts, body.p + 1, S)
  IN  Parsed(create_do_while_stmt(cond.x, body.x), cond.p + 1,
             body.ok /\ check(ts, body.p, "while") /\ cond.ok /\ check(ts, cond.p, ";"))

try_statement(ts, p, S) ==
  LET body == block(ts, p, S)
      catch == block(ts, body.p + 4, S)
  IN  Parsed(create_try_catch_stmt(body.x, copy_token_lexeme(ts, body.p + 2), catch.x), catch.p,
             /\ body.ok /\ check(ts, body.p, "catch") /\ check(ts, body.p + 1, "(")
             /\ check(ts, body.p + 2, "ident") /\ check(ts, body.p + 3, ")") /\ catch.ok)

exception_decl_statement(ts, p) ==
  Parsed(create_exception_decl_stmt(copy_token_lexeme(ts, p)), p + 3, check(ts, p + 2, ";"))

raise_statement(ts, p) ==
  Parsed(create_raise_stmt(copy_token_lexeme(ts, p)), p + 2, check(ts, p, "ident") /\ check(ts, p + 1, ";"))

(* when value: block ... else: block }, as values, blocks and else block.  *)
WhenList(ts, p, S) ==
  LET value == expression(ts, p + 1, S)
      body == block(ts, value.p + 1, S)
      more == WhenList(ts, body.p, S)
      else == block(ts, p + 2, S)
  IN  CASE check(ts, p, "else") ->
             Parsed(<< <<>>, <<>>, else.x >>, else.p + 1,
                    check(ts, p + 1, ":") /\ else.ok /\ check(ts, else.p, "}"))
        [] check(ts, p, "when") ->
             IF value.ok /\ check(ts, value.p, ":") /\ body.ok /\ more.ok
             THEN Parsed(<< <<value.x>> \o more.x[1], <<body.x>> \o more.x[2], more.x[3] >>, more.p, TRUE)
             ELSE Failed(p)
        [] OTHER -> Parsed(<< <<>>, <<>>, <<>> >>, p + 1, check(ts, p, "}"))

case_statement(ts, p, S) ==
  LET sel == expression(ts, p, S)
      whens == WhenList(ts, sel.p + 1, S)
  IN  IF sel.ok /\ check(ts, sel.p, "{") /\ whens.ok
      THEN Parsed(create_case_stmt(sel.x, whens.x[1], whens.x[2], whens.x[3]), whens.p, TRUE)
      ELSE Failed(p)

for_step(ts, p, S) ==
  LET value == expression(ts, p + 2, S)
      called == call(ts, p + 2, create_variable_expr(copy_token_lexeme(ts, p)), S)
      e == expression(ts, p, S)
  IN  CASE ~check(ts, p, "ident") -> Parsed(create_expr_stmt(e.x), e.p, e.ok)
        [] check(ts, p + 1, "=") -> Parsed(create_assign_stmt(copy_token_lexeme(ts, p), value.x), value.p, value.ok)
        [] check(ts, p + 1, "(") -> Parsed(create_expr_stmt(called.x), called.p, called.ok)
        [] OTHER -> Failed(p)

cfor_statement(ts, p, S) ==
  LET first == statement(ts, p, S)
      init == IF check(ts, p, ";") THEN Parsed(<<>>, p + 1, TRUE)
              ELSE Parsed(<<first.x>>, first.p, first.ok)
      cond == IF check(ts, init.p, ";") THEN Parsed(NoNode, init.p, TRUE) ELSE expression(ts, init.p, S)
      last == for_step(ts, cond.p + 1, S)
      step == IF check(ts, cond.p + 1, ")") THEN Parsed(<<>>, cond.p + 1, TRUE)
              ELSE Parsed(<<last.x>>, last.p, last.ok)
      body == block(ts, step.p + 1, S)
  IN  Parsed(create_cfor_stmt(init.x, cond.x, step.x, body.x), body.p,
             /\ init.ok /\ cond.ok /\ check(ts, cond.p, ";")
             /\ step.ok /\ check(ts, step.p, ")") /\ body.ok)

sql_for_statement(ts, p, var, S) ==
  LET body == block(ts, p + 1, S)
  IN  Parsed(create_for_stmt(var, copy_token_lexeme(ts, p), body.x), body.p, body.ok)

for_statement(ts, p, S) ==
  LET iterable == expression(ts, p + 2, S)
      body == block(ts, iterable.p, S)
  IN  IF check(ts, p, "(") THEN cfor_statement(ts, p + 1, S)
      ELSE IF check(ts, p + 1, "in") /\ check(ts, p + 2, "sql_query")
      THEN sql_for_statement(ts, p + 2, copy_token_lexeme(ts, p), S)
      ELSE Parsed(create_foreach_stmt(copy_token_lexeme(ts, p), iterable.x, body.x), body.p,
                  check(ts, p + 1, "in") /\ iterable.ok /\ body.ok)

return_statement(ts, p, S) ==
  LET e == expression(ts, p, S) IN Parsed(create_return_stmt(e.x), e.p + 1, e.ok)

print_statement(ts, p, S) ==
  LET e == expression(ts, p, S) IN Parsed(create_print_stmt(e.x), e.p + 1, e.ok)

(* select ... into ...;  from the query's token on.                        *)
sql_statement(ts, p) ==
  Parsed(create_sql_stmt(copy_token_lexeme(ts, p)), p + 2, check(ts, p + 1, ";"))

(* cursor name [is query];  and  open name [for query];                    *)
CursorQueryStmt(ts, p, word, kind) ==
  LET named == check(ts, p + 1, word)
      query == IF named THEN <<copy_token_lexeme(ts, p + 2)>> ELSE <<>>
      q == IF named THEN p + 3 ELSE p + 1
      name == copy_token_lexeme(ts, p)
  IN  Parsed(IF kind = "cursor_decl" THEN create_cursor_decl_stmt(name, query) ELSE create_cursor_open_stmt(name, query),
             q + 1,
             /\ check(ts, p, "ident")
             /\ named => check(ts, p + 2, "sql_query")
             /\ check(ts, q, ";"))

cursor_decl_statement(ts, p) == CursorQueryStmt(ts, p, "is", "cursor_decl")

cursor_open_statement(ts, p) == CursorQueryStmt(ts, p, "for", "cursor_open")

RECURSIVE NameList(_, _)
NameList(ts, p) ==
  LET more == NameList(ts, p + 2)
  IN  CASE ~check(ts, p, "ident") -> Failed(p)
        [] check(ts, p + 1, ",") /\ more.ok -> Parsed(<<copy_token_lexeme(ts, p)>> \o more.x, more.p, TRUE)
        [] OTHER -> Parsed(<<copy_token_lexeme(ts, p)>>, p + 1, ~check(ts, p + 1, ","))

cursor_fetch_statement(ts, p) ==
  LET vars == NameList(ts, p + 2)
  IN  Parsed(create_cursor_fetch_stmt(copy_token_lexeme(ts, p), vars.x), vars.p + 1,
             check(ts, p, "ident") /\ check(ts, p + 1, "into") /\ vars.ok /\ check(ts, vars.p, ";"))

cursor_close_statement(ts, p) ==
  Parsed(create_cursor_close_stmt(copy_token_lexeme(ts, p)), p + 2, check(ts, p, "ident") /\ check(ts, p + 1, ";"))

statement(ts, p, S) ==
  LET t == TokenType(ts, p)
  IN  CASE t \in {"int_type", "float_type", "string_type", "bool_type", "any_type", "array", "map"} -> var_decl(ts, p, S)
        [] t = "ident" /\ check(ts, p + 1, "ident") -> var_decl(ts, p, S)
        [] t = "ident" /\ check(ts, p + 1, "exception") -> exception_decl_statement(ts, p)
        [] t = "ident" -> assignment(ts, p, S)
        [] t = "if" -> if_statement(ts, p + 1, S)
        [] t = "while" -> while_statement(ts, p + 1, S)
        [] t = "do" -> do_while_statement(ts, p + 1, S)
        [] t = "for" -> for_statement(ts, p + 1, S)
        [] t = "break" -> Parsed(create_break_stmt, p + 2, TRUE)
        [] t = "continue" -> Parsed(create_continue_stmt, p + 2, TRUE)
        [] t = "try" -> try_statement(ts, p + 1, S)
        [] t = "raise" -> raise_statement(ts, p + 1)
        [] t = "case" -> case_statement(ts, p + 1, S)
        [] t = "return" -> return_statement(ts, p + 1, S)
        [] t = "print" -> print_statement(ts, p + 1, S)
        [] t = "sql_query" -> sql_statement(ts, p)
        [] t = "cursor" -> cursor_decl_statement(ts, p + 1)
        [] t = "open" -> cursor_open_statement(ts, p + 1)
        [] t = "fetch" -> cursor_fetch_statement(ts, p + 1)
        [] t = "close" -> cursor_close_statement(ts, p + 1)
        [] OTHER -> Failed(p)

ParamList(ts, p) ==
  LET mode == CASE check(ts, p + 1, "out") -> "out"
                [] check(ts, p + 1, "in") /\ check(ts, p + 2, "out") -> "inout"
                [] OTHER -> "in"
      type == parse_type(ts, p + CASE mode = "in" -> IF check(ts, p + 1, "in") THEN 2 ELSE 1
                                   [] mode = "out" -> 2
                                   [] OTHER -> 3)
      param == [name |-> copy_token_lexeme(ts, p), mode |-> mode, type |-> type.x]
      more == ParamList(ts, type.p + 1)
  IN  IF ~check(ts, p, "ident") \/ ~type.ok THEN Failed(p)
      ELSE IF check(ts, type.p, ",") THEN Parsed(<<param>> \o more.x, more.p, more.ok)
      ELSE Parsed(<<param>>, type.p, TRUE)

(* proc name(params) -> type, from the name on.                            *)
parse_proc_header(ts, p) ==
  LET params == IF check(ts, p + 2, ")") THEN Parsed(<<>>, p + 2, TRUE) ELSE ParamList(ts, p + 2)
      ret == parse_type(ts, params.p + 2)
  IN  Parsed(<<copy_token_lexeme(ts, p), params.x, ret.x>>, ret.p,
             /\ check(ts, p + 1, "(") /\ params.ok /\ check(ts, params.p, ")")
             /\ check(ts, params.p + 1, "->") /\ ret.ok)

parse_proc_with_kind(ts, p, S) ==
  LET header == parse_proc_header(ts, p)
      body == block(ts, header.p, S)
  IN  IF header.ok /\ body.ok
      THEN Parsed(create_proc_decl(header.x[1], header.x[2], header.x[3], body.x), body.p, TRUE)
      ELSE Failed(p)

FieldList(ts, p) ==
  LET type == parse_type(ts, p + 1)
      fld == <<copy_token_lexeme(ts, p), type.x>>
      more == FieldList(ts, type.p + 1)
  IN  CASE check(ts, p, "}") -> Parsed(<<>>, p + 1, TRUE)
        [] ~check(ts, p, "ident") \/ ~type.ok -> Failed(p)
        [] check(ts, type.p, ",") -> Parsed(IF more.ok THEN <<fld>> \o more.x ELSE <<>>, more.p, more.ok)
        [] OTHER -> Parsed(<<fld>>, type.p + 1, check(ts, type.p, "}"))

(* Methods of a struct are left out.                                       *)
parse_struct(ts, p) ==
  LET fields == FieldList(ts, p + 2)
  IN  Parsed([name |-> copy_token_lexeme(ts, p), fields |-> fields.x], fields.p,
             check(ts, p, "ident") /\ check(ts, p + 1, "{") /\ fields.ok)

(* The declarations of a source file, structs and procedures in turn.      *)
parse_program(ts, p, prog) ==
  LET s == parse_struct(ts, p + 1)
      d == parse_proc_with_kind(ts, p + 1, {prog.structs[i].name : i \in DOMAIN prog.structs})
  IN  CASE p > Len(ts) -> Parsed(prog, p, TRUE)
        [] check(ts, p, "struct") /\ s.ok ->
             parse_program(ts, s.p, [prog EXCEPT !.structs = Append(@, s.x)])
        [] check(ts, p, "proc") /\ d.ok ->
             parse_program(ts, d.p, [prog EXCEPT !.procs = Append(@, d.x)])
        [] OTHER -> Failed(p)

parse_with_path_from_line(ts) == parse_program(ts, 1, [structs |-> <<>>, procs |-> <<>>])
=============================================================================
