----------------------------- MODULE MCPrograms -----------------------------
(***************************************************************************)
(* Families of small programs for LangMachine, and its properties.         *)
(***************************************************************************)
EXTENDS LangMachine

V(name) == create_variable_expr(name)
I(n) == create_literal_expr(value_int(n))
Null == create_literal_expr(value_null)
Str(x) == create_literal_expr(value_string(<<x>>))
Bin(op, a, b) == create_binary_expr(op, a, b)
Un(op, a) == create_unary_expr(op, a)
CallOf(name, args) == create_call_expr(name, args)
At(a, i) == create_index_expr(a, i)
Dot(r, f) == create_row_field_expr(r, f)
Arr(es) == create_array_expr(es)
Decl(type, name, e) == create_var_decl_stmt(type, name, e)
Set(name, e) == create_assign_stmt(name, e)
Put(a, i, e) == create_index_assign_stmt(a, i, e)
Show(e) == create_print_stmt(e)
Do(e) == create_expr_stmt(e)
If(c, then) == create_if_stmt(c, then, <<>>)
Break == create_break_stmt
Continue_ == create_continue_stmt
Ret(e) == create_return_stmt(e)
Ints == <<"array", type_int>>
IntMap == <<"map", type_int, type_int>>
Point == [name |-> "P", fields |-> << <<"f", type_int>>, <<"g", type_string>> >>]
NewP(x, y) == create_struct_literal_expr("P", <<"f", "g">>, <<x, y>>)
Param(name, mode, type) == [name |-> name, mode |-> mode, type |-> type]
Main(body) == create_proc_decl("main", <<>>, type_int, body \o <<Ret(I(0))>>)
Of(procs) == [structs |-> <<Point>>, procs |-> procs]
Program(body) == Of(<<Main(body)>>)

(* Three rows of one column a.                                             *)
Query3(ps, into) == [cols |-> << <<"a", type_int>> >>, rows |-> [i \in 1..3 |-> <<value_int(i)>>], params |-> ps, into |-> into]

(* Expressions: two operators in either shape, and unary operators.        *)
Ops == {"+", "-", "*", "/", "==", "<", ">"}
Leaves == {I(7), create_literal_expr(value_float(5, 2)), Str("b"), create_literal_expr(value_bool(TRUE)), Null}
Shapes ==
  {Bin(p, Bin(o, I(7), I(3)), I(2)) : o \in Ops, p \in Ops} \cup {Bin(p, I(7), Bin(o, I(3), I(2))) : o \in Ops, p \in Ops}
    \cup {Bin(o, Un(u, I(7)), I(2)) : o \in Ops, u \in {"-", "!"}} \cup {Un(u, Bin(o, I(7), I(2))) : o \in Ops, u \in {"-", "!"}}
    \cup {Bin(o, a, b) : o \in Ops, a \in Leaves, b \in {I(0), Str("a"), create_literal_expr(value_float(3, 1)), create_literal_expr(value_bool(FALSE))}}
Expressions == {Program(<<Show(e)>>) : e \in Shapes}

(* A loop of each kind in which v is 1, 2, 3 in turn.                      *)
Count(v) == Set(v, Bin("+", V(v), I(1)))
Looped(kind, v, body) ==
  CASE kind = "while" -> <<Decl(type_int, v, I(0)), create_while_stmt(Bin("<", V(v), I(3)), <<Count(v)>> \o body)>>
    [] kind = "do" -> <<Decl(type_int, v, I(0)), create_do_while_stmt(Bin("<", V(v), I(3)), <<Count(v)>> \o body)>>
    [] kind = "cfor" -> <<create_cfor_stmt(<<Decl(type_int, v, I(1))>>, Bin("<", V(v), I(4)), <<Count(v)>>, body)>>
    [] kind = "ever" -> <<Decl(type_int, v, I(0)), create_cfor_stmt(<<Set(v, I(1))>>, NoNode, <<>>,
                                                 body \o <<Count(v), If(Bin(">", V(v), I(3)), <<Break>>)>>)>>
    [] kind = "foreach" -> <<create_foreach_stmt(v, Arr(<<I(1), I(2), I(3)>>), body)>>
    [] kind = "rows" -> <<create_for_stmt("r", Query3(<<>>, <<>>), <<Decl(type_int, v, Dot(V("r"), "a"))>> \o body)>>
    [] kind = "cursor" ->
         <<create_cursor_decl_stmt("c", <<Query3(<<>>, <<>>)>>), create_cursor_open_stmt("c", <<>>), Decl(type_int, v, I(0)),
           create_do_while_stmt(create_literal_expr(value_bool(TRUE)),
             <<create_cursor_fetch_stmt("c", <<v>>), If(create_cursor_attr_expr("c", "notfound"), <<Break>>)>> \o body),
           Show(create_cursor_attr_expr("c", "rowcount")), create_cursor_close_stmt("c"),
           Show(create_cursor_attr_expr("c", "isopen"))>>
Kinds == {"while", "do", "cfor", "foreach", "rows", "cursor"}

Skip(v, how) == <<If(Bin("==", V(v), I(2)), <<Decl(type_int, "z", I(9)), how>>), Show(V(v))>>
Bodies(v) ==
  {<<Show(V(v))>>, Skip(v, Break), Skip(v, Continue_), <<Decl(type_int, "y", Bin("*", V(v), I(5)))>> \o Skip(v, Continue_) \o <<Show(V("y"))>>,
   <<create_try_catch_stmt(<<If(Bin("==", V(v), I(2)), <<create_raise_stmt("no_data_found")>>), Show(V(v))>>, "e", <<Show(V("e"))>>)>>,
   <<create_case_stmt(V(v), <<I(1), I(2)>>, <<<<Show(I(10))>>, <<Decl(type_int, "z", I(20)), Show(V("z"))>>>>, <<Show(I(30))>>)>>}

(* One statement kind may be left only by the loop it is in.               *)
Loops == {Program(Looped(k, "i", b) \o <<Show(I(99))>>) : k \in Kinds, b \in Bodies("i")}
           \cup {Program(<<create_cursor_decl_stmt("c", <<Query3(<<>>, <<>>)>>), create_cursor_open_stmt("c", <<>>),
                           create_while_stmt(create_cursor_attr_expr("c", "found"),
                             <<Decl(type_int, "i", I(0)), create_cursor_fetch_stmt("c", <<"i">>), Show(V("i"))>>), Show(I(99))>>)}
           \cup {Program(Looped("ever", "i", b)) : b \in {<<Show(V("i"))>>, Skip("i", Break)}}
Nests == {Program(Looped(p[1], "i", <<Show(V("i"))>> \o Looped(p[2], "j", b) \o Skip("i", how)) \o <<Show(I(99))>>) :
            p \in (Kinds \X Kinds) \ {<<"rows", "rows">>},
            b \in {Skip("j", Break), Skip("j", Continue_)}, how \in {Break, Continue_}}

(* Procedures: a return from within each loop, OUT and IN OUT parameters,  *)
(* recursion, containers passed on.                                        *)
F(ps, ret, body) == create_proc_decl("f", ps, ret, body)
Leaving == {Of(<<F(<<Param("n", "in", type_int)>>, type_int, Looped(k, "i", <<If(Bin("==", V("i"), V("n")), <<Decl(type_int, "z", I(9)), Ret(V("i"))>>)>>) \o <<Ret(I(8))>>),
                 Main(<<Show(Bin("+", CallOf("f", <<I(2)>>), CallOf("f", <<I(5)>>)))>>)>>) : k \in Kinds}
Swap == F(<<Param("a", "inout", type_int), Param("b", "inout", type_int), Param("o", "out", type_int)>>, type_int,
          <<Decl(type_int, "t", V("a")), Set("a", V("b")), Set("b", V("t")), Set("o", Bin("+", V("o"), V("a"))), Ret(V("t"))>>)
Calls ==
  {Of(<<Main(<<Decl(type_int, "x", I(1)), Decl(type_int, "y", I(2)), Decl(type_int, "w", I(5)), Set("w", CallOf("f", args)), Show(V("x")), Show(V("y")), Show(V("w"))>>), Swap>>) :
     args \in {<<V("x"), V("y"), V("w")>>, <<V("x"), V("x"), V("y")>>, <<V("w"), V("y"), V("w")>>}}
  \cup {Of(<<F(<<Param("n", "in", type_int)>>, type_int, <<If(Bin("<", V("n"), I(2)), <<Ret(I(1))>>), Ret(Bin("*", V("n"), CallOf("f", <<Bin("-", V("n"), I(1))>>)))>>),
             Main(<<Show(CallOf("f", <<I(4)>>))>>)>>)}
  \cup {Of(<<Main(<<Decl(Ints, "a", Arr(<<I(1), I(2)>>)), create_try_catch_stmt(<<Do(CallOf("f", <<V("a"), I(i)>>))>>, "e", <<Show(V("e"))>>), Show(V("a"))>>),
             F(<<Param("b", "in", Ints), Param("n", "in", type_int)>>, type_int, <<Put(V("b"), I(0), I(9)), Put(V("b"), V("n"), I(7)), create_raise_stmt("too_many_rows")>>)>>) : i \in {1, 2}}

(* Errors and handlers.                                                    *)
TryIn(body, handler) == create_try_catch_stmt(body, "e", handler)
Bad == Show(At(Arr(<<I(1)>>), I(4)))
Handlers ==
  {Program(<<create_exception_decl_stmt("oops")>> \o b \o <<Show(I(5))>>) : b \in
    {<<TryIn(<<TryIn(<<create_raise_stmt("oops")>>, <<create_raise_stmt("no_data_found")>>), Show(I(1))>>, <<Show(V("e"))>>)>>,
     <<TryIn(<<Decl(type_int, "x", I(1)), Bad>>, <<Decl(type_int, "x", I(2)), Show(V("x"))>>), TryIn(<<Show(I(3))>>, <<Show(I(4))>>)>>,
     <<Bad>>, <<TryIn(<<Show(I(1))>>, <<Show(I(2))>>), create_raise_stmt("oops")>>,
     <<Decl(type_int, "x", I(0)), create_sql_stmt(Query3(<<"x">>, <<"x">>)), Show(V("x")), create_sql_stmt(Query3(<<"x">>, <<"x">>)), Show(V("x")),
       Set("x", I(3)), TryIn(<<create_sql_stmt(Query3(<<"x">>, <<"x">>))>>, <<Show(V("e"))>>)>>,
     <<create_cursor_decl_stmt("c", <<>>), Decl(type_int, "x", I(1)), TryIn(<<create_cursor_fetch_stmt("c", <<"x">>)>>, <<Show(V("e"))>>),
       create_cursor_open_stmt("c", <<Query3(<<"x">>, <<>>)>>), create_cursor_fetch_stmt("c", <<"x">>), Show(V("x")),
       Show(create_cursor_attr_expr("c", "found")), create_cursor_close_stmt("c"), create_cursor_fetch_stmt("c", <<"x">>)>>}}

(* Containers and structs: every operation through two names of one object. *)
TwoNames(u) == Program(<<Decl(Ints, "a", Arr(<<I(3), I(4)>>)), Decl(Ints, "b", V("a"))>> \o u
                         \o <<Show(V("a")), Show(CallOf("length", <<V("b")>>))>>)
Cells == {TwoNames(<<Put(V("a"), I(1), I(8))>>), TwoNames(<<Do(CallOf("append", <<V("a"), I(8)>>))>>),
          TwoNames(<<Set("b", CallOf("append", <<V("a"), I(8)>>))>>), TwoNames(<<Do(CallOf("array_trim", <<V("b"), I(1)>>))>>),
          TwoNames(<<Do(CallOf("array_trim", <<V("b"), I(3)>>))>>), TwoNames(<<Do(CallOf("extend", <<V("b"), I(2)>>))>>),
          TwoNames(<<Put(V("b"), I(2), I(1))>>), TwoNames(<<Set("b", Arr(<<I(5)>>)), Put(V("b"), I(0), I(6))>>),
          TwoNames(<<create_foreach_stmt("x", V("a"), <<If(Bin("<", V("x"), I(5)), <<Do(CallOf("append", <<V("b"), Bin("+", V("x"), I(2))>>))>>)>>)>>)}
Keyed(u) == Program(<<Decl(IntMap, "m", create_map_literal_expr(<<I(4), I(2)>>, <<I(40), I(20)>>)), Decl(IntMap, "n", V("m")),
                      Put(V("n"), I(6), I(60))>> \o u
                      \o <<Show(CallOf("length", <<V("m")>>)), Show(CallOf("first", <<V("m")>>)), Show(CallOf("last", <<V("m")>>)),
                           Show(At(V("m"), I(2)))>>)
Maps == UNION {{Keyed(<<Put(V("m"), I(2), I(21))>>), Keyed(<<Do(CallOf("delete", <<V("m"), I(k)>>))>>),
                Keyed(<<Show(CallOf("next", <<V("m"), I(k)>>)), Show(CallOf("prior", <<V("m"), I(k)>>))>>)} : k \in {2, 3, 6}}
          \cup {Program(<<Decl(<<"map", type_string, type_int>>, "m", NoNode), Put(V("m"), Str("b"), I(2)), Put(V("m"), Str("a"), I(1)),
                          Show(CallOf("first", <<V("m")>>)), Show(CallOf("next", <<V("m"), Str("a")>>)), Show(V("m")), Show(At(V("m"), Str("c")))>>)}
Structs == {Program(<<Decl(<<"struct", "P">>, "p", NewP(I(1), Str("a"))), Decl(<<"struct", "P">>, "q", V("p"))>> \o u
                      \o <<Show(Dot(V("p"), "f")), Show(V("q"))>>) : u \in
             {<<create_field_assign_stmt(V("q"), "f", I(2))>>, <<Set("q", NewP(I(3), Str("b"))), create_field_assign_stmt(V("q"), "g", Dot(V("p"), "g"))>>,
              <<Decl(<<"array", <<"struct", "P">>>>, "a", Arr(<<V("p"), V("q")>>)), Set("q", At(V("a"), I(0))), create_field_assign_stmt(V("q"), "f", I(7)),
                Show(Dot(At(V("a"), I(1)), "f"))>>,
              <<Decl(<<"array", Ints>>, "a", Arr(<<Arr(<<I(1)>>), Arr(<<I(2)>>)>>)), Put(At(V("a"), I(1)), I(0), I(5)), Decl(Ints, "b", At(V("a"), I(1))),
                Do(CallOf("append", <<V("b"), I(6)>>)), Show(V("a"))>>}}

Correct == Loops \cup Nests \cup Leaving \cup Calls \cup Handlers \cup Cells \cup Maps \cup Structs

(* A variable of every type given an expression of every type, then used   *)
(* as its type allows; and calls with wrong arguments.  Most are rejected. *)
Pool == {I(1), create_literal_expr(value_float(5, 2)), Str("a"), create_literal_expr(value_bool(TRUE)), Arr(<<I(1), I(2)>>), Arr(<<Str("a")>>),
         Arr(<<I(1), Str("a")>>), create_map_literal_expr(<<I(1)>>, <<I(2)>>), create_map_literal_expr(<<I(1)>>, <<Str("a")>>),
         create_map_literal_expr(<<Str("a")>>, <<I(2)>>), NewP(I(1), Str("a")), NewP(Str("a"), I(1)), CallOf("f", <<I(1)>>), CallOf("f", <<Str("a")>>),
         CallOf("f", <<>>), Bin("+", I(1), Str("a")), Bin("+", Str("a"), Str("b")), Bin("<", I(1), I(2)), Un("-", Str("a")), At(Arr(<<I(1)>>), I(0)),
         At(create_map_literal_expr(<<I(1)>>, <<Str("a")>>), I(1)), Dot(NewP(I(1), Str("a")), "g"), CallOf("length", <<I(1)>>),
         CallOf("append", <<Arr(<<I(1)>>), Str("a")>>), CallOf("append", <<Arr(<<I(1)>>), I(2)>>), Dot(V("x"), "f"),
         Null, CallOf("f", <<Null>>), CallOf("append", <<Null, I(1)>>), CallOf("first", <<Null>>), CallOf("length", <<Null>>),
         Arr(<<I(1), Null>>), create_map_literal_expr(<<Null>>, <<I(2)>>), create_map_literal_expr(<<I(1)>>, <<Null>>), NewP(Null, Null)}
TypedUses ==
  {<<type_int, <<Show(Un("-", V("x"))), Show(At(Arr(<<I(1), I(2)>>), V("x")))>>>>, <<type_float, <<Show(Un("-", V("x")))>>>>,
   <<type_string, <<Show(CallOf("length", <<V("x")>>))>>>>, <<type_bool, <<If(V("x"), <<Show(Un("!", V("x")))>>)>>>>,
   <<Ints, <<Put(V("x"), I(0), I(5)), Show(Un("-", At(V("x"), I(0)))), Show(CallOf("length", <<V("x")>>)), Do(CallOf("append", <<V("x"), I(1)>>))>>>>,
   <<IntMap, <<Show(Un("-", At(V("x"), I(1)))), Put(V("x"), I(2), I(5)), Show(Un("-", CallOf("first", <<V("x")>>)))>>>>,
   <<<<"struct", "P">>, <<Show(Un("-", Dot(V("x"), "f"))), Show(CallOf("length", <<Dot(V("x"), "g")>>)), create_field_assign_stmt(V("x"), "f", I(3))>>>>}
Typed == {Of(<<F(<<Param("n", "in", type_int)>>, type_int, <<Ret(Un("-", V("n")))>>), Main(<<Decl(u[1], "x", e)>> \o u[2])>>) : u \in TypedUses, e \in Pool}
           \cup {Of(<<Main(<<Decl(type_int, "x", I(1)), Show(CallOf("f", args))>>), Swap>>) : args \in {<<V("x"), I(3), V("x")>>, <<V("x"), V("x")>>}}

MCPrograms == Expressions \cup Correct \cup Typed

(* Another query in a loop over rows: the machine has one result.          *)
MCQueriesInRows ==
  {Program(<<Decl(type_int, "x", I(0))>> \o Looped("rows", "i", query \o <<Show(Dot(V("r"), "a"))>>)) : query \in
     {Looped("rows", "j", <<Show(V("j"))>>), <<create_sql_stmt(Query3(<<"x">>, <<"x">>))>>}}
MCFrontEnd == LET pass(p) == Translated(p) IN [p \in MCPrograms |-> pass(p)]
MCFrontEndRows == LET pass(p) == Translated(p) IN [p \in MCQueriesInRows |-> pass(p)]
MCLetters == <<"a", "b", "c">>

---------------------------------------------------------------------------
(* The tree the parser builds is the program that was written, a correct   *)
(* program is accepted, and what the bytecode prints, whether it ends in   *)
(* an error and which, and what main returns are what the program means,   *)
(* for every nesting of loops, handlers, CASE, calls and operators.        *)
RunsAsWritten ==
  [][/\ phase' \notin {"syntax_error", "compile_error"}
     /\ phase' = "type_error" => written \notin Correct
     /\ phase' \notin {"text", "syntax_error"} => tree' = written
     /\ phase' \in {"done", "error"} =>
          LET m == Meaning(written)
          IN  out' = m.out /\ phase' = m.ends /\ (phase' = "done" => <<Last(stack')>> = m.value)]_vars

(* Whatever path reaches an instruction (a jump of a loop, a break, a      *)
(* continue, a handler), the frame holds the same number of values there:  *)
(* the code generator counts locals at compile time only.                  *)
HeightsAgree == phase = "running" => \A h \in heights : h[1] = pc => h[2] = Depth

KindErrors ==
  {"Invalid index", "Invalid index assignment", "Cannot access field on non-row value", "Cannot negate non-numeric value",
   "Map key must be int or string", "length expects a string, array, or map", "append expects an array", "delete expects a map",
   "first expects a map", "last expects a map", "next expects a map", "prior expects a map", "extend expects an array",
   "array_trim expects an array", "Invalid argument count", "Column access failed"}

(* A program the checker accepts never stops for want of a value on the    *)
(* stack, and meets a value of a kind its operation cannot take only where *)
(* null is among the operands: the checker lets null, of unknown type,     *)
(* stand for a value of any type.                                          *)
NullOperand == \E i \in 0..2 : i < Len(stack) /\ Kind(Top(i)) = "null"

NeverGoesWrong ==
  [][/\ phase' # "aborted"
     /\ (raised' \ raised) \cap KindErrors # {} => NullOperand]_vars

(* Every program here counts its loops up to a bound, so it ends: no       *)
(* continue, handler or return leads back to where it has been.            *)
EveryProgramEnds == phase = "running" ~> Ended
=============================================================================
