---------------------------- MODULE LangMachine -----------------------------
(***************************************************************************)
(* From the text of a program to its run: the parser, the checker and the  *)
(* code generator each take one step, then the interpreter loop executes   *)
(* one instruction a step.  The stack holds values; frame_base counts the  *)
(* values below the running frame's first local.  A frame remembers where  *)
(* to return, the caller's base and which variables of the caller receive  *)
(* OUT parameters; a try frame what vm_catch restores.  result and         *)
(* current_row are the one query result and row the machine has; a cursor  *)
(* keeps its own.  heights and raised are history: the stack heights at    *)
(* which each instruction was reached and the errors thrown.               *)
(***************************************************************************)
EXTENDS LangCode, LangMeaning

(* What the passes before the machine make of the text of a program.       *)
Translated(p) ==
  LET parsed == parse_with_path_from_line(Written(p))
      accepted == parsed.ok /\ typecheck_program(parsed.x)
  IN  [parsed |-> parsed, accepted |-> accepted,
       compiled |-> IF accepted THEN do_compile_source(parsed.x) ELSE [ok |-> FALSE, c |-> <<>>]]

CONSTANTS Programs,  \* the programs whose texts are run
          FrontEnd   \* for each program, what the passes make of its text

ASSUME FrontEndTranslates == \A p \in Programs : FrontEnd[p] = Translated(p)

VARIABLES written, tree, phase, chunk, pc, stack, frame_base, frames, tries, objects,
          result, current_row, sql_params, out, heights, raised

front == <<written, tree, chunk>>
sql == <<result, current_row, sql_params>>
flow == <<frame_base, frames, tries>>
vars == <<front, phase, pc, stack, flow, objects, sql, out, heights, raised>>

NoResult == [cols |-> <<>>, rows |-> <<>>]
NoRow == [cols |-> <<>>, values |-> <<>>]
Garbage == <<"garbage">>

Init ==
  /\ written \in Programs
  /\ tree = [structs |-> <<>>, procs |-> <<>>] /\ phase = "text" /\ chunk = <<>> /\ pc = 1
  /\ stack = <<>> /\ frame_base = 0 /\ frames = <<>> /\ tries = <<>> /\ objects = <<>>
  /\ result = NoResult /\ current_row = NoRow /\ sql_params = <<>>
  /\ out = <<>> /\ heights = {} /\ raised = {}

Parse ==
  /\ phase = "text"
  /\ IF FrontEnd[written].parsed.ok THEN tree' = FrontEnd[written].parsed.x /\ phase' = "parsed"
     ELSE phase' = "syntax_error" /\ UNCHANGED tree
  /\ UNCHANGED <<written, chunk, pc, stack, flow, objects, sql, out, heights, raised>>

Check ==
  /\ phase = "parsed"
  /\ phase' = IF FrontEnd[written].accepted THEN "checked" ELSE "type_error"
  /\ UNCHANGED <<front, pc, stack, flow, objects, sql, out, heights, raised>>

Compile ==
  /\ phase = "checked"
  /\ chunk' = FrontEnd[written].compiled.c
  /\ phase' = IF FrontEnd[written].compiled.ok THEN "running" ELSE "compile_error"
  /\ UNCHANGED <<written, tree, pc, stack, flow, objects, sql, out, heights, raised>>

---------------------------------------------------------------------------
Top(n) == stack[Len(stack) - n]
Drop(n) == SubSeq(stack, 1, Len(stack) - n)
Arg(i) == chunk[pc][i + 1]
Op(op) == phase = "running" /\ chunk[pc][1] = op
Depth == Len(stack) - frame_base

(* The instruction is done; control goes to pc + 1 + distance.             *)
Jump(distance, newStack) ==
  /\ pc' = pc + 1 + distance /\ stack' = newStack
  /\ UNCHANGED <<phase, flow, out, raised>>

Continue(newStack) == Jump(0, newStack)

(* A bare `return INTERPRET_RUNTIME_ERROR`: no handler is asked.           *)
Abort == phase' = "aborted" /\ UNCHANGED <<pc, stack, flow, out, raised>>

MutVmCatch(msg) ==
  LET tf == Last(tries)
  IN  /\ stack' = Append(SubSeq(stack, 1, tf.base + tf.local_count - 1), value_string(<<msg>>))
      /\ frames' = SubSeq(frames, 1, tf.frame_count)
      /\ frame_base' = tf.base /\ pc' = tf.catch_pc
      /\ UNCHANGED <<phase, out, tries>>

(* vm_catch: cut the stack to the locals below the catch variable, put the *)
(* message in its place, go back to the handler's frame.                   *)
vm_catch(msg) ==
  LET tf == Last(tries)
      keep == tf.base + tf.local_count - 1
  IN  /\ stack' = [i \in 1..(keep + 1) |-> IF i = keep + 1 THEN value_string(<<msg>>)
                                           ELSE IF i <= Len(stack) THEN stack[i] ELSE Garbage]
      /\ frames' = SubSeq(frames, 1, tf.frame_count)
      /\ frame_base' = tf.base /\ pc' = tf.catch_pc /\ tries' = Front(tries)
      /\ UNCHANGED <<phase, out>>

Throw(msg) ==
  /\ raised' = raised \cup {msg}
  /\ IF tries # <<>> THEN vm_catch(msg)
     ELSE phase' = "error" /\ out' = Append(out, <<"error", msg>>) /\ UNCHANGED <<pc, stack, flow>>

(* With n values to pop, or the bare return.                               *)
Popping(n, A) == IF Len(stack) < n THEN Abort ELSE A

Const == Op("CONST") /\ Continue(Append(stack, Arg(1))) /\ UNCHANGED <<objects, sql>>

GetLocal ==
  /\ Op("GET_LOCAL")
  /\ IF Arg(1) >= Depth THEN Abort ELSE Continue(Append(stack, stack[frame_base + Arg(1) + 1]))
  /\ UNCHANGED <<objects, sql>>

SetLocal ==
  /\ Op("SET_LOCAL")
  /\ IF Arg(1) >= Depth THEN Abort ELSE Continue([stack EXCEPT ![frame_base + Arg(1) + 1] = Top(0)])
  /\ UNCHANGED <<objects, sql>>

Calculate(op, a, b) ==
  CASE op = "ADD" -> value_add(a, b) [] op = "SUB" -> value_sub(a, b)
    [] op = "MUL" -> value_mul(a, b) [] op = "DIV" -> value_div(a, b)
    [] op = "EQ" -> value_eq(a, b) [] op = "LT" -> value_lt(a, b) [] op = "GT" -> value_gt(a, b)

BinaryOpcode ==
  /\ phase = "running" /\ chunk[pc][1] \in {"ADD", "SUB", "MUL", "DIV", "EQ", "LT", "GT"}
  /\ Popping(2, Continue(Append(Drop(2), Calculate(chunk[pc][1], Top(1), Top(0)))))
  /\ UNCHANGED <<objects, sql>>

Negate ==
  /\ Op("NEGATE")
  /\ Popping(1, IF Kind(Top(0)) \in {"int", "float", "null"}
                THEN Continue(Append(Drop(1), negated(Top(0))))
                ELSE Throw("Cannot negate non-numeric value"))
  /\ UNCHANGED <<objects, sql>>

Not ==
  /\ Op("NOT")
  /\ Popping(1, Continue(Append(Drop(1), value_bool(~value_is_truthy(Top(0))))))
  /\ UNCHANGED <<objects, sql>>

Dup == Op("DUP") /\ Popping(1, Continue(Append(stack, Top(0)))) /\ UNCHANGED <<objects, sql>>

Pop == Op("POP") /\ Popping(1, Continue(Drop(1))) /\ UNCHANGED <<objects, sql>>

Jz ==
  /\ Op("JZ")
  /\ Popping(1, Jump(IF value_is_truthy(Top(0)) THEN 0 ELSE Arg(1), Drop(1)))
  /\ UNCHANGED <<objects, sql>>

Jmp == Op("JMP") /\ Jump(Arg(1), stack) /\ UNCHANGED <<objects, sql>>

Call ==
  /\ phase = "running" /\ chunk[pc][1] \in {"CALL", "CALL_OUT"}
  /\ IF Arg(2) > Depth THEN Throw("Invalid argument count")
     ELSE /\ frames' = Append(frames, [ret |-> pc + 1, base |-> frame_base, outs |-> Arg(3)])
          /\ frame_base' = Len(stack) - Arg(2) /\ pc' = Arg(1)
          /\ UNCHANGED <<phase, stack, tries, out, raised>>
  /\ UNCHANGED <<objects, sql>>

(* The callee's values go, its result and its OUT values stay.  Without a  *)
(* value of its own the callee hands over whatever lies below.             *)
Return ==
  /\ Op("RETURN")
  /\ IF frames = <<>> THEN phase' = "done" /\ UNCHANGED <<pc, stack, flow, out, raised>>
     ELSE LET f == Last(frames)
              returned == IF stack = <<>> THEN Garbage ELSE Top(0)
              write(s, o) == [s EXCEPT ![f.base + o[2] + 1] = stack[frame_base + o[1] + 1]]
          IN  IF \E i \in DOMAIN f.outs : f.outs[i][1] >= Depth THEN Throw("Invalid OUT parameter position")
              ELSE IF \E i \in DOMAIN f.outs : f.outs[i][2] >= frame_base - f.base THEN Throw("Invalid OUT parameter slot")
              ELSE /\ stack' = Append(FoldLeft(write, SubSeq(stack, 1, frame_base), f.outs), returned)
                   /\ frames' = Front(frames) /\ frame_base' = f.base /\ pc' = f.ret
                   /\ UNCHANGED <<phase, tries, out, raised>>
  /\ UNCHANGED <<objects, sql>>

NativeCall ==
  /\ Op("NATIVE_CALL")
  /\ LET done == native_call(Arg(1), SubSeq(stack, Len(stack) - Arg(2) + 1, Len(stack)), objects)
     IN  IF Arg(2) > Depth THEN Throw("Invalid argument count") /\ UNCHANGED objects
         ELSE /\ IF done.error = "" THEN Continue(Append(Drop(Arg(2)), done.value)) ELSE Throw(done.error)
              /\ objects' = done.heap
  /\ UNCHANGED sql

PrintOp ==
  /\ Op("PRINT")
  /\ Popping(1, /\ out' = Append(out, value_print(Top(0), objects))
                /\ pc' = pc + 1 /\ stack' = Drop(1) /\ UNCHANGED <<phase, flow, raised>>)
  /\ UNCHANGED <<objects, sql>>

(* A new object, the values it takes from the stack replaced by it.        *)
Build(kind, n, o) ==
  /\ objects' = Append(objects, o)
  /\ Continue(Append(Drop(n), <<kind, Len(objects) + 1>>))

ArrayBuild ==
  /\ Op("ARRAY_BUILD")
  /\ IF Arg(1) > Depth THEN Throw("Not enough values for array") /\ UNCHANGED objects
     ELSE Build("array", Arg(1), array_of(SubSeq(stack, Len(stack) - Arg(1) + 1, Len(stack))))
  /\ UNCHANGED sql

(* Pairs are popped, so the last one goes in first.                        *)
MapBuild ==
  /\ Op("MAP_BUILD")
  /\ LET n == Arg(1)
         add(m, i) == map_set(m, Top(2 * (i - 1)), Top(2 * i - 1))
     IN  IF 2 * n > Depth THEN Throw("Not enough values for map") /\ UNCHANGED objects
         ELSE IF \E i \in 1..n : Kind(Top(2 * (i - 1))) \notin {"int", "string"}
         THEN Throw("Map key must be int or string") /\ UNCHANGED objects
         ELSE Build("map", 2 * n, FoldLeft(add, map_new, [i \in 1..n |-> i]))
  /\ UNCHANGED sql

StructBuild ==
  /\ Op("STRUCT_BUILD")
  /\ LET n == Len(Arg(1))
     IN  IF Len(stack) < n THEN Abort /\ UNCHANGED objects
         ELSE Build("row", n, row_obj_of(Arg(1), SubSeq(stack, Len(stack) - n + 1, Len(stack))))
  /\ UNCHANGED sql

IndexGet ==
  /\ Op("INDEX_GET")
  /\ Popping(2, LET got == index_get(Top(1), Top(0), objects)
                IN  IF got.error = "" THEN Continue(Append(Drop(2), got.value)) ELSE Throw(got.error))
  /\ UNCHANGED <<objects, sql>>

IndexSet ==
  /\ Op("INDEX_SET")
  /\ IF Len(stack) < 3 THEN Abort /\ UNCHANGED objects
     ELSE LET set == index_set(Top(2), Top(1), Top(0), objects)
          IN  /\ IF set.error = "" THEN Continue(Drop(3)) ELSE Throw(set.error)
              /\ objects' = set.heap
  /\ UNCHANGED sql

RowGet ==
  /\ Op("ROW_GET")
  /\ Popping(1, IF Kind(Top(0)) = "row" THEN Continue(Append(Drop(1), row_obj_get_field(objects[Top(0)[2]], Arg(1))))
                ELSE Throw("Cannot access field on non-row value"))
  /\ UNCHANGED <<objects, sql>>

Raise == Op("RAISE") /\ Throw(Arg(1)[1]) /\ UNCHANGED <<objects, sql>>

(* A placeholder takes the catch variable's slot until the block ends.     *)
Try ==
  /\ Op("TRY")
  /\ tries' = Append(tries, [catch_pc |-> pc + 1 + Arg(1), frame_count |-> Len(frames), base |-> frame_base,
                             local_count |-> Arg(2)])
  /\ pc' = pc + 1 /\ stack' = Append(stack, value_int(0))
  /\ UNCHANGED <<phase, frame_base, frames, out, raised, objects, sql>>

EndTry ==
  /\ Op("END_TRY")
  /\ IF tries = <<>> THEN Throw("END_TRY without try")
     ELSE /\ tries' = Front(tries) /\ stack' = Drop(1) /\ pc' = pc + 1 + Arg(1)
          /\ UNCHANGED <<phase, frame_base, frames, out, raised>>
  /\ UNCHANGED <<objects, sql>>

---------------------------------------------------------------------------
(* Queries: one result at a time for loops and SELECT INTO, one per cursor. *)
SqlBind ==
  /\ Op("SQL_BIND")
  /\ IF stack = <<>> THEN Abort /\ UNCHANGED sql_params ELSE sql_params' = Append(sql_params, Top(0)) /\ Continue(Drop(1))
  /\ UNCHANGED <<objects, result, current_row>>

Sql ==
  /\ Op("SQL")
  /\ result' = [cols |-> Arg(1).cols, rows |-> driver_query(Arg(1), sql_params)]
  /\ sql_params' = <<>> /\ current_row' = NoRow
  /\ Continue(stack) /\ UNCHANGED objects

SqlNext ==
  /\ Op("SQL_NEXT")
  /\ IF result.rows = <<>> THEN Jump(Arg(1), stack) /\ current_row' = NoRow /\ UNCHANGED result
     ELSE /\ current_row' = [cols |-> result.cols, values |-> Head(result.rows)]
          /\ result' = [result EXCEPT !.rows = Tail(@)]
          /\ Continue(stack)
  /\ UNCHANGED <<objects, sql_params>>

(* The engine answers 0 for a column the row lacks, or for no row.         *)
row_get_field(name) ==
  LET i == SelectInSeq(current_row.cols, LAMBDA c : c[1] = name)
  IN  IF i = 0 THEN value_int(0) ELSE current_row.values[i]

GetField ==
  /\ Op("GET_FIELD")
  /\ Continue(Append(stack, row_get_field(Arg(1))))
  /\ UNCHANGED <<objects, sql>>

SqlGetColumn ==
  /\ Op("SQL_GET_COLUMN")
  /\ IF Arg(1) > Len(current_row.values) THEN Throw("Column access failed") ELSE Continue(Append(stack, current_row.values[Arg(1)]))
  /\ UNCHANGED <<objects, sql>>

CursorOpen ==
  /\ Op("CURSOR_OPEN")
  /\ IF Kind(Top(0)) # "cursor" THEN Throw("OPEN requires a cursor variable") /\ UNCHANGED <<objects, sql_params>>
     ELSE /\ sql_params' = <<>>
          /\ Build("cursor", 1, cursor_of(driver_query(Arg(1), sql_params)))
  /\ UNCHANGED <<result, current_row>>

CursorFetch ==
  /\ Op("CURSOR_FETCH")
  /\ LET c == objects[Top(0)[2]]
         fetched == Head(c.rows)
         store(s, i) == [s EXCEPT ![frame_base + Arg(1)[i] + 1] = fetched[i]]
     IN  CASE Kind(Top(0)) # "cursor" \/ Top(0)[2] = 0 -> Throw("FETCH requires a cursor variable") /\ UNCHANGED objects
           [] ~c.open -> Throw("FETCH on closed cursor") /\ UNCHANGED objects
           [] c.rows = <<>> -> Continue(Drop(1)) /\ objects' = [objects EXCEPT ![Top(0)[2]].found = FALSE]
           [] OTHER ->
                /\ objects' = [objects EXCEPT ![Top(0)[2]] = [@ EXCEPT !.rows = Tail(@), !.found = TRUE, !.count = @ + 1]]
                /\ IF Len(Arg(1)) > Len(fetched) THEN Throw("Column access failed")
                   ELSE Continue(FoldLeft(store, Drop(1), [i \in DOMAIN Arg(1) |-> i]))
  /\ UNCHANGED sql

CursorClose ==
  /\ Op("CURSOR_CLOSE")
  /\ IF Kind(Top(0)) # "cursor" \/ Top(0)[2] = 0 THEN Throw("CLOSE requires a cursor variable") /\ UNCHANGED objects
     ELSE /\ objects' = [objects EXCEPT ![Top(0)[2]] = [@ EXCEPT !.open = FALSE, !.found = FALSE, !.rows = <<>>]]
          /\ Continue(Drop(1))
  /\ UNCHANGED sql

CursorAttr ==
  /\ Op("CURSOR_ATTR")
  /\ Popping(1, IF Kind(Top(0)) # "cursor" THEN Throw("Cursor attribute requires a cursor variable")
                ELSE Continue(Append(Drop(1), cursor_attribute(Top(0), Arg(1), objects))))
  /\ UNCHANGED <<objects, sql>>

vm_run ==
  /\ phase = "running"
  /\ heights' = heights \cup {<<pc, Depth>>}
  /\ UNCHANGED front
  /\ \/ Const \/ GetLocal \/ SetLocal \/ BinaryOpcode \/ Negate \/ Not \/ Dup \/ Pop
     \/ Jz \/ Jmp \/ Call \/ Return \/ NativeCall \/ PrintOp
     \/ ArrayBuild \/ MapBuild \/ StructBuild \/ IndexGet \/ IndexSet \/ RowGet
     \/ Raise \/ Try \/ EndTry
     \/ SqlBind \/ Sql \/ SqlNext \/ GetField \/ SqlGetColumn
     \/ CursorOpen \/ CursorFetch \/ CursorClose \/ CursorAttr

Ended == phase \in {"syntax_error", "type_error", "compile_error", "aborted", "error", "done"}

(* Nothing is left to do: the process has exited.                          *)
Exited == Ended /\ UNCHANGED vars

Next == Parse \/ Check \/ Compile \/ vm_run \/ Exited

(* One thread, and nothing in the loop waits: the next instruction is run. *)
Spec == Init /\ [][Next]_vars /\ WF_vars(vm_run)
=============================================================================
