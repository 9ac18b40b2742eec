----------------------------- MODULE LangValues -----------------------------
(***************************************************************************)
(* Values and the operations on them.  A value is a tuple: its kind and    *)
(* what it holds.  A string is a sequence of symbols, a float a pair of    *)
(* numerator and positive denominator, a container the number of its       *)
(* object in the heap.  An object is an array [items], a map [keys, values]*)
(* in insertion order, a row [names, values] or a cursor.                  *)
(***************************************************************************)
EXTENDS Integers, Sequences, SequencesExt

CONSTANT Letters  \* the symbols strcmp orders, in order

value_int(n) == <<"int", n>>
value_float(n, d) == <<"float", <<n, d>> >>
value_string(s) == <<"string", s>>
value_bool(b) == <<"bool", IF b THEN 1 ELSE 0>>
value_null == <<"null">>

Kind(v) == v[1]
Both(a, b, kind) == Kind(a) = kind /\ Kind(b) = kind

either_float(a, b) == "float" \in {Kind(a), Kind(b)}

as_number(v) == CASE Kind(v) = "float" -> v[2]
                  [] Kind(v) = "int" -> <<v[2], 1>>
                  [] OTHER -> <<0, 1>>

(* C's division: towards zero.                                             *)
Quotient(a, b) == LET abs(n) == IF n < 0 THEN -n ELSE n
                      q == abs(a) \div abs(b)
                  IN  IF (a < 0) = (b < 0) THEN q ELSE -q

value_add(a, b) ==
  LET x == as_number(a)
      y == as_number(b)
  IN  CASE "null" \in {Kind(a), Kind(b)} -> value_null
        [] Both(a, b, "string") -> value_string(a[2] \o b[2])
        [] either_float(a, b) -> value_float(x[1] * y[2] + y[1] * x[2], x[2] * y[2])
        [] Both(a, b, "int") -> value_int(a[2] + b[2])
        [] OTHER -> value_int(0)

value_sub(a, b) ==
  LET x == as_number(a)
      y == as_number(b)
  IN  CASE "null" \in {Kind(a), Kind(b)} -> value_null
        [] either_float(a, b) -> value_float(x[1] * y[2] - y[1] * x[2], x[2] * y[2])
        [] Both(a, b, "int") -> value_int(a[2] - b[2])
        [] OTHER -> value_int(0)

value_mul(a, b) ==
  LET x == as_number(a)
      y == as_number(b)
  IN  CASE "null" \in {Kind(a), Kind(b)} -> value_null
        [] either_float(a, b) -> value_float(x[1] * y[1], x[2] * y[2])
        [] Both(a, b, "int") -> value_int(a[2] * b[2])
        [] OTHER -> value_int(0)

value_div(a, b) ==
  LET x == as_number(a)
      y == as_number(b)
      sign == IF y[1] < 0 THEN -1 ELSE 1
  IN  CASE "null" \in {Kind(a), Kind(b)} -> value_null
        [] either_float(a, b) /\ y[1] = 0 -> value_int(0)
        [] either_float(a, b) -> value_float(sign * x[1] * y[2], sign * x[2] * y[1])
        [] Both(a, b, "int") /\ b[2] # 0 -> value_int(Quotient(a[2], b[2]))
        [] OTHER -> value_int(0)

(* strcmp: the first difference decides, a prefix comes first.             *)
StrLess(s, t) ==
  LET n == IF Len(s) < Len(t) THEN Len(s) ELSE Len(t)
      diff == SelectInSeq([i \in 1..n |-> i], LAMBDA i : s[i] # t[i])
      rank(c) == SelectInSeq(Letters, LAMBDA l : l = c)
  IN  IF diff = 0 THEN Len(s) < Len(t) ELSE rank(s[diff]) < rank(t[diff])

value_eq(a, b) ==
  LET x == as_number(a)
      y == as_number(b)
      flag(p) == value_int(IF p THEN 1 ELSE 0)
  IN  CASE "null" \in {Kind(a), Kind(b)} -> value_null
        [] Both(a, b, "bool") \/ Both(a, b, "string") -> flag(a[2] = b[2])
        [] "bool" \in {Kind(a), Kind(b)} -> value_int(0)
        [] either_float(a, b) \/ Both(a, b, "int") -> flag(x[1] * y[2] = y[1] * x[2])
        [] OTHER -> value_int(0)

value_lt(a, b) ==
  LET x == as_number(a)
      y == as_number(b)
      flag(p) == value_int(IF p THEN 1 ELSE 0)
  IN  CASE "null" \in {Kind(a), Kind(b)} -> value_null
        [] Both(a, b, "string") -> flag(StrLess(a[2], b[2]))
        [] Both(a, b, "bool") -> flag(a[2] < b[2])
        [] "bool" \in {Kind(a), Kind(b)} -> value_int(0)
        [] either_float(a, b) \/ Both(a, b, "int") -> flag(x[1] * y[2] < y[1] * x[2])
        [] OTHER -> value_int(0)

value_gt(a, b) == value_lt(b, a)

value_is_truthy(v) ==
  CASE Kind(v) = "null" -> FALSE
    [] Kind(v) \in {"int", "bool"} -> v[2] # 0
    [] Kind(v) = "float" -> v[2][1] # 0
    [] OTHER -> TRUE

(* Objects and what the opcodes and the natives do to them.                *)
array_of(items) == [kind |-> "array", items |-> items]

array_set(array, index, v) == [array EXCEPT !.items[index + 1] = v]
array_append(array, v) == [array EXCEPT !.items = Append(@, v)]
array_extend(array, n) == [array EXCEPT !.items = @ \o [i \in 1..n |-> value_int(0)]]

array_trim(array, n) ==
  LET count == Len(array.items)
  IN  IF n < 0 THEN array
      ELSE [array EXCEPT !.items = SubSeq(@, 1, count - (IF n > count THEN count ELSE n))]

map_new == [kind |-> "map", keys |-> <<>>, values |-> <<>>]

values_equal_values(a, b) == Kind(a) = Kind(b) /\ a = b

map_find_key(map, key) == SelectInSeq(map.keys, LAMBDA k : values_equal_values(k, key))

map_set(map, key, v) ==
  LET i == map_find_key(map, key)
  IN  IF i > 0 THEN [map EXCEPT !.values[i] = v]
      ELSE [map EXCEPT !.keys = Append(@, key), !.values = Append(@, v)]

map_delete(map, key) ==
  LET i == map_find_key(map, key)
  IN  IF i = 0 THEN map
      ELSE [map EXCEPT !.keys = RemoveAt(@, i), !.values = RemoveAt(@, i)]

(* map_key_compare(a, b) < 0: keys of two kinds are neither way apart.     *)
KeyLess(a, b) ==
  \/ Both(a, b, "int") /\ a[2] < b[2]
  \/ Both(a, b, "string") /\ StrLess(a[2], b[2])

(* The scans keep the first of equals.                                     *)
map_first_key(map) == FoldLeft(LAMBDA m, k : IF KeyLess(k, m) THEN k ELSE m, map.keys[1], map.keys)
map_last_key(map) == FoldLeft(LAMBDA m, k : IF KeyLess(m, k) THEN k ELSE m, map.keys[1], map.keys)

map_next_key(map, key) ==
  LET above == SelectSeq(map.keys, LAMBDA k : KeyLess(key, k))
  IN  IF above = <<>> THEN value_int(0) ELSE map_first_key([keys |-> above])

map_prior_key(map, key) ==
  LET below == SelectSeq(map.keys, LAMBDA k : KeyLess(k, key))
  IN  IF below = <<>> THEN value_int(0) ELSE map_last_key([keys |-> below])

row_obj_of(names, values) == [kind |-> "row", names |-> names, values |-> values]

row_obj_get_field(row, name) ==
  LET i == SelectInSeq(row.names, LAMBDA n : n = name)
  IN  IF i = 0 THEN value_int(0) ELSE row.values[i]

row_obj_set_field(row, name, v) ==
  LET i == SelectInSeq(row.names, LAMBDA n : n = name)
  IN  IF i > 0 THEN [row EXCEPT !.values[i] = v]
      ELSE [row EXCEPT !.names = Append(@, name), !.values = Append(@, v)]

(* What an operation answers: a value and the heap after it, or an error.  *)
Ok(v, heap) == [error |-> "", value |-> v, heap |-> heap]
Fail(msg, heap) == [error |-> msg, value |-> value_null, heap |-> heap]

negated(v) == CASE Kind(v) = "int" -> value_int(-v[2])
                [] Kind(v) = "float" -> value_float(-v[2][1], v[2][2])
                [] OTHER -> v

IsKey(v) == Kind(v) \in {"int", "string"}

index_get(base, index, heap) ==
  LET o == heap[base[2]]
      i == map_find_key(o, index)
  IN  CASE Kind(base) = "array" /\ Kind(index) = "int" ->
             IF index[2] \in 0..(Len(o.items) - 1) THEN Ok(o.items[index[2] + 1], heap)
             ELSE Fail("Array index out of bounds", heap)
        [] Kind(base) = "row" /\ Kind(index) = "string" -> Ok(row_obj_get_field(o, index[2][1]), heap)
        [] Kind(base) = "map" /\ ~IsKey(index) -> Fail("Map key must be int or string", heap)
        [] Kind(base) = "map" -> IF i = 0 THEN Fail("Key not found in map", heap) ELSE Ok(o.values[i], heap)
        [] OTHER -> Fail("Invalid index", heap)

index_set(base, index, v, heap) ==
  LET o == heap[base[2]]
      put(x) == Ok(v, [heap EXCEPT ![base[2]] = x])
  IN  CASE Kind(base) = "array" /\ Kind(index) = "int" ->
             IF index[2] \in 0..(Len(o.items) - 1) THEN put(array_set(o, index[2], v))
             ELSE Fail("Array index out of bounds", heap)
        [] Kind(base) = "row" /\ Kind(index) = "string" -> put(row_obj_set_field(o, index[2][1], v))
        [] Kind(base) = "map" /\ ~IsKey(index) -> Fail("Map key must be int or string", heap)
        [] Kind(base) = "map" -> put(map_set(o, index, v))
        [] OTHER -> Fail("Invalid index assignment", heap)

native_length(args, heap) ==
  CASE Kind(args[1]) = "array" -> Ok(value_int(Len(heap[args[1][2]].items)), heap)
    [] Kind(args[1]) = "string" -> Ok(value_int(Len(args[1][2])), heap)
    [] Kind(args[1]) = "map" -> Ok(value_int(Len(heap[args[1][2]].keys)), heap)
    [] OTHER -> Fail("length expects a string, array, or map", heap)

native_append(args, heap) ==
  IF Kind(args[1]) # "array" THEN Fail("append expects an array", heap)
  ELSE Ok(args[1], [heap EXCEPT ![args[1][2]] = array_append(@, args[2])])

native_delete(args, heap) ==
  CASE Kind(args[1]) # "map" -> Fail("delete expects a map", heap)
    [] ~IsKey(args[2]) -> Fail("delete expects an int or string key", heap)
    [] OTHER -> Ok(args[1], [heap EXCEPT ![args[1][2]] = map_delete(@, args[2])])

native_first(args, heap) ==
  CASE Kind(args[1]) # "map" -> Fail("first expects a map", heap)
    [] heap[args[1][2]].keys = <<>> -> Ok(value_int(0), heap)
    [] OTHER -> Ok(map_first_key(heap[args[1][2]]), heap)

native_last(args, heap) ==
  CASE Kind(args[1]) # "map" -> Fail("last expects a map", heap)
    [] heap[args[1][2]].keys = <<>> -> Ok(value_int(0), heap)
    [] OTHER -> Ok(map_last_key(heap[args[1][2]]), heap)

native_next(args, heap) ==
  CASE Kind(args[1]) # "map" -> Fail("next expects a map", heap)
    [] ~IsKey(args[2]) -> Fail("next expects an int or string key", heap)
    [] OTHER -> Ok(map_next_key(heap[args[1][2]], args[2]), heap)

native_prior(args, heap) ==
  CASE Kind(args[1]) # "map" -> Fail("prior expects a map", heap)
    [] ~IsKey(args[2]) -> Fail("prior expects an int or string key", heap)
    [] OTHER -> Ok(map_prior_key(heap[args[1][2]], args[2]), heap)

native_extend(args, heap) ==
  CASE Kind(args[1]) # "array" -> Fail("extend expects an array", heap)
    [] Kind(args[2]) # "int" -> Fail("extend expects an int count", heap)
    [] args[2][2] < 0 -> Fail("Out of memory", heap)
    [] OTHER -> Ok(args[1], [heap EXCEPT ![args[1][2]] = array_extend(@, args[2][2])])

native_array_trim(args, heap) ==
  CASE Kind(args[1]) # "array" -> Fail("array_trim expects an array", heap)
    [] Kind(args[2]) # "int" -> Fail("array_trim expects an int count", heap)
    [] OTHER -> Ok(args[1], [heap EXCEPT ![args[1][2]] = array_trim(@, args[2][2])])

native_call(name, args, heap) ==
  CASE name = "length" -> native_length(args, heap) [] name = "append" -> native_append(args, heap)
    [] name = "delete" -> native_delete(args, heap) [] name = "first" -> native_first(args, heap)
    [] name = "last" -> native_last(args, heap) [] name = "next" -> native_next(args, heap)
    [] name = "prior" -> native_prior(args, heap) [] name = "extend" -> native_extend(args, heap)
    [] name = "array_trim" -> native_array_trim(args, heap)

(* The engine's answer: the rows whose first column exceeds every          *)
(* parameter, in table order.                                              *)
driver_query(query, args) ==
  SelectSeq(query.rows, LAMBDA r : \A i \in DOMAIN args : value_is_truthy(value_gt(r[1], args[i])))

cursor_of(rows) == [kind |-> "cursor", open |-> TRUE, found |-> FALSE, count |-> 0, rows |-> rows]

(* 0 is the cursor that was never opened.                                  *)
cursor_attribute(v, attr, heap) ==
  LET c == IF v[2] = 0 THEN [open |-> FALSE, found |-> FALSE, count |-> 0] ELSE heap[v[2]]
  IN  CASE attr = "found" -> value_bool(c.found)
        [] attr = "notfound" -> value_bool(~c.found)
        [] attr = "isopen" -> value_bool(c.open)
        [] attr = "rowcount" -> value_int(c.count)

(* What a print shows of a value: containers by their contents.            *)
RECURSIVE value_print(_, _)
value_print(v, heap) ==
  LET shown(vs) == [i \in DOMAIN vs |-> value_print(vs[i], heap)]
      o == heap[v[2]]
  IN  CASE Kind(v) = "array" -> <<"array", shown(o.items)>>
        [] Kind(v) = "map" -> <<"map", shown(o.keys), shown(o.values)>>
        [] Kind(v) = "row" -> <<"row", o.names, shown(o.values)>>
        [] OTHER -> v
=============================================================================
