----------------------------- MODULE ValueHeap ------------------------------
(***************************************************************************)
(* Memory of the containers at run time: reference counts, the registry of *)
(* live containers and the cycle collector.  A value is 0, a scalar, or    *)
(* the address of a container: an array, a map or a row (a struct), whose  *)
(* slots hold values; a map's or a row's slots have keys.  Counts go up    *)
(* and down as the interpreter's instructions move values between stack    *)
(* and containers, for any sequence of instructions.  Indexes, keys and    *)
(* field names carry no reference and are parameters of the instructions.  *)
(* saved holds what SET_LOCAL in the outermost frame copies to             *)
(* repl_locals.  The heap is a record: the live objects by address, the    *)
(* registry and the allocations since the last collection.                 *)
(***************************************************************************)
EXTENDS Integers, Sequences, FiniteSetsExt, SequencesExt

CONSTANTS
  Addresses,     \* where malloc may put a container
  Keys,          \* map keys and field names
  MaxStack,      \* bound on the stack
  MaxSlots,      \* bound on the slots of a container
  MaxCount,      \* bound on the counts of what a struct is built from
  SavedSlots,    \* how many locals of the outermost frame are copied
  GcMinInterval, \* allocations before the first collection
  MapIndexing    \* whether a program reads containers out of maps

ASSUME HeapBounds ==
  /\ Addresses \subseteq Nat \ {0} /\ IsFiniteSet(Addresses)
  /\ {MaxStack, MaxSlots, MaxCount, SavedSlots, GcMinInterval} \subseteq Nat
  /\ MapIndexing \in BOOLEAN

VARIABLES stack, saved, heap, next, phase

vars == <<stack, saved, heap, next, phase>>

Scalar == 0
Values == Addresses \cup {Scalar}

Init ==
  /\ stack = <<>> /\ saved = [i \in 1..SavedSlots |-> Scalar]
  /\ heap = [obj |-> <<>>, registry |-> <<>>, allocations |-> 0]
  /\ next = GcMinInterval /\ phase = "running"

---------------------------------------------------------------------------
(* Counting.                                                               *)
value_retain(h, v) == IF v = Scalar THEN h ELSE [h EXCEPT !.obj[v].count = @ + 1]

RetainAll(h, vs) ==
  [h EXCEPT !.obj = [o \in DOMAIN h.obj |->
     [h.obj[o] EXCEPT !.count = h.obj[o].count + Cardinality({i \in DOMAIN vs : vs[i] = o})]]]

(* The object moves up from the registry's end.                            *)
gc_registry_remove(h, o) ==
  LET i == CHOOSE k \in DOMAIN h.registry : h.registry[k] = o
      n == Len(h.registry)
  IN  [h EXCEPT !.registry = [k \in 1..(n - 1) |-> IF k = i THEN @[n] ELSE @[k]]]

(* array_free, map_free, row_obj_free: out of the registry and, when its   *)
(* slots are released, out of memory; by then nothing refers to it.        *)
object_free(h, o) == [gc_registry_remove(h, o) EXCEPT !.obj = [x \in DOMAIN @ \ {o} |-> @[x]]]

(* The next of the references to release; the slots of an object that goes *)
(* come before those that wait.                                            *)
ReleaseNext(s) ==
  LET v    == Head(s.work)
      less == [s.heap EXCEPT !.obj[v].count = @ - 1]
  IN  CASE s.work = <<>> -> s
        [] s.work # <<>> /\ v = Scalar -> [s EXCEPT !.work = Tail(@)]
        [] s.work # <<>> /\ v # Scalar /\ less.obj[v].count > 0 -> [heap |-> less, work |-> Tail(s.work)]
        [] OTHER -> [heap |-> object_free(less, v), work |-> less.obj[v].slots \o Tail(s.work)]

(* As many turns as there are references at most.                          *)
ReleaseAll(h, vs) ==
  LET turns == Len(vs) + MaxSlots * Cardinality(Addresses)
      after[n \in 0..turns] == IF n = 0 THEN [heap |-> h, work |-> vs] ELSE ReleaseNext(after[n - 1])
  IN  after[turns].heap

value_release(h, v) == ReleaseAll(h, <<v>>)

(* A new container with one reference, its maker's.                        *)
Free(h) == Addresses \ DOMAIN h.obj
Fresh(h) == CHOOSE o \in Free(h) : \A p \in Free(h) : o <= p

object_new(h, type, keys, slots) ==
  LET o == Fresh(h)
      new == [type |-> type, keys |-> keys, slots |-> slots, count |-> 1]
  IN  [obj |-> [x \in DOMAIN h.obj \cup {o} |-> IF x = o THEN new ELSE h.obj[x]],
       registry |-> Append(h.registry, o), allocations |-> h.allocations + 1]

---------------------------------------------------------------------------
(* The containers' operations.                                             *)
array_append(h, a, v) == [value_retain(h, v) EXCEPT !.obj[a].slots = Append(@, v)]

array_set(h, a, i, v) ==
  [value_release(value_retain(h, v), h.obj[a].slots[i]) EXCEPT !.obj[a].slots[i] = v]

array_trim(h, a, n) ==
  LET slots == h.obj[a].slots
      kept == IF n > Len(slots) THEN 0 ELSE Len(slots) - n
  IN  [ReleaseAll(h, SubSeq(slots, kept + 1, Len(slots))) EXCEPT !.obj[a].slots = SubSeq(@, 1, kept)]

KeyAt(h, m, key) ==
  LET at == {i \in DOMAIN h.obj[m].keys : h.obj[m].keys[i] = key}
  IN  IF at = {} THEN 0 ELSE Min(at)

(* map_set and row_obj_set_field: what was there goes before the new value *)
(* is counted; the caller still holds one reference to it.                 *)
keyed_set(h, m, key, v) ==
  LET i == KeyAt(h, m, key)
  IN  IF i > 0
      THEN value_retain([value_release(h, h.obj[m].slots[i]) EXCEPT !.obj[m].slots[i] = v], v)
      ELSE [value_retain(h, v) EXCEPT !.obj[m].keys = Append(@, key), !.obj[m].slots = Append(@, v)]

map_delete(h, m, key) ==
  LET i == KeyAt(h, m, key)
  IN  IF i = 0 THEN h
      ELSE [value_release(h, h.obj[m].slots[i]) EXCEPT !.obj[m].keys = RemoveAt(@, i), !.obj[m].slots = RemoveAt(@, i)]

---------------------------------------------------------------------------
(* The collector.                                                          *)
Children(h, S) == UNION {ToSet(h.obj[o].slots) : o \in S} \ {Scalar}

(* What the roots lead to: the least set that is closed under slots.       *)
gc_mark_drain(h, roots) ==
  {o \in DOMAIN h.obj : \A S \in SUBSET DOMAIN h.obj :
                          roots \subseteq S /\ Children(h, S) \subseteq S => o \in S}

(* Pass 1 goes through the registry and clears each mark it comes by, so a *)
(* marked child that was registered before its unreachable owner is        *)
(* treated as unmarked.                                                    *)
Position(h, o) == CHOOSE k \in DOMAIN h.registry : h.registry[k] = o
gc_break_edge(h, marks, o, j) ==
  LET child == h.obj[o].slots[j]
  IN  o \notin marks /\ child # Scalar /\ (child \in marks => Position(h, child) < Position(h, o))

BrokenTo(h, marks, c) ==
  {e \in (DOMAIN h.obj) \X (1..MaxSlots) :
     e[2] \in DOMAIN h.obj[e[1]].slots /\ h.obj[e[1]].slots[e[2]] = c /\ gc_break_edge(h, marks, e[1], e[2])}

(* Those whose last reference was broken.                                  *)
Unowned(h, marks) ==
  {o \in DOMAIN h.obj : BrokenTo(h, marks, o) # {} /\ h.obj[o].count = Cardinality(BrokenTo(h, marks, o))}

Broken(h, marks) ==
  [h EXCEPT !.obj = [o \in DOMAIN h.obj |->
     LET b == h.obj[o]
     IN  [b EXCEPT !.count = b.count - Cardinality(BrokenTo(h, marks, o)),
                   !.slots = [j \in DOMAIN b.slots |->
                                IF gc_break_edge(h, marks, o, j) THEN Scalar ELSE b.slots[j]]]]]

Orders(S) == {w \in [1..Cardinality(S) -> S] : IsInjective(w)}

(* Pass 2 frees them, each once and in an order of which nothing is said;  *)
(* the list holds a reference to each.                                     *)
gc_sweep_unreachable(h, marks, work) == ReleaseAll(RetainAll(Broken(h, marks), work), work)

MutRoots == ToSet(stack) \ {Scalar}

Roots == (ToSet(stack) \cup ToSet(saved)) \ {Scalar}

(* Between two instructions, when enough has been allocated.               *)
vm_gc_collect ==
  /\ phase = "running" /\ heap.allocations >= next
  /\ LET marks == gc_mark_drain(heap, Roots)
     IN  \E work \in Orders(Unowned(heap, marks)) :
           LET swept == gc_sweep_unreachable(heap, marks, work)
               twice == 2 * Len(swept.registry)
           IN  /\ heap' = [swept EXCEPT !.allocations = 0]
               /\ next' = IF twice < GcMinInterval THEN GcMinInterval ELSE twice
  /\ UNCHANGED <<stack, saved, phase>>

(* At exit the roots are released, then everything left is swept.          *)
vm_free ==
  /\ phase = "running"
  /\ LET left == ReleaseAll(heap, stack \o saved)
     IN  \E work \in Orders(Unowned(left, {})) : heap' = gc_sweep_unreachable(left, {}, work)
  /\ stack' = <<>> /\ saved' = [i \in DOMAIN saved |-> Scalar]
  /\ phase' = "freed" /\ UNCHANGED next

---------------------------------------------------------------------------
(* Instructions, by what they do to references.                            *)
Dispatch == phase = "running" /\ heap.allocations < next /\ UNCHANGED <<next, phase>>
Top(n) == stack[Len(stack) - n]
Drop(n) == SubSeq(stack, 1, Len(stack) - n)
Is(v, type) == v # Scalar /\ heap.obj[v].type = type
CanAllocate == Free(heap) # {}

Const == Dispatch /\ Len(stack) < MaxStack /\ stack' = Append(stack, Scalar) /\ UNCHANGED <<heap, saved>>

GetLocal(i) ==
  /\ Dispatch /\ Len(stack) < MaxStack
  /\ heap' = value_retain(heap, stack[i]) /\ stack' = Append(stack, stack[i])
  /\ UNCHANGED saved

(* The top stays; in the outermost frame it is copied to saved as well.    *)
SetLocal(i, outermost) ==
  LET v == Top(0)
      stored == value_release(value_retain(heap, v), stack[i])
      copied == outermost /\ i \in DOMAIN saved
  IN  /\ Dispatch
      /\ stack' = [stack EXCEPT ![i] = v]
      /\ heap' = IF copied THEN value_retain(value_release(stored, saved[i]), v) ELSE stored
      /\ saved' = IF copied THEN [saved EXCEPT ![i] = v] ELSE saved

Pop == Dispatch /\ stack # <<>> /\ heap' = value_release(heap, Top(0)) /\ stack' = Drop(1) /\ UNCHANGED saved

MutReturn(frame) ==
  /\ Dispatch
  /\ heap' = ReleaseAll(heap, SubSeq(stack, frame, Len(stack)))
  /\ stack' = Append(SubSeq(stack, 1, frame - 1), Top(0))
  /\ UNCHANGED saved

(* RETURN: the result is counted, the frame's values are released.         *)
Return(frame) ==
  /\ Dispatch
  /\ heap' = ReleaseAll(value_retain(heap, Top(0)), SubSeq(stack, frame, Len(stack)))
  /\ stack' = Append(SubSeq(stack, 1, frame - 1), Top(0))
  /\ UNCHANGED saved

ArrayBuild(n) ==
  LET items == SubSeq(stack, Len(stack) - n + 1, Len(stack))
  IN  /\ Dispatch /\ n <= MaxSlots /\ CanAllocate /\ Len(stack) - n < MaxStack
      /\ heap' = ReleaseAll(RetainAll(object_new(heap, "array", <<>>, items), items), items)
      /\ stack' = Append(Drop(n), Fresh(heap))
      /\ UNCHANGED saved

(* The pair on top goes in first.                                          *)
MapBuild(keys) ==
  LET n == Len(keys)
      m == Fresh(heap)
      add(h, i) == value_release(keyed_set(h, m, keys[i], Top(n - i)), Top(n - i))
      built[k \in 0..n] == IF k = 0 THEN object_new(heap, "map", <<>>, <<>>) ELSE add(built[k - 1], n + 1 - k)
  IN  /\ Dispatch /\ n <= Len(stack) /\ CanAllocate /\ Len(stack) - n < MaxStack
      /\ heap' = built[n]
      /\ stack' = Append(Drop(n), m)
      /\ UNCHANGED saved

(* row_obj_set_column counts each field; the popped references stay.       *)
StructBuild(fields) ==
  LET n == Len(fields)
      values == SubSeq(stack, Len(stack) - n + 1, Len(stack))
  IN  /\ Dispatch /\ n <= Len(stack) /\ CanAllocate /\ Len(stack) - n < MaxStack
      /\ \A v \in ToSet(values) \ {Scalar} : heap.obj[v].count < MaxCount
      /\ heap' = RetainAll(object_new(heap, "row", fields, values), values)
      /\ stack' = Append(Drop(n), Fresh(heap))
      /\ UNCHANGED saved

(* A slot's value in place of the container: counted, then the container   *)
(* is released.                                                            *)
Fetch(v) ==
  /\ heap' = value_release(value_retain(heap, v), Top(0))
  /\ stack' = Append(Drop(1), v)
  /\ UNCHANGED saved

IndexGetArray(i) ==
  /\ Dispatch /\ Is(Top(0), "array") /\ i \in DOMAIN heap.obj[Top(0)].slots
  /\ Fetch(heap.obj[Top(0)].slots[i])

IndexGetRow(field) ==
  LET i == KeyAt(heap, Top(0), field)
  IN  /\ Dispatch /\ Is(Top(0), "row")
      /\ Fetch(IF i = 0 THEN Scalar ELSE heap.obj[Top(0)].slots[i])

(* map_get counts the value, and after the push it is released again.      *)
IndexGetMap(key) ==
  LET i == KeyAt(heap, Top(0), key)
      v == heap.obj[Top(0)].slots[i]
  IN  /\ Dispatch /\ Is(Top(0), "map") /\ i > 0 /\ (MapIndexing \/ v = Scalar)
      /\ heap' = value_release(value_release(value_retain(heap, v), v), Top(0))
      /\ stack' = Append(Drop(1), v)
      /\ UNCHANGED saved

(* The container and the value are popped, and released when the slot has  *)
(* its own reference.                                                      *)
Store(h) == heap' = ReleaseAll(h, <<Top(0), Top(1)>>) /\ stack' = Drop(2) /\ UNCHANGED saved

IndexSetArray(i) ==
  /\ Dispatch /\ Is(Top(1), "array") /\ i \in DOMAIN heap.obj[Top(1)].slots
  /\ Store(array_set(heap, Top(1), i, Top(0)))

IndexSetKeyed(key) ==
  /\ Dispatch /\ (Is(Top(1), "map") \/ Is(Top(1), "row"))
  /\ KeyAt(heap, Top(1), key) = 0 => Len(heap.obj[Top(1)].slots) < MaxSlots
  /\ Store(keyed_set(heap, Top(1), key, Top(0)))

(* A native that changes a container answers it: counted for the result,   *)
(* released with the arguments.                                            *)
NativeAppend ==
  /\ Dispatch /\ Is(Top(1), "array") /\ Len(heap.obj[Top(1)].slots) < MaxSlots
  /\ heap' = ReleaseAll(value_retain(array_append(heap, Top(1), Top(0)), Top(1)), <<Top(1), Top(0)>>)
  /\ stack' = Append(Drop(2), Top(1))
  /\ UNCHANGED saved

NativeResult(h) == heap' = value_release(value_retain(h, Top(0)), Top(0)) /\ UNCHANGED <<stack, saved>>

NativeTrim(n) == Dispatch /\ Is(Top(0), "array") /\ NativeResult(array_trim(heap, Top(0), n))

NativeDelete(key) == Dispatch /\ Is(Top(0), "map") /\ NativeResult(map_delete(heap, Top(0), key))

KeyLists == UNION {[1..n -> Keys] : n \in 0..MaxSlots}

Instruction ==
  \/ Const \/ Pop
  \/ \E i \in DOMAIN stack : GetLocal(i) \/ Return(i) \/ SetLocal(i, TRUE) \/ SetLocal(i, FALSE)
  \/ \E n \in 0..Len(stack) : ArrayBuild(n)
  \/ \E keys \in KeyLists : MapBuild(keys)
  \/ \E fields \in {k \in KeyLists : IsInjective(k)} : StructBuild(fields)
  \/ /\ stack # <<>>
     /\ \/ \E i \in 1..MaxSlots : IndexGetArray(i) \/ NativeTrim(i)
        \/ \E key \in Keys : IndexGetRow(key) \/ IndexGetMap(key) \/ NativeDelete(key)
  \/ /\ Len(stack) > 1
     /\ NativeAppend \/ (\E i \in 1..MaxSlots : IndexSetArray(i)) \/ \E key \in Keys : IndexSetKeyed(key)

Exited == phase = "freed" /\ UNCHANGED vars

Next == Instruction \/ vm_gc_collect \/ vm_free \/ Exited

Spec == Init /\ [][Next]_vars

---------------------------------------------------------------------------
(* References that are held: from the stack, the saved locals, the slots.  *)
Held == stack \o saved
Holders(o) == Cardinality({i \in DOMAIN Held : Held[i] = o})
SlotsWith(o) == Cardinality({s \in (DOMAIN heap.obj) \X (1..MaxSlots) :
                               s[2] \in DOMAIN heap.obj[s[1]].slots /\ heap.obj[s[1]].slots[s[2]] = o})
References(o) == Holders(o) + SlotsWith(o)
Inflated == {o \in DOMAIN heap.obj : heap.obj[o].count > References(o)}

(* Every container some variable, temporary or container refers to is      *)
(* live and counts at least that many references, so that releasing one of *)
(* them never frees it under the others; the registry lists each live      *)
(* container once.                                                         *)
CountsCoverReferences ==
  /\ ToSet(Held) \cup Children(heap, DOMAIN heap.obj) \subseteq DOMAIN heap.obj \cup {Scalar}
  /\ \A o \in DOMAIN heap.obj : heap.obj[o].count >= References(o)
  /\ ToSet(heap.registry) = DOMAIN heap.obj /\ Len(heap.registry) = Cardinality(DOMAIN heap.obj)

(* A collection frees what no variable leads to, cycles included, except   *)
(* for containers whose count exceeds their references, and leaves the     *)
(* contents of the others alone; the sweep at exit frees the rest.         *)
CollectionIsExact ==
  [][LET reachable == gc_mark_drain(heap, ToSet(Held') \ {Scalar})
     IN  (phase' = "freed" \/ heap'.allocations < heap.allocations) =>
           /\ DOMAIN heap'.obj = reachable \cup Inflated
           /\ \A o \in reachable : heap'.obj[o].slots = heap.obj[o].slots]_vars
=============================================================================
