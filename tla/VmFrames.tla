------------------------------- MODULE VmFrames -------------------------------
(***************************************************************************)
(* Calls, scopes and error handlers: the code that src/codegen.c emits for *)
(* statements, run by the loop of src/vm.c.                                *)
(*                                                                         *)
(* vm is the part of struct VM that control flow uses.  Its pointers are   *)
(* addresses, because the value stack is a heap block that realloc moves   *)
(* while frames and handlers point into it.  What the slots hold is left   *)
(* out.                                                                    *)
(*                                                                         *)
(* ip stands for a place in the compiled code: the lexical scopes open     *)
(* there, the number of locals the compiler counts there, and the number   *)
(* of operands an expression under way has pushed above them.  The program *)
(* is any program: at each place every statement the grammar allows may    *)
(* come next, and any instruction may raise an error.                      *)
(***************************************************************************)
EXTENDS Integers, Sequences, SequencesExt

CONSTANTS
    InitialCapacity, \* VM_INITIAL_STACK_CAPACITY
    StackMax,        \* STACK_MAX as the cap of the value stack
    FramesMax,       \* STACK_MAX as the cap of the frame arrays
    TryMax,          \* TRY_MAX
    Blocks,          \* addresses malloc and realloc may return for the stack
    Exits,           \* exits the program makes besides the orderly ones:
                     \* "escape": return, break, continue out of a try block;
                     \* "bare": the end of a procedure with an empty frame
    HiddenMax,       \* bound: locals a loop declares for itself
    ArgsMax,         \* bound: arguments of a call
    TempsMax,        \* bound: operands on the stack at once
    ScopesMax        \* bound: scopes open at once in a procedure

ASSUME VmFramesAssumption ==
    /\ InitialCapacity \in Nat /\ InitialCapacity >= 2
    /\ StackMax \in Nat /\ StackMax >= InitialCapacity
    /\ {FramesMax, TryMax, HiddenMax, ArgsMax, TempsMax, ScopesMax} \subseteq Nat
    /\ Blocks \subseteq Int /\ Blocks # {}
    /\ Exits \subseteq {"escape", "bare"}

VARIABLES
    vm,       \* [stack, capacity, stack_top, frame_base, frames, try_frames]
    ip,       \* the place in the code
    status    \* "run", or how the run ended: "ok", by the last OP_RETURN;
              \* "error", by THROW with no handler; "stack overflow", by a
              \* failure at a cap that is not thrown; "stale frames", by a
              \* handler that outlived its call

vars == <<vm, ip, status>>

Kinds == {"proc", "block", "loop", "try", "catch"}

\* A scope: the locals before it, and those it owns itself (parameters, loop
\* variables, the catch variable); the locals of its block lie above.
Scope(kind, start, own) == [kind |-> kind, start |-> start, own |-> own]

Scopes == [kind : Kinds, start : Nat, own : Nat]
Places == [scopes : Seq(Scopes), locals : Nat, temps : Nat]

Entry(params) == [scopes |-> <<Scope("proc", 0, params)>>, locals |-> params, temps |-> 0]

Inner    == Last(ip.scopes)
Floor(s) == s.start + s.own
Opened(s)   == [ip EXCEPT !.scopes = Append(@, s), !.locals = Floor(s)]

\* The place after the innermost scope, and the one after (or at the head
\* of) the scope number n.
Closed      == [ip EXCEPT !.scopes = Front(@), !.locals = Inner.start]
After(n)    == [ip EXCEPT !.scopes = SubSeq(@, 1, n - 1), !.locals = ip.scopes[n].start]
HeadOf(n)   == [ip EXCEPT !.scopes = SubSeq(@, 1, n), !.locals = Floor(ip.scopes[n])]

Running   == status = "run"
\* Between two statements nothing lies above the locals.
Statement == Running /\ ip.temps = 0

\* A jump out of the scopes from number n on leaves a try block among them.
LeavesTry(n) == \E i \in n .. Len(ip.scopes) : ip.scopes[i].kind = "try"
MayLeave(n)  == LeavesTry(n) => "escape" \in Exits

-----------------------------------------------------------------------------
\* Mutant: the handlers' pointers are forgotten.
MutRebased(v, block, capacity) ==
    LET delta == block - v.stack
    IN  [v EXCEPT !.stack = block, !.capacity = capacity,
                  !.stack_top = @ + delta, !.frame_base = @ + delta,
                  !.frames = [i \in DOMAIN @ |-> [@[i] EXCEPT !.frame_base = @ + delta]]]

\* realloc moved the block: every pointer into it follows.
Rebased(v, block, capacity) ==
    LET delta == block - v.stack
    IN  [stack      |-> block,
         capacity   |-> capacity,
         stack_top  |-> v.stack_top + delta,
         frame_base |-> v.frame_base + delta,
         frames     |-> [i \in DOMAIN v.frames |->
                            [v.frames[i] EXCEPT !.frame_base = @ + delta]],
         try_frames |-> [i \in DOMAIN v.try_frames |->
                            [v.try_frames[i] EXCEPT !.frame_base = @ + delta,
                                                    !.stack_top = @ + delta]]]

\* Mutant: the cap is not applied.
MutDoubled(capacity) == 2 * capacity

Doubled(capacity) == IF 2 * capacity > StackMax THEN StackMax ELSE 2 * capacity

\* vm_ensure_stack_capacity(vm, 1): the VMs it can leave, none when it fails.
EnsureCapacity(v) ==
    IF v.stack_top - v.stack + 1 <= v.capacity THEN {v}
    ELSE IF v.stack_top - v.stack + 1 > StackMax THEN {}
    ELSE {Rebased(v, b, Doubled(v.capacity)) : b \in Blocks}

Push(v) == {[w EXCEPT !.stack_top = @ + 1] : w \in EnsureCapacity(v)}

Popped(n) == [vm EXCEPT !.stack_top = @ - n]

-----------------------------------------------------------------------------
\* Mutant: local_count taken as if it left the catch variable out.
MutVmCatch ==
    LET tf  == Last(vm.try_frames)
        cut == [vm EXCEPT !.try_frames = Front(@),
                          !.stack_top  = tf.frame_base + tf.local_count,
                          !.frame_base = tf.frame_base,
                          !.frames     = SubSeq(@, 1, tf.frame_count)]
    IN  IF Push(cut) = {}
        THEN vm' = cut /\ status' = "error" /\ UNCHANGED ip
        ELSE \E v \in Push(cut) : vm' = v /\ ip' = tf.catch_ip /\ UNCHANGED status

\* vm_catch with a handler installed: cut the stack and the frames back to
\* the handler's, push the message, go on in the catch block.  A handler that
\* outlived its call raises frame_count over frames that were popped; what
\* runs then is not modelled.
VmCatch ==
    LET tf  == Last(vm.try_frames)
        cut == [vm EXCEPT !.try_frames = Front(@),
                          !.stack_top  = tf.frame_base + tf.local_count - 1,
                          !.frame_base = tf.frame_base,
                          !.frames     = SubSeq(@, 1, tf.frame_count)]
    IN  IF tf.frame_count > Len(vm.frames)
        THEN status' = "stale frames" /\ UNCHANGED <<vm, ip>>
        ELSE IF Push(cut) = {}
        THEN vm' = cut /\ status' = "error" /\ UNCHANGED ip
        ELSE \E v \in Push(cut) : vm' = v /\ ip' = tf.catch_ip /\ UNCHANGED status

\* THROW
Throw ==
    IF vm.try_frames = <<>>
    THEN status' = "error" /\ UNCHANGED <<vm, ip>>
    ELSE VmCatch

\* OP_RAISE, OP_RUNTIME_ERROR, and any instruction that fails.
Raise == Running /\ Throw

\* A failure that returns INTERPRET_RUNTIME_ERROR without THROW: the run ends
\* whatever handlers are installed.
Abort == status' = "stack overflow" /\ UNCHANGED <<vm, ip>>

\* Instructions that push a value.  On a full stack constants, locals and
\* globals throw; a native's result and a row abort.
PushValue ==
    /\ Running /\ ip.temps < TempsMax
    /\ IF Push(vm) = {} THEN Throw \/ Abort
       ELSE /\ vm' \in Push(vm)
            /\ ip' = [ip EXCEPT !.temps = @ + 1]
            /\ UNCHANGED status

\* OP_POP, OP_PRINT, OP_JZ and assignments, which end with OP_POP.
PopValue ==
    /\ Running /\ ip.temps > 0
    /\ vm' = Popped(1)
    /\ ip' = [ip EXCEPT !.temps = @ - 1]
    /\ UNCHANGED status

\* A declaration: the initial value stays on the stack as the local's slot.
Declare ==
    /\ Running /\ ip.temps = 1
    /\ ip' = [ip EXCEPT !.temps = 0, !.locals = @ + 1]
    /\ UNCHANGED <<vm, status>>

-----------------------------------------------------------------------------
\* A block, or a loop that owns the last n locals declared before it (none
\* for while, the init's for a C-style for, three for foreach and forall, the
\* iterator for a loop over a query).
Enter(kind, n) ==
    /\ Statement /\ Len(ip.scopes) < ScopesMax
    /\ ip.locals - n >= Floor(Inner)
    /\ ip' = Opened(Scope(kind, ip.locals - n, n))
    /\ UNCHANGED <<vm, status>>

\* Ways a jump out of scope number n leaves the locals and handlers.
Jump(n, place) ==
    /\ MayLeave(n + 1)
    /\ vm' = Popped(ip.locals - place.locals)
    /\ ip' = place
    /\ UNCHANGED status

LeaveBlock ==
    /\ Statement /\ Inner.kind = "block"
    /\ Jump(Len(ip.scopes), Closed)

\* The end of the body pops the body's locals and goes back to the head.
LoopAgain ==
    /\ Statement /\ Inner.kind = "loop" /\ ip.locals > Floor(Inner)
    /\ Jump(Len(ip.scopes), HeadOf(Len(ip.scopes)))

\* The condition fails: the exit pops what the loop owns.
LoopExit ==
    /\ Statement /\ Inner.kind = "loop" /\ ip.locals = Floor(Inner)
    /\ Jump(Len(ip.scopes), Closed)

InnermostLoop(n) ==
    /\ ip.scopes[n].kind = "loop"
    /\ \A i \in n + 1 .. Len(ip.scopes) : ip.scopes[i].kind # "loop"

\* Mutant: break pops only the body's locals, though its target lies behind
\* the pops of the loop's own.
MutBreak ==
    /\ Statement
    /\ \E n \in DOMAIN ip.scopes :
           /\ InnermostLoop(n) /\ MayLeave(n + 1)
           /\ vm' = Popped(ip.locals - Floor(ip.scopes[n]))
           /\ ip' = After(n)
    /\ UNCHANGED status

\* emit_break and emit_continue pop locals and jump; no OP_END_TRY.
Break ==
    /\ Statement
    /\ \E n \in DOMAIN ip.scopes : InnermostLoop(n) /\ Jump(n, After(n))

Continue ==
    /\ Statement
    /\ \E n \in DOMAIN ip.scopes : InnermostLoop(n) /\ Jump(n, HeadOf(n))

-----------------------------------------------------------------------------
\* Mutant: no placeholder, so the message may find the stack full.
MutEnterTry ==
    /\ Statement /\ Len(ip.scopes) < ScopesMax
    /\ IF Len(vm.try_frames) >= TryMax THEN Throw
       ELSE /\ vm' = [vm EXCEPT !.try_frames = Append(@,
                         [catch_ip    |-> Opened(Scope("catch", ip.locals, 1)),
                          frame_count |-> Len(vm.frames),
                          frame_base  |-> vm.frame_base,
                          local_count |-> ip.locals + 1,
                          stack_top   |-> vm.stack_top])]
            /\ ip' = Opened(Scope("try", ip.locals, 0))
            /\ UNCHANGED status

\* OP_TRY: a placeholder for the catch variable, then the handler.
EnterTry ==
    /\ Statement /\ Len(ip.scopes) < ScopesMax
    /\ IF Len(vm.try_frames) >= TryMax \/ Push(vm) = {} THEN Throw
       ELSE \E v \in Push(vm) :
                /\ vm' = [v EXCEPT !.try_frames = Append(@,
                             [catch_ip    |-> Opened(Scope("catch", ip.locals, 1)),
                              frame_count |-> Len(v.frames),
                              frame_base  |-> v.frame_base,
                              local_count |-> ip.locals + 1,
                              stack_top   |-> v.stack_top])]
                /\ ip' = Opened(Scope("try", ip.locals, 1))
                /\ UNCHANGED status

\* Mutant: OP_END_TRY pops the placeholder and leaves the handler.
MutEndTry ==
    /\ Statement /\ Inner.kind = "try"
    /\ vm' = Popped(ip.locals - Inner.start)
    /\ ip' = Closed
    /\ UNCHANGED status

\* The end of the try block pops its locals; OP_END_TRY drops the newest
\* handler and the placeholder and jumps over the catch block.
EndTry ==
    /\ Statement /\ Inner.kind = "try"
    /\ IF vm.try_frames = <<>> THEN Throw
       ELSE /\ vm' = [Popped(ip.locals - Inner.start) EXCEPT !.try_frames = Front(@)]
            /\ ip' = Closed
            /\ UNCHANGED status

\* The end of the catch block pops its locals and the message.
EndCatch ==
    /\ Statement /\ Inner.kind = "catch"
    /\ Jump(Len(ip.scopes), Closed)

-----------------------------------------------------------------------------
\* OP_CALL and OP_CALL_OUT (and their autonomous forms on the built-in
\* engine, where vm_call_autonomous answers -1).  A full frame array ends the
\* run past every handler.  outs: the pairs of a parameter's position and the
\* caller's slot it is copied to on return.
Call(args, outs) ==
    /\ Running /\ args <= ip.temps /\ ip.temps - args + 1 <= TempsMax
    /\ IF Len(vm.frames) >= FramesMax
       THEN Abort
       ELSE /\ vm' = [vm EXCEPT
                        !.frames = Append(@, [frame_base |-> vm.frame_base,
                                              return_ip  |-> [ip EXCEPT !.temps = @ - args + 1],
                                              outs       |-> outs]),
                        !.frame_base = vm.stack_top - args]
            /\ ip' = Entry(args)
            /\ UNCHANGED status

OutPairs(args) == (0 .. args - 1) \X (0 .. ip.locals - 1)

CallProc ==
    \E args \in 0 .. ArgsMax :
        \/ Call(args, {})
        \/ \E p \in OutPairs(args) : Call(args, {p})

\* OP_RETURN.  Each OUT position must lie in the callee's frame and each slot
\* in the caller's; the result, the topmost slot, replaces the callee's frame.
\* No handler is dropped.
ReturnFrom(v) ==
    LET fr     == Last(v.frames)
        caller == [v EXCEPT !.frames     = Front(@),
                            !.frame_base = fr.frame_base,
                            !.stack_top  = v.frame_base + 1]
    IN  IF v.frames = <<>>
        THEN vm' = v /\ status' = "ok" /\ UNCHANGED ip
        ELSE IF \E p \in fr.outs : p[1] >= v.stack_top - v.frame_base
                                   \/ p[2] >= v.frame_base - fr.frame_base
        THEN Throw
        ELSE /\ vm' = caller
             /\ ip' = fr.return_ip
             /\ UNCHANGED status

\* return e;
Return == Running /\ ip.temps = 1 /\ MayLeave(1) /\ ReturnFrom(vm)

\* The end of a procedure's body: the block's locals are popped and OP_RETURN
\* runs with no value pushed.  It returns the last parameter; in a procedure
\* without parameters it reads the slot below its frame, and writes it to a
\* slot that push never made room for.
FallOff ==
    /\ Statement /\ Inner.kind = "proc"
    /\ Floor(Inner) = 0 => "bare" \in Exits
    /\ ReturnFrom(Popped(ip.locals - Floor(Inner)))

-----------------------------------------------------------------------------
Init ==
    /\ \E b \in Blocks :
           vm = [stack |-> b, capacity |-> InitialCapacity, stack_top |-> b,
                 frame_base |-> b, frames |-> <<>>, try_frames |-> <<>>]
    /\ ip = Entry(0)
    /\ status = "run"

Next ==
    \/ Raise
    \/ PushValue
    \/ PopValue
    \/ Declare
    \/ Enter("block", 0)
    \/ \E n \in 0 .. HiddenMax : Enter("loop", n)
    \/ LeaveBlock
    \/ LoopAgain
    \/ LoopExit
    \/ Break
    \/ Continue
    \/ EnterTry
    \/ EndTry
    \/ EndCatch
    \/ CallProc
    \/ Return
    \/ FallOff

Spec == Init /\ [][Next]_vars

-----------------------------------------------------------------------------
TypeOK ==
    /\ vm.stack \in Blocks
    /\ vm.capacity \in InitialCapacity .. StackMax
    /\ status \in {"run", "ok", "error", "stack overflow", "stale frames"}

\* Activations, outermost first: where each stands in its code, and its base.
Depth      == Len(vm.frames) + 1
PlaceOf(k) == IF k = Depth THEN ip ELSE vm.frames[k].return_ip
BaseOf(k)  == IF k = Depth THEN vm.frame_base ELSE vm.frames[k].frame_base

\* The scope a handler belongs to: the activation, and the scope's number.
ScopeOf(tf) == <<tf.frame_count + 1, Len(tf.catch_ip.scopes)>>

IsOpenTry(k, n) ==
    /\ k \in 1 .. Depth
    /\ n \in DOMAIN PlaceOf(k).scopes
    /\ PlaceOf(k).scopes[n].kind = "try"

Before(a, b) == a[1] < b[1] \/ (a[1] = b[1] /\ a[2] < b[2])

\* The installed handlers are those of the try blocks execution is inside of,
\* in the same order, each with its activation's base and the slot of its
\* catch variable (src/vm.c:3288 "OP_END_TRY will pop it on the non-throwing
\* path").  Proviso: no return, break or continue has left a try block.
HandlersAreOpen ==
    /\ \A j \in DOMAIN vm.try_frames :
           LET tf == vm.try_frames[j]
               k  == ScopeOf(tf)[1]
               n  == ScopeOf(tf)[2]
           IN  /\ IsOpenTry(k, n)
               /\ tf.frame_base = BaseOf(k)
               /\ tf.local_count = PlaceOf(k).scopes[n].start + 1
               /\ Front(tf.catch_ip.scopes) = SubSeq(PlaceOf(k).scopes, 1, n - 1)
    /\ \A i, j \in DOMAIN vm.try_frames :
           i < j => Before(ScopeOf(vm.try_frames[i]), ScopeOf(vm.try_frames[j]))
    /\ \A k \in 1 .. Depth : \A n \in DOMAIN PlaceOf(k).scopes :
           IsOpenTry(k, n) =>
               \E j \in DOMAIN vm.try_frames : ScopeOf(vm.try_frames[j]) = <<k, n>>

\* The activations tile the value stack: each one's base is where its
\* caller's locals and operands end, and the newest ends at stack_top.  So a
\* slot number the compiler gave a local always names that local.
FramesTile ==
    Running =>
    /\ BaseOf(1) = vm.stack
    /\ \A k \in 1 .. Depth - 1 :
           BaseOf(k + 1) = BaseOf(k) + PlaceOf(k).locals + PlaceOf(k).temps - 1
    /\ vm.stack_top = vm.frame_base + ip.locals + ip.temps

\* Every pointer into the value stack points into the current block, across
\* reallocs (src/vm.c:65 "vm_ensure_stack_capacity re-bases them after
\* realloc").  Proviso: no bare return, which can write past the block.
PointersInBlock ==
    \A p \in {vm.stack_top, vm.frame_base}
              \cup {vm.frames[i].frame_base : i \in DOMAIN vm.frames}
              \cup UNION {{vm.try_frames[i].frame_base, vm.try_frames[i].stack_top} :
                             i \in DOMAIN vm.try_frames} :
        p \in vm.stack .. vm.stack + vm.capacity

\* An error that is thrown ends the run only outside every try block: the
\* placeholder of OP_TRY keeps a slot for the message even on a full stack, and
\* no handler is lost.  An error that is not thrown (src/vm.c:2085, 2199, 2242)
\* passes the handlers of open try blocks; it happens only when the frame array
\* or the value stack is at its cap.
NoTryOpen == \A k \in 1 .. Depth : \A n \in DOMAIN PlaceOf(k).scopes : ~IsOpenTry(k, n)
AtCap     == Len(vm.frames) >= FramesMax \/ vm.stack_top - vm.stack >= StackMax

ErrorsReachHandlers ==
    /\ status = "error" => NoTryOpen
    /\ status = "stack overflow" => AtCap

\* A caught error never brings back slots that had been popped: the catch
\* block finds the locals from before the try block and nothing else
\* (src/vm.c:1055 "Preserve locals that existed before the try block").
Caught == Len(vm'.try_frames) < Len(vm.try_frames) /\ ip' = Last(vm.try_frames).catch_ip

CatchOnlyCuts ==
    [][Caught => vm'.stack_top - vm'.stack <= vm.stack_top - vm.stack]_vars
=============================================================================
