---------------------------- MODULE DbSequences ------------------------------
(***************************************************************************)
(* Persistent sequences (create_sequence, nextval, currval, drop_sequence) *)
(* of the VM (src/vm.c) over the custom engine's catalog page              *)
(* (src/sql_engine.c).                                                     *)
(*                                                                         *)
(* Every VM keeps a cache of slots that it fills from the catalog on its   *)
(* first sequence operation and writes through on every change.  A trigger *)
(* body fired by dynamic SQL or by a row event runs in a child VM of its   *)
(* own (vm_fire_trigger, vm_fire_row_trigger): the VMs form a stack of     *)
(* which only the top one runs.                                            *)
(***************************************************************************)
EXTENDS Integers, Sequences, FiniteSets

CONSTANTS
    Names,        \* names a program gives to sequences
    Starts,       \* start values passed to create_sequence
    Increments,   \* increments passed to create_sequence
    SequenceMax,  \* SEQUENCE_MAX: slots of one VM
    CatalogMax,   \* MAX_CATALOG_SEQUENCES: entries of the catalog
    IntHalf,      \* an int lies in -IntHalf .. IntHalf-1 (2^31 in the build)
    MaxDepth,     \* bound: VMs on the stack (1 = no trigger ever fires)
    MaxIssued     \* bound: values issued by one sequence

ASSUME StartsAssumption     == Starts \subseteq Int /\ Increments \subseteq Int
ASSUME LimitsAssumption     == SequenceMax \in Nat /\ CatalogMax \in Nat
                               /\ CatalogMax <= SequenceMax
ASSUME IntHalfAssumption    == IntHalf \in Nat \ {0}
ASSUME DepthAssumption      == MaxDepth \in Nat \ {0}
ASSUME MaxIssuedAssumption  == MaxIssued \in Nat

VARIABLES
    depth,     \* number of VMs on the stack; VM number depth is running
    loaded,    \* loaded[v]: vm->sequences_loaded
    cache,     \* cache[v][n]: the slot of VM v that is named n
    catalog,   \* g_sequences: the engine's in-memory catalog section
    page,      \* the sequence section of the catalog page in the file
    issued,    \* history: what nextval returned for n since n was created
    def,       \* history: the (start, increment) n was created with
    alone      \* history: no trigger body used a sequence after a VM below it had

vars == <<depth, loaded, cache, catalog, page, issued, def, alone>>

Slot == [used : BOOLEAN, hasValue : BOOLEAN, current : Int, increment : Int]

Free == [used |-> FALSE, hasValue |-> FALSE, current |-> 0, increment |-> 0]

NoSlots == [n \in Names |-> Free]

Defs == [start : Int, increment : Int]

UsedIn(slots) == {n \in Names : slots[n].used}

\* C's int addition as the build computes it.
Wrap(x) == ((x + IntHalf) % (2 * IntHalf)) - IntHalf

-----------------------------------------------------------------------------
(* The catalog side: both calls end in catalog_write_page, which refuses a  *)
(* catalog that no longer fits its page and writes nothing (fits = FALSE);  *)
(* the caller then restores the section it had saved.                       *)

catalog_sequence_save_ok(n, fits) ==
    /\ catalog[n].used \/ Cardinality(UsedIn(catalog)) < CatalogMax
    /\ fits

\* Mutant: the section is not restored after a refused write.
MutSaveNoRollback(n, slot, fits) ==
    /\ catalog' = [catalog EXCEPT ![n] = slot]
    /\ page' = IF catalog_sequence_save_ok(n, fits) THEN catalog' ELSE page

\* Mutant: an entry that exists already is not overwritten in the file.
MutSaveNewOnly(n, slot, fits) ==
    IF catalog_sequence_save_ok(n, fits)
    THEN /\ catalog' = [catalog EXCEPT ![n] = slot]
         /\ page' = IF page[n].used THEN page ELSE catalog'
    ELSE UNCHANGED <<catalog, page>>

catalog_sequence_save(n, slot, fits) ==
    IF catalog_sequence_save_ok(n, fits)
    THEN /\ catalog' = [catalog EXCEPT ![n] = slot]
         /\ page' = catalog'
    ELSE UNCHANGED <<catalog, page>>

catalog_sequence_drop_ok(n, fits) == catalog[n].used /\ fits

catalog_sequence_drop(n, fits) ==
    IF catalog_sequence_drop_ok(n, fits)
    THEN /\ catalog' = [catalog EXCEPT ![n] = Free]
         /\ page' = catalog'
    ELSE UNCHANGED <<catalog, page>>

-----------------------------------------------------------------------------
(* The VM side.  The running VM's slots after sequence_ensure_loaded: the   *)
(* catalog holds at most CatalogMax <= SequenceMax entries, so a load       *)
(* copies all of them.                                                      *)

sequence_ensure_loaded == IF loaded[depth] THEN cache[depth] ELSE catalog

\* What every operation leaves behind: the VM is loaded and has these slots.
SetSlots(slots) ==
    /\ loaded' = [loaded EXCEPT ![depth] = TRUE]
    /\ cache' = [cache EXCEPT ![depth] = slots]
    /\ alone' = (alone /\ \A v \in 1..(depth - 1) : ~loaded[v])

CreatedSlot(start, inc) ==
    [used |-> TRUE, hasValue |-> FALSE, current |-> start, increment |-> inc]

vm_sequence_create(n, start, inc, fits) ==
    LET slots == sequence_ensure_loaded
        free  == ~slots[n].used /\ Cardinality(UsedIn(slots)) < SequenceMax
        ok    == free /\ catalog_sequence_save_ok(n, fits)
    IN  /\ IF free
           THEN catalog_sequence_save(n, CreatedSlot(start, inc), fits)
           ELSE UNCHANGED <<catalog, page>>
        /\ SetSlots(IF ok THEN [slots EXCEPT ![n] = CreatedSlot(start, inc)] ELSE slots)
        /\ issued' = IF ok THEN [issued EXCEPT ![n] = <<>>] ELSE issued
        /\ def' = IF ok THEN [def EXCEPT ![n] = [start |-> start, increment |-> inc]]
                  ELSE def
        /\ UNCHANGED depth

\* The slot that nextval computes: the first call returns the start value.
\* Mutant: has_value is not set by the first call.
MutAdvanced(slot) ==
    IF slot.hasValue
    THEN [slot EXCEPT !.current = Wrap(slot.current + slot.increment)]
    ELSE slot

Advanced(slot) ==
    IF slot.hasValue
    THEN [slot EXCEPT !.current = Wrap(slot.current + slot.increment)]
    ELSE [slot EXCEPT !.hasValue = TRUE]

\* Mutant: the slot keeps its advanced value when the save is refused.
MutNextvalKeepsSlot(n, fits) ==
    LET slots == sequence_ensure_loaded
        next  == Advanced(slots[n])
        ok    == slots[n].used /\ catalog_sequence_save_ok(n, fits)
    IN  /\ Len(issued[n]) < MaxIssued
        /\ IF slots[n].used
           THEN catalog_sequence_save(n, next, fits)
           ELSE UNCHANGED <<catalog, page>>
        /\ SetSlots(IF slots[n].used THEN [slots EXCEPT ![n] = next] ELSE slots)
        /\ issued' = IF ok THEN [issued EXCEPT ![n] = Append(@, next.current)]
                     ELSE issued
        /\ UNCHANGED <<depth, def>>

vm_sequence_nextval(n, fits) ==
    LET slots == sequence_ensure_loaded
        next  == Advanced(slots[n])
        ok    == slots[n].used /\ catalog_sequence_save_ok(n, fits)
    IN  /\ Len(issued[n]) < MaxIssued
        /\ IF slots[n].used
           THEN catalog_sequence_save(n, next, fits)
           ELSE UNCHANGED <<catalog, page>>
        /\ SetSlots(IF ok THEN [slots EXCEPT ![n] = next] ELSE slots)
        /\ issued' = IF ok THEN [issued EXCEPT ![n] = Append(@, next.current)]
                     ELSE issued
        /\ UNCHANGED <<depth, def>>

\* currval only reads, but it is a first operation like any other.
vm_sequence_currval == 
    /\ SetSlots(sequence_ensure_loaded)
    /\ UNCHANGED <<depth, catalog, page, issued, def>>

vm_sequence_drop(n, fits) ==
    LET slots == sequence_ensure_loaded
        ok    == slots[n].used /\ catalog_sequence_drop_ok(n, fits)
    IN  /\ IF slots[n].used
           THEN catalog_sequence_drop(n, fits)
           ELSE UNCHANGED <<catalog, page>>
        /\ SetSlots(IF ok THEN [slots EXCEPT ![n] = Free] ELSE slots)
        /\ UNCHANGED <<depth, issued, def>>

-----------------------------------------------------------------------------
(* The VMs.                                                                 *)

\* A trigger body starts in a fresh VM: vm_init leaves no slot loaded.
vm_fire_trigger ==
    /\ depth < MaxDepth
    /\ depth' = depth + 1
    /\ loaded' = [loaded EXCEPT ![depth + 1] = FALSE]
    /\ cache' = [cache EXCEPT ![depth + 1] = NoSlots]
    /\ UNCHANGED <<catalog, page, issued, def, alone>>

\* Mutant: the child is freed although none was started.
MutFreeChild ==
    /\ depth' = depth - 1
    /\ loaded' = [loaded EXCEPT ![depth] = FALSE]
    /\ cache' = [cache EXCEPT ![depth] = NoSlots]
    /\ UNCHANGED <<catalog, page, issued, def, alone>>

\* The body ends, normally or by an error: the child's slots are freed.
vm_free_child ==
    /\ depth > 1
    /\ depth' = depth - 1
    /\ loaded' = [loaded EXCEPT ![depth] = FALSE]
    /\ cache' = [cache EXCEPT ![depth] = NoSlots]
    /\ UNCHANGED <<catalog, page, issued, def, alone>>

\* vm_set_context / vm_set_driver on the session's VM (a new VM calls them
\* too): the cached slots are dropped and reloaded lazily.
vm_set_context ==
    /\ depth = 1
    /\ loaded' = [loaded EXCEPT ![1] = FALSE]
    /\ cache' = [cache EXCEPT ![1] = NoSlots]
    /\ UNCHANGED <<depth, catalog, page, issued, def, alone>>

\* The process ends or is killed at any point and a new one opens the file.
Restart ==
    /\ depth' = 1
    /\ loaded' = [v \in 1..MaxDepth |-> FALSE]
    /\ cache' = [v \in 1..MaxDepth |-> NoSlots]
    /\ catalog' = page
    /\ UNCHANGED <<page, issued, def, alone>>

-----------------------------------------------------------------------------
Init ==
    /\ depth = 1
    /\ loaded = [v \in 1..MaxDepth |-> FALSE]
    /\ cache = [v \in 1..MaxDepth |-> NoSlots]
    /\ catalog = NoSlots
    /\ page = NoSlots
    /\ issued = [n \in Names |-> <<>>]
    /\ def = [n \in Names |-> [start |-> 0, increment |-> 0]]
    /\ alone = TRUE

Next ==
    \/ \E n \in Names, s \in Starts, i \in Increments, fits \in BOOLEAN :
          vm_sequence_create(n, s, i, fits)
    \/ \E n \in Names, fits \in BOOLEAN : vm_sequence_nextval(n, fits)
    \/ vm_sequence_currval
    \/ \E n \in Names, fits \in BOOLEAN : vm_sequence_drop(n, fits)
    \/ vm_fire_trigger
    \/ vm_free_child
    \/ vm_set_context
    \/ Restart

Spec == Init /\ [][Next]_vars

-----------------------------------------------------------------------------
(* Every variable has its type. *)
TypeOK ==
    /\ depth \in 1..MaxDepth
    /\ loaded \in [1..MaxDepth -> BOOLEAN]
    /\ cache \in [1..MaxDepth -> [Names -> Slot]]
    /\ catalog \in [Names -> Slot]
    /\ page \in [Names -> Slot]
    /\ issued \in [Names -> Seq(Int)]
    /\ def \in [Names -> Defs]
    /\ alone \in BOOLEAN

(* A refused catalog write leaves no trace: what the engine holds in memory *)
(* is what the file holds, so a restart changes nothing (the rollback in    *)
(* catalog_sequence_save and catalog_sequence_drop).                        *)
CatalogIsDurable == catalog = page

(* "Every mutation is written through immediately so a later process        *)
(* resumes where the previous one stopped" (vm.c:932): the file holds the   *)
(* last value that nextval returned, whatever failed, restarted or was      *)
(* reloaded in between, as long as no trigger body used sequences behind    *)
(* the back of the code that fired it.                                      *)
StorageResumes ==
    alone => \A n \in Names : page[n].used =>
        /\ page[n].increment = def[n].increment
        /\ page[n].hasValue <=> issued[n] # <<>>
        /\ page[n].current = IF issued[n] = <<>> THEN def[n].start
                             ELSE issued[n][Len(issued[n])]

\* The sequence vals starts at d.start and advances by d.increment.
IsProgression(vals, d) ==
    /\ vals # <<>> => vals[1] = d.start
    /\ \A i \in 1..(Len(vals) - 1) : vals[i + 1] = Wrap(vals[i] + d.increment)

(* The values of a sequence form one progression: nextval returns the start *)
(* value first and then the previous value plus the increment, with no      *)
(* repetition and no gap across errors, reloads and restarts.               *)
NextvalIsProgression == \A n \in Names : IsProgression(issued[n], def[n])

(* The same as long as no trigger body used sequences behind the back of    *)
(* the code that fired it.                                                  *)
AloneIsProgression == alone => NextvalIsProgression

(* A loaded slot is never ahead of or behind what is stored (the undo after *)
(* a refused sequence_persist_save), in any VM of the stack, until a        *)
(* trigger body uses sequences after the code that fired it has.            *)
CacheCoherent ==
    alone => \A v \in 1..MaxDepth : loaded[v] => cache[v] = catalog
=============================================================================
