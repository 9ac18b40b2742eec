------------------------- MODULE DbSequencesProofs ---------------------------
(***************************************************************************)
(* Proofs about DbSequences for every set of names, every start value and  *)
(* increment, every limit and every nesting of triggers.                   *)
(***************************************************************************)
EXTENDS DbSequences, TLAPS

USE DEF Slot

LEMMA WrapType == ASSUME NEW x \in Int PROVE Wrap(x) \in Int
  BY IntHalfAssumption DEF Wrap

LEMMA FreeType == Free \in Slot /\ NoSlots \in [Names -> Slot]
  BY DEF Free, NoSlots

LEMMA CreatedType ==
  ASSUME NEW s \in Starts, NEW i \in Increments
  PROVE  CreatedSlot(s, i) \in Slot
  BY StartsAssumption DEF CreatedSlot

(* What nextval computes, and that it is a slot. *)
LEMMA AdvancedFacts ==
  ASSUME NEW slot \in Slot
  PROVE  /\ Advanced(slot) \in Slot
         /\ Advanced(slot).used = slot.used
         /\ Advanced(slot).hasValue
         /\ Advanced(slot).increment = slot.increment
         /\ slot.hasValue => Advanced(slot).current = Wrap(slot.current + slot.increment)
         /\ ~slot.hasValue => Advanced(slot).current = slot.current
  <1>1. Wrap(slot.current + slot.increment) \in Int
    BY WrapType
  <1>2. CASE slot.hasValue
    BY <1>1, <1>2 DEF Advanced
  <1>3. CASE ~slot.hasValue
    BY <1>3 DEF Advanced
  <1>4. QED
    BY <1>2, <1>3

(* The slots an operation starts from. *)
LEMMA LoadedType ==
  ASSUME TypeOK
  PROVE  sequence_ensure_loaded \in [Names -> Slot]
  BY DEF TypeOK, sequence_ensure_loaded

LEMMA SetSlotsType ==
  ASSUME TypeOK, NEW slots \in [Names -> Slot], SetSlots(slots)
  PROVE  /\ loaded' \in [1..MaxDepth -> BOOLEAN]
         /\ cache' \in [1..MaxDepth -> [Names -> Slot]]
         /\ alone' \in BOOLEAN
  <1>1. loaded' \in [1..MaxDepth -> BOOLEAN] /\ cache' \in [1..MaxDepth -> [Names -> Slot]]
    BY DEF TypeOK, SetSlots
  <1>2. alone' \in BOOLEAN
    BY Zenon DEF SetSlots
  <1>3. QED
    BY <1>1, <1>2

LEMMA SaveType ==
  ASSUME TypeOK, NEW n \in Names, NEW slot \in Slot, NEW fits \in BOOLEAN,
         catalog_sequence_save(n, slot, fits)
  PROVE  catalog' \in [Names -> Slot] /\ page' \in [Names -> Slot]
  BY DEF TypeOK, catalog_sequence_save

LEMMA DropType ==
  ASSUME TypeOK, NEW n \in Names, NEW fits \in BOOLEAN,
         catalog_sequence_drop(n, fits)
  PROVE  catalog' \in [Names -> Slot] /\ page' \in [Names -> Slot]
  BY FreeType DEF TypeOK, catalog_sequence_drop

-----------------------------------------------------------------------------
LEMMA TypeInit == Init => TypeOK
  BY FreeType, DepthAssumption DEF Init, TypeOK, Defs

LEMMA TypeNext == TypeOK /\ [Next]_vars => TypeOK'
  <1> SUFFICES ASSUME TypeOK, [Next]_vars PROVE TypeOK'
    OBVIOUS
  <1>0. sequence_ensure_loaded \in [Names -> Slot]
    BY LoadedType
  <1>1. ASSUME NEW n \in Names, NEW s \in Starts, NEW i \in Increments,
               NEW fits \in BOOLEAN, vm_sequence_create(n, s, i, fits)
        PROVE  TypeOK'
    <2> DEFINE slots == sequence_ensure_loaded
               ok == /\ ~slots[n].used /\ Cardinality(UsedIn(slots)) < SequenceMax
                     /\ catalog_sequence_save_ok(n, fits)
               new == IF ok THEN [slots EXCEPT ![n] = CreatedSlot(s, i)] ELSE slots
    <2>1. CreatedSlot(s, i) \in Slot
      BY CreatedType
    <2>2. new \in [Names -> Slot]
      BY <1>0, <2>1
    <2>3. SetSlots(new)
      BY <1>1 DEF vm_sequence_create
    <2>4. loaded' \in [1..MaxDepth -> BOOLEAN] /\ cache' \in [1..MaxDepth -> [Names -> Slot]]
          /\ alone' \in BOOLEAN
      BY <2>2, <2>3, SetSlotsType
    <2>5. catalog' \in [Names -> Slot] /\ page' \in [Names -> Slot]
      <3>1. CASE catalog_sequence_save(n, CreatedSlot(s, i), fits)
        BY <2>1, <3>1, SaveType
      <3>2. CASE UNCHANGED <<catalog, page>>
        BY <3>2 DEF TypeOK
      <3>3. QED
        BY <1>1, <3>1, <3>2 DEF vm_sequence_create
    <2>6. issued' \in [Names -> Seq(Int)]
      BY <1>1 DEF vm_sequence_create, TypeOK
    <2>7. def' \in [Names -> Defs]
      BY <1>1, StartsAssumption DEF vm_sequence_create, TypeOK, Defs
    <2>8. depth' \in 1..MaxDepth
      BY <1>1 DEF vm_sequence_create, TypeOK
    <2>9. QED
      BY <2>4, <2>5, <2>6, <2>7, <2>8 DEF TypeOK
  <1>2. ASSUME NEW n \in Names, NEW fits \in BOOLEAN, vm_sequence_nextval(n, fits)
        PROVE  TypeOK'
    <2> DEFINE slots == sequence_ensure_loaded
               next == Advanced(slots[n])
               ok == slots[n].used /\ catalog_sequence_save_ok(n, fits)
               new == IF ok THEN [slots EXCEPT ![n] = next] ELSE slots
    <2>1. next \in Slot
      BY <1>0, AdvancedFacts
    <2>2. new \in [Names -> Slot]
      BY <1>0, <2>1
    <2>3. SetSlots(new)
      BY <1>2 DEF vm_sequence_nextval
    <2>4. loaded' \in [1..MaxDepth -> BOOLEAN] /\ cache' \in [1..MaxDepth -> [Names -> Slot]]
          /\ alone' \in BOOLEAN
      BY <2>2, <2>3, SetSlotsType
    <2>5. catalog' \in [Names -> Slot] /\ page' \in [Names -> Slot]
      <3>1. CASE catalog_sequence_save(n, next, fits)
        BY <2>1, <3>1, SaveType
      <3>2. CASE UNCHANGED <<catalog, page>>
        BY <3>2 DEF TypeOK
      <3>3. QED
        BY <1>2, <3>1, <3>2 DEF vm_sequence_nextval
    <2>6. issued' \in [Names -> Seq(Int)]
      <3>1. next.current \in Int
        BY <2>1
      <3>2. Append(issued[n], next.current) \in Seq(Int)
        BY <3>1 DEF TypeOK
      <3>3. issued' = IF ok THEN [issued EXCEPT ![n] = Append(issued[n], next.current)]
                      ELSE issued
        BY <1>2 DEF vm_sequence_nextval
      <3>4. QED
        BY <3>2, <3>3 DEF TypeOK
    <2>7. def' \in [Names -> Defs] /\ depth' \in 1..MaxDepth
      BY <1>2 DEF vm_sequence_nextval, TypeOK
    <2>8. QED
      BY <2>4, <2>5, <2>6, <2>7 DEF TypeOK
  <1>3. CASE vm_sequence_currval
    <2>1. loaded' \in [1..MaxDepth -> BOOLEAN] /\ cache' \in [1..MaxDepth -> [Names -> Slot]]
          /\ alone' \in BOOLEAN
      BY <1>0, <1>3, SetSlotsType DEF vm_sequence_currval
    <2>2. QED
      BY <1>3, <2>1 DEF vm_sequence_currval, TypeOK
  <1>4. ASSUME NEW n \in Names, NEW fits \in BOOLEAN, vm_sequence_drop(n, fits)
        PROVE  TypeOK'
    <2> DEFINE slots == sequence_ensure_loaded
               ok == slots[n].used /\ catalog_sequence_drop_ok(n, fits)
               new == IF ok THEN [slots EXCEPT ![n] = Free] ELSE slots
    <2>1. new \in [Names -> Slot]
      BY <1>0, FreeType
    <2>2. SetSlots(new)
      BY <1>4 DEF vm_sequence_drop
    <2>3. loaded' \in [1..MaxDepth -> BOOLEAN] /\ cache' \in [1..MaxDepth -> [Names -> Slot]]
          /\ alone' \in BOOLEAN
      BY <2>1, <2>2, SetSlotsType
    <2>4. catalog' \in [Names -> Slot] /\ page' \in [Names -> Slot]
      <3>1. CASE catalog_sequence_drop(n, fits)
        BY <3>1, DropType
      <3>2. CASE UNCHANGED <<catalog, page>>
        BY <3>2 DEF TypeOK
      <3>3. QED
        BY <1>4, <3>1, <3>2 DEF vm_sequence_drop
    <2>5. QED
      BY <1>4, <2>3, <2>4 DEF vm_sequence_drop, TypeOK
  <1>5. CASE vm_fire_trigger
    BY <1>5, FreeType, DepthAssumption DEF vm_fire_trigger, TypeOK
  <1>6. CASE vm_free_child
    BY <1>6, FreeType, DepthAssumption DEF vm_free_child, TypeOK
  <1>7. CASE vm_set_context
    BY <1>7, FreeType DEF vm_set_context, TypeOK
  <1>8. CASE Restart
    BY <1>8, FreeType, DepthAssumption DEF Restart, TypeOK
  <1>9. CASE UNCHANGED vars
    BY <1>9 DEF vars, TypeOK
  <1>10. QED
    BY <1>1, <1>2, <1>3, <1>4, <1>5, <1>6, <1>7, <1>8, <1>9 DEF Next

(* Type correctness, for every value of the constants. *)
THEOREM TypeCorrect == Spec => []TypeOK
  BY TypeInit, TypeNext, PTL DEF Spec

-----------------------------------------------------------------------------
LEMMA DurableNext == CatalogIsDurable /\ [Next]_vars => CatalogIsDurable'
  <1> SUFFICES ASSUME CatalogIsDurable, [Next]_vars PROVE CatalogIsDurable'
    OBVIOUS
  <1> USE DEF CatalogIsDurable
  <1>1. ASSUME NEW n \in Names, NEW slot, NEW fits \in BOOLEAN,
               catalog_sequence_save(n, slot, fits)
        PROVE  CatalogIsDurable'
    BY <1>1 DEF catalog_sequence_save
  <1>2. ASSUME NEW n \in Names, NEW fits \in BOOLEAN, catalog_sequence_drop(n, fits)
        PROVE  CatalogIsDurable'
    BY <1>2 DEF catalog_sequence_drop
  <1>3. ASSUME UNCHANGED <<catalog, page>> PROVE CatalogIsDurable'
    BY <1>3
  <1>4. ASSUME NEW n \in Names, NEW s \in Starts, NEW i \in Increments,
               NEW fits \in BOOLEAN, vm_sequence_create(n, s, i, fits)
        PROVE  CatalogIsDurable'
    BY <1>1, <1>3, <1>4 DEF vm_sequence_create
  <1>5. ASSUME NEW n \in Names, NEW fits \in BOOLEAN, vm_sequence_nextval(n, fits)
        PROVE  CatalogIsDurable'
    BY <1>1, <1>3, <1>5 DEF vm_sequence_nextval
  <1>6. ASSUME NEW n \in Names, NEW fits \in BOOLEAN, vm_sequence_drop(n, fits)
        PROVE  CatalogIsDurable'
    BY <1>2, <1>3, <1>6 DEF vm_sequence_drop
  <1>7. CASE Restart
    BY <1>7 DEF Restart
  <1>8. QED
    BY <1>3, <1>4, <1>5, <1>6, <1>7
    DEF Next, vars, vm_sequence_currval, vm_fire_trigger, vm_free_child, vm_set_context

(* The in-memory section equals the section in the file after every step,   *)
(* refused catalog writes included, at every nesting of triggers.           *)
THEOREM CatalogDurable == Spec => []CatalogIsDurable
  <1>1. Init => CatalogIsDurable
    BY DEF Init, CatalogIsDurable
  <1>2. QED
    BY <1>1, DurableNext, PTL DEF Spec

-----------------------------------------------------------------------------
(* VMs above the running one do not exist: none of their slots is loaded.   *)
NothingAbove == \A v \in 1..MaxDepth : v > depth => ~loaded[v]

(* Until a trigger body interferes every operation starts from what the     *)
(* catalog holds: loading copies it, and a loaded cache equals it already.  *)
LEMMA AloneSlots ==
  ASSUME TypeOK, CacheCoherent, alone
  PROVE  sequence_ensure_loaded = catalog
  BY DEF TypeOK, CacheCoherent, sequence_ensure_loaded

LEMMA SetSlotsAlone ==
  ASSUME NEW slots, SetSlots(slots), alone'
  PROVE  alone /\ \A v \in 1..(depth - 1) : ~loaded[v]
  BY DEF SetSlots

(* An operation that leaves the catalog's entries in its cache keeps the    *)
(* caches coherent: no other VM has any.                                    *)
LEMMA SetSlotsCoherent ==
  ASSUME TypeOK, NothingAbove, NEW slots, SetSlots(slots), UNCHANGED depth,
         alone' => slots = catalog'
  PROVE  NothingAbove' /\ CacheCoherent'
  <1>1. depth \in 1..MaxDepth /\ MaxDepth \in Nat
    BY DepthAssumption DEF TypeOK
  <1>2. loaded' = [loaded EXCEPT ![depth] = TRUE] /\ cache' = [cache EXCEPT ![depth] = slots]
    BY DEF SetSlots
  <1>3. NothingAbove'
    BY <1>1, <1>2 DEF NothingAbove, TypeOK
  <1>4. ASSUME alone', NEW v \in 1..MaxDepth, loaded'[v]
        PROVE  cache'[v] = catalog'
    <2>1. \A u \in 1..(depth - 1) : ~loaded[u]
      BY <1>4, SetSlotsAlone
    <2>2. v = depth
      <3>1. CASE v < depth
        <4>1. v \in 1..(depth - 1)
          BY <1>1, <3>1
        <4>2. v # depth
          BY <1>1, <3>1
        <4>3. v \in DOMAIN loaded
          BY DEF TypeOK
        <4>4. loaded'[v] = loaded[v]
          BY <1>2, <4>2, <4>3, Zenon
        <4>5. QED
          BY <1>4, <2>1, <4>1, <4>4
      <3>2. CASE v > depth
        BY <1>1, <1>3, <1>4, <3>2 DEF NothingAbove
      <3>3. QED
        BY <1>1, <3>1, <3>2
    <2>3. QED
      BY <1>1, <1>2, <1>4, <2>2 DEF TypeOK
  <1>5. QED
    BY <1>3, <1>4 DEF CacheCoherent

LEMMA CoherentNext ==
  TypeOK /\ NothingAbove /\ CacheCoherent /\ [Next]_vars => NothingAbove' /\ CacheCoherent'
  <1> SUFFICES ASSUME TypeOK, NothingAbove, CacheCoherent, [Next]_vars
               PROVE  NothingAbove' /\ CacheCoherent'
    OBVIOUS
  <1>0. depth \in 1..MaxDepth /\ MaxDepth \in Nat /\ MaxDepth # 0
    BY DepthAssumption DEF TypeOK
  <1>2. ASSUME NEW n \in Names, NEW s \in Starts, NEW i \in Increments,
               NEW fits \in BOOLEAN, vm_sequence_create(n, s, i, fits)
        PROVE  NothingAbove' /\ CacheCoherent'
    <2>1. PICK slots : SetSlots(slots) /\ (sequence_ensure_loaded = catalog => slots = catalog')
      BY <1>2 DEF vm_sequence_create, catalog_sequence_save
    <2>2. alone' => slots = catalog'
      BY <2>1, SetSlotsAlone, AloneSlots
    <2>3. QED
      BY <1>2, <2>1, <2>2, SetSlotsCoherent DEF vm_sequence_create
  <1>3. ASSUME NEW n \in Names, NEW fits \in BOOLEAN, vm_sequence_nextval(n, fits)
        PROVE  NothingAbove' /\ CacheCoherent'
    <2>1. PICK slots : SetSlots(slots) /\ (sequence_ensure_loaded = catalog => slots = catalog')
      BY <1>3 DEF vm_sequence_nextval, catalog_sequence_save
    <2>2. alone' => slots = catalog'
      BY <2>1, SetSlotsAlone, AloneSlots
    <2>3. QED
      BY <1>3, <2>1, <2>2, SetSlotsCoherent DEF vm_sequence_nextval
  <1>4. CASE vm_sequence_currval
    <2>1. PICK slots : SetSlots(slots) /\ (sequence_ensure_loaded = catalog => slots = catalog')
      BY <1>4 DEF vm_sequence_currval
    <2>2. alone' => slots = catalog'
      BY <2>1, SetSlotsAlone, AloneSlots
    <2>3. QED
      BY <1>4, <2>1, <2>2, SetSlotsCoherent DEF vm_sequence_currval
  <1>5. ASSUME NEW n \in Names, NEW fits \in BOOLEAN, vm_sequence_drop(n, fits)
        PROVE  NothingAbove' /\ CacheCoherent'
    <2>1. PICK slots : SetSlots(slots) /\ (sequence_ensure_loaded = catalog => slots = catalog')
      BY <1>5 DEF vm_sequence_drop, catalog_sequence_drop
    <2>2. alone' => slots = catalog'
      BY <2>1, SetSlotsAlone, AloneSlots
    <2>3. QED
      BY <1>5, <2>1, <2>2, SetSlotsCoherent DEF vm_sequence_drop
  <1>6. CASE vm_fire_trigger
    BY <1>0, <1>6 DEF vm_fire_trigger, NothingAbove, CacheCoherent, TypeOK
  <1>7. CASE vm_free_child
    BY <1>0, <1>7 DEF vm_free_child, NothingAbove, CacheCoherent, TypeOK
  <1>8. CASE vm_set_context
    BY <1>0, <1>8 DEF vm_set_context, NothingAbove, CacheCoherent, TypeOK
  <1>9. CASE Restart
    BY <1>0, <1>9 DEF Restart, NothingAbove, CacheCoherent
  <1>10. CASE UNCHANGED vars
    BY <1>10 DEF vars, NothingAbove, CacheCoherent
  <1>11. QED
    BY <1>2, <1>3, <1>4, <1>5, <1>6, <1>7, <1>8, <1>9, <1>10 DEF Next

(* Until a trigger body uses sequences after the code that fired it has,    *)
(* every loaded cache equals the catalog (sequence_ensure_loaded and the    *)
(* undo after a refused save).                                              *)
THEOREM CachesCoherent == Spec => []CacheCoherent
  <1>1. Init => NothingAbove /\ CacheCoherent
    BY DepthAssumption DEF Init, NothingAbove, CacheCoherent
  <1>2. QED
    BY <1>1, TypeInit, TypeNext, CoherentNext, PTL DEF Spec

-----------------------------------------------------------------------------
(* The inductive invariant behind the progression theorems.                 *)
SequenceInv ==
    /\ TypeOK
    /\ CatalogIsDurable
    /\ NothingAbove
    /\ CacheCoherent
    /\ StorageResumes
    /\ AloneIsProgression

(* Until a trigger body interferes every operation acts on what the file    *)
(* holds.                                                                   *)
LEMMA StoredSlots ==
  ASSUME alone, SequenceInv
  PROVE  sequence_ensure_loaded = page /\ catalog = page
  BY AloneSlots DEF SequenceInv, CatalogIsDurable

LEMMA AppendFacts ==
  ASSUME NEW q \in Seq(Int), NEW x \in Int
  PROVE  /\ Len(q) \in Nat
         /\ Append(q, x) \in Seq(Int)
         /\ Len(Append(q, x)) = Len(q) + 1
         /\ Append(q, x)[Len(q) + 1] = x
         /\ \A j \in 1..Len(q) : Append(q, x)[j] = q[j]
         /\ Append(q, x) # <<>>
         /\ q # <<>> => Len(q) > 0
  <1>1. Len(Append(q, x)) = Len(q) + 1 /\ Len(q) \in Nat /\ Append(q, x) \in Seq(Int)
    OBVIOUS
  <1>2. Append(q, x) # <<>>
    BY <1>1
  <1>3. Append(q, x)[Len(q) + 1] = x /\ \A j \in 1..Len(q) : Append(q, x)[j] = q[j]
    OBVIOUS
  <1>4. q # <<>> => Len(q) > 0
    OBVIOUS
  <1>5. QED
    BY <1>1, <1>2, <1>3, <1>4

(* A progression stays one when its next value is appended. *)
LEMMA ProgressionGrows ==
  ASSUME NEW q \in Seq(Int), NEW d \in Defs, NEW x \in Int, IsProgression(q, d),
         x = IF q = <<>> THEN d.start ELSE Wrap(q[Len(q)] + d.increment)
  PROVE  IsProgression(Append(q, x), d)
  <1> DEFINE new == Append(q, x)
  <1>1. /\ Len(q) \in Nat
        /\ Len(new) = Len(q) + 1
        /\ new[Len(q) + 1] = x
        /\ \A j \in 1..Len(q) : new[j] = q[j]
        /\ q # <<>> => Len(q) > 0
        /\ q = <<>> => Len(q) = 0
    BY AppendFacts
  <1> HIDE DEF new
  <1>2. new[1] = d.start
    BY <1>1 DEF IsProgression
  <1>3. ASSUME NEW j \in 1..(Len(new) - 1)
        PROVE  new[j + 1] = Wrap(new[j] + d.increment)
    <2>1. CASE j = Len(q)
      BY <1>1, <2>1
    <2>2. CASE j # Len(q)
      <3>1. j \in 1..(Len(q) - 1) /\ j \in 1..Len(q) /\ j + 1 \in 1..Len(q)
        BY <1>1, <2>2
      <3>2. QED
        BY <1>1, <3>1 DEF IsProgression
    <2>3. QED
      BY <2>1, <2>2
  <1>4. IsProgression(new, d)
    BY <1>2, <1>3 DEF IsProgression
  <1>5. QED
    BY <1>4 DEF new

LEMMA CreatePreserves ==
  ASSUME alone, alone', SequenceInv,
         NEW n \in Names, NEW s \in Starts, NEW i \in Increments,
         NEW fits \in BOOLEAN, vm_sequence_create(n, s, i, fits)
  PROVE  StorageResumes' /\ AloneIsProgression'
  <1>1. sequence_ensure_loaded = page /\ catalog = page
    BY StoredSlots
  <1>2. CASE UNCHANGED <<page, issued, def>>
    BY <1>2 DEF SequenceInv, StorageResumes, AloneIsProgression, NextvalIsProgression
  <1>3. CASE /\ page' = [page EXCEPT ![n] = CreatedSlot(s, i)]
             /\ issued' = [issued EXCEPT ![n] = <<>>]
             /\ def' = [def EXCEPT ![n] = [start |-> s, increment |-> i]]
    <2>1. StorageResumes'
      BY <1>3 DEF SequenceInv, TypeOK, StorageResumes, CreatedSlot, Defs
    <2>2. IsProgression(<<>>, [start |-> s, increment |-> i])
      BY DEF IsProgression
    <2>3. AloneIsProgression'
      BY <1>3, <2>2 DEF SequenceInv, TypeOK, AloneIsProgression, NextvalIsProgression
    <2>4. QED
      BY <2>1, <2>3
  <1>4. QED
    BY <1>1, <1>2, <1>3 DEF vm_sequence_create, catalog_sequence_save

LEMMA NextvalPreserves ==
  ASSUME alone, alone', SequenceInv, NEW n \in Names, NEW fits \in BOOLEAN,
         vm_sequence_nextval(n, fits)
  PROVE  StorageResumes' /\ AloneIsProgression'
  <1> DEFINE next == Advanced(page[n])
             old == issued[n]
             new == Append(old, next.current)
  <1>1. sequence_ensure_loaded = page /\ catalog = page
    BY StoredSlots
  <1>2. CASE UNCHANGED <<page, issued, def>>
    BY <1>2 DEF SequenceInv, StorageResumes, AloneIsProgression, NextvalIsProgression
  <1>3. CASE /\ page[n].used
             /\ page' = [page EXCEPT ![n] = next]
             /\ issued' = [issued EXCEPT ![n] = new]
             /\ def' = def
    <2>1. page[n] \in Slot /\ def[n] \in Defs /\ old \in Seq(Int)
      BY DEF SequenceInv, TypeOK
    <2>2. /\ next \in Slot
          /\ next.hasValue
          /\ next.increment = def[n].increment
          /\ next.current = IF old = <<>> THEN def[n].start
                            ELSE Wrap(old[Len(old)] + def[n].increment)
      BY <1>3, <2>1, AdvancedFacts DEF SequenceInv, StorageResumes
    <2>3. IsProgression(old, def[n])
      BY DEF SequenceInv, AloneIsProgression, NextvalIsProgression
    <2>4. IsProgression(new, def[n])
      BY <2>1, <2>2, <2>3, ProgressionGrows
    <2>5. new # <<>> /\ new[Len(new)] = next.current
      BY <2>1, <2>2, AppendFacts
    <2>6. issued'[n] = new /\ \A m \in Names \ {n} : issued'[m] = issued[m]
      BY <1>3 DEF SequenceInv, TypeOK
    <2>7. page'[n] = next /\ \A m \in Names \ {n} : page'[m] = page[m]
      BY <1>3 DEF SequenceInv, TypeOK
    <2> HIDE DEF next, new
    <2>8. StorageResumes'
      BY <1>3, <2>2, <2>5, <2>6, <2>7 DEF SequenceInv, StorageResumes
    <2>9. AloneIsProgression'
      BY <1>3, <2>4, <2>6 DEF SequenceInv, AloneIsProgression, NextvalIsProgression
    <2>10. QED
      BY <2>8, <2>9
  <1>4. QED
    BY <1>1, <1>2, <1>3 DEF vm_sequence_nextval, catalog_sequence_save

LEMMA DropPreserves ==
  ASSUME alone, alone', SequenceInv, NEW n \in Names, NEW fits \in BOOLEAN,
         vm_sequence_drop(n, fits)
  PROVE  StorageResumes' /\ AloneIsProgression'
  <1>1. sequence_ensure_loaded = page /\ catalog = page
    BY StoredSlots
  <1>2. CASE UNCHANGED <<page, issued, def>>
    BY <1>2 DEF SequenceInv, StorageResumes, AloneIsProgression, NextvalIsProgression
  <1>3. CASE page' = [page EXCEPT ![n] = Free] /\ UNCHANGED <<issued, def>>
    <2>1. StorageResumes'
      BY <1>3 DEF SequenceInv, TypeOK, StorageResumes, Free
    <2>2. AloneIsProgression'
      BY <1>3 DEF SequenceInv, AloneIsProgression, NextvalIsProgression
    <2>3. QED
      BY <2>1, <2>2
  <1>4. QED
    BY <1>1, <1>2, <1>3 DEF vm_sequence_drop, catalog_sequence_drop

LEMMA SequenceInvNext == SequenceInv /\ [Next]_vars => SequenceInv'
  <1> SUFFICES ASSUME SequenceInv, [Next]_vars PROVE SequenceInv'
    OBVIOUS
  <1>1. TypeOK' /\ CatalogIsDurable' /\ NothingAbove' /\ CacheCoherent'
    BY TypeNext, DurableNext, CoherentNext DEF SequenceInv
  <1>2. alone' => alone
    BY DEF Next, vars, SetSlots, vm_sequence_create, vm_sequence_nextval, vm_sequence_currval,
           vm_sequence_drop, vm_fire_trigger, vm_free_child, vm_set_context, Restart
  <1>3. CASE ~alone'
    BY <1>1, <1>3 DEF SequenceInv, StorageResumes, AloneIsProgression
  <1>4. CASE alone'
    <2>1. ASSUME UNCHANGED <<page, issued, def>>
          PROVE  StorageResumes' /\ AloneIsProgression'
      BY <1>2, <1>4, <2>1
      DEF SequenceInv, StorageResumes, AloneIsProgression, NextvalIsProgression
    <2>2. StorageResumes' /\ AloneIsProgression'
      BY <1>2, <1>4, <2>1, CreatePreserves, NextvalPreserves, DropPreserves
      DEF Next, vars, vm_sequence_currval, vm_fire_trigger, vm_free_child,
          vm_set_context, Restart
    <2>3. QED
      BY <1>1, <2>2 DEF SequenceInv
  <1>5. QED
    BY <1>3, <1>4

LEMMA SequenceInvInit == Init => SequenceInv
  <1> SUFFICES ASSUME Init PROVE SequenceInv
    OBVIOUS
  <1>1. TypeOK
    BY TypeInit
  <1>2. CatalogIsDurable /\ NothingAbove /\ CacheCoherent
    BY DepthAssumption DEF Init, CatalogIsDurable, NothingAbove, CacheCoherent
  <1>3. StorageResumes
    BY DEF Init, StorageResumes, NoSlots, Free
  <1>4. ASSUME NEW n \in Names PROVE IsProgression(issued[n], def[n])
    <2>1. issued[n] = <<>>
      BY DEF Init
    <2>2. QED
      BY <2>1 DEF IsProgression
  <1>5. QED
    BY <1>1, <1>2, <1>3, <1>4 DEF SequenceInv, AloneIsProgression, NextvalIsProgression

(* Until a trigger body uses sequences behind the back of the code that     *)
(* fired it the file holds the last value that nextval returned.            *)
THEOREM FileResumes == Spec => []StorageResumes
  <1>1. SequenceInv => StorageResumes
    BY DEF SequenceInv
  <1>2. QED
    BY <1>1, SequenceInvInit, SequenceInvNext, PTL DEF Spec

(* Until then the values that nextval returns form one progression from the *)
(* start value, across failed writes, reloads, trigger VMs and restarts.    *)
THEOREM ValuesFormProgression == Spec => []AloneIsProgression
  <1>1. SequenceInv => AloneIsProgression
    BY DEF SequenceInv
  <1>2. QED
    BY <1>1, SequenceInvInit, SequenceInvNext, PTL DEF Spec
=============================================================================
