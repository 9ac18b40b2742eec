---------------------------- MODULE PagerOpsProofs ----------------------------
(***************************************************************************)
(* What the page allocator guarantees, for every number of pages.          *)
(***************************************************************************)
EXTENDS PagerOps, WellFoundedInduction, TLAPS

(* Every non-empty set of naturals has a least element. *)
LEMMA LeastElement ==
  ASSUME NEW T \in SUBSET Nat, T # {}
  PROVE  \E i \in T : \A j \in T : i <= j
  <1> DEFINE R == OpToRel(<, Nat)
  <1>1. IsWellFoundedOn(R, Nat)
    BY NatLessThanWellFounded
  <1>2. \E x \in T : \A y \in T : ~ (<<y, x>> \in R)
    BY <1>1, WFMin
  <1>3. PICK x \in T : \A y \in T : ~ (<<y, x>> \in R)
    BY <1>2
  <1>4. \A y \in T : <<y, x>> \in R <=> y < x
    BY DEF OpToRel
  <1> HIDE DEF R
  <1>5. ASSUME NEW y \in T PROVE x <= y
    <2>1. ~(y < x)
      BY <1>3, <1>4
    <2>2. QED
      BY <2>1
  <1>6. QED
    BY <1>5

(* The allocator returns -1 or a page whose bit was clear, never page 0. *)
LEMMA AllocatedFacts ==
  ASSUME NEW q \in Pagers
  PROVE  \/ AllocatedPage(q) = -1
         \/ AllocatedPage(q) \in 1 .. BitmapBits - 1 /\ AllocatedPage(q) \notin q.bitmap
  <1>1. CASE FreePages(q) = {}
    BY <1>1 DEF AllocatedPage
  <1>2. CASE FreePages(q) # {}
    <2>1. FreePages(q) \in SUBSET Nat
      BY BitmapAssumption DEF FreePages
    <2>2. \E i \in FreePages(q) : \A j \in FreePages(q) : i <= j
      BY <1>2, <2>1, LeastElement
    <2>3. LowestFree(q) \in FreePages(q)
      BY <2>2 DEF LowestFree
    <2>4. QED
      BY <1>2, <2>3 DEF AllocatedPage, FreePages
  <1>3. QED
    BY <1>1, <1>2

-----------------------------------------------------------------------------
(* A pager record that describes its file: header and catalog page are      *)
(* reserved and every page with a bit lies inside the file.                 *)
Sound(q) == {0, 1} \subseteq q.bitmap /\ \A p \in q.bitmap : p < q.page_count

LEMMA NewPagerFacts == NewPager \in Pagers /\ Sound(NewPager)
  BY BitmapAssumption DEF NewPager, Pagers, Pages, Sound

LEMMA AllocateFacts ==
  ASSUME NEW q \in Pagers, Sound(q)
  PROVE  /\ MarkAllocated(q) \in Pagers
         /\ Sound(MarkAllocated(q))
         /\ q.bitmap \subseteq MarkAllocated(q).bitmap
         /\ AllocatedPage(q) >= 0 => /\ AllocatedPage(q) \in MarkAllocated(q).bitmap
                                     /\ AllocatedPage(q) \in 2 .. BitmapBits - 1
                                     /\ AllocatedPage(q) \notin q.bitmap
  <1> DEFINE p == AllocatedPage(q)
  <1>1. p = -1 \/ (p \in 1 .. BitmapBits - 1 /\ p \notin q.bitmap)
    BY AllocatedFacts
  <1> HIDE DEF p
  <1>2. CASE p = -1
    BY <1>2 DEF MarkAllocated, p
  <1>3. CASE p \in 1 .. BitmapBits - 1 /\ p \notin q.bitmap
    <2>1. MarkAllocated(q) =
            [bitmap |-> q.bitmap \cup {p},
             page_count |-> IF p >= q.page_count THEN p + 1 ELSE q.page_count]
      BY <1>3, BitmapAssumption DEF MarkAllocated, p
    <2>2. p \in 2 .. BitmapBits - 1
      BY <1>3, BitmapAssumption DEF Sound
    <2>3. MarkAllocated(q) \in Pagers
      BY <1>3, <2>1, BitmapAssumption DEF Pagers, Pages
    <2>4. Sound(MarkAllocated(q))
      BY <1>3, <2>1, BitmapAssumption DEF Pagers, Pages, Sound
    <2>5. QED
      BY <1>3, <2>1, <2>2, <2>3, <2>4 DEF p
  <1>4. QED
    BY <1>1, <1>2, <1>3

=============================================================================
