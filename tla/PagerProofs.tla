----------------------------- MODULE PagerProofs -----------------------------
(***************************************************************************)
(* Proofs about Pager, for every number of pages and every page contents.  *)
(***************************************************************************)
EXTENDS Pager, PagerOpsProofs

-----------------------------------------------------------------------------
(* The file and the history agree on the pages that matter. *)
FileIsCurrent ==
    \A p \in owned \cup {1} : content[p] # Unwritten => file[p] = content[p]

(* The inductive invariant: while the file is open the bitmap in memory     *)
(* pins the owned pages, while it is closed the header's bitmap does.       *)
PagerInv ==
    /\ TypeOK
    /\ Sound(pg)
    /\ Sound(header)
    /\ isOpen => exists /\ owned \subseteq pg.bitmap
    /\ ~isOpen => owned \subseteq header.bitmap
    /\ ~exists => owned = {}
    /\ FileIsCurrent

LEMMA PagerInvInit == Init => PagerInv
  <1> SUFFICES ASSUME Init PROVE PagerInv
    OBVIOUS
  <1>1. TypeOK
    BY NewPagerFacts, ZerosAssumption, BitmapAssumption DEF Init, TypeOK
  <1>2. Sound(pg) /\ Sound(header)
    BY NewPagerFacts DEF Init
  <1>3. FileIsCurrent
    BY BitmapAssumption DEF Init, FileIsCurrent, Pages
  <1>4. QED
    BY <1>1, <1>2, <1>3 DEF Init, PagerInv

LEMMA PagerInvNext == PagerInv /\ [Next]_vars => PagerInv'
  <1> SUFFICES ASSUME PagerInv, [Next]_vars PROVE PagerInv'
    OBVIOUS
  <1>0. /\ 1 \in Pages /\ owned \subseteq Pages /\ owned \subseteq 2 .. BitmapBits - 1
        /\ pg \in Pagers /\ header \in Pagers /\ Sound(pg) /\ Sound(header)
    BY BitmapAssumption DEF PagerInv, TypeOK, Pages
  <1>1. CASE pager_open
    <2>1. pg' \in Pagers /\ Sound(pg') /\ header' = pg'
      BY <1>0, <1>1, NewPagerFacts DEF pager_open
    <2>2. owned' \subseteq pg'.bitmap
      BY <1>0, <1>1 DEF pager_open, PagerInv
    <2>3. QED
      BY <1>1, <2>1, <2>2 DEF pager_open, PagerInv, TypeOK, FileIsCurrent, Sound
  <1>2. CASE pager_close
    BY <1>0, <1>2 DEF pager_close, PagerInv, TypeOK, FileIsCurrent, Sound
  <1>3. CASE pager_allocate_page
    <2> DEFINE p == AllocatedPage(pg)
    <2>1. /\ pg' \in Pagers
          /\ Sound(pg')
          /\ pg.bitmap \subseteq pg'.bitmap
          /\ p >= 0 => /\ p \in pg'.bitmap
                       /\ p \in 2 .. BitmapBits - 1
                       /\ p \notin pg.bitmap
      BY <1>0, <1>3, AllocateFacts DEF pager_allocate_page
    <2>2. p = -1 \/ p \in 1 .. BitmapBits - 1
      BY <1>0, AllocatedFacts
    <2> HIDE DEF p
    <2>3. CASE p < 0
      BY <1>3, <2>1, <2>3 DEF pager_allocate_page, PagerInv, TypeOK, FileIsCurrent, Sound, p
    <2>4. CASE ~(p < 0)
      <3>1. /\ p \in pg'.bitmap /\ p \in 2 .. BitmapBits - 1 /\ p \in Pages
            /\ owned' = owned \cup {p}
            /\ content' = [content EXCEPT ![p] = Unwritten]
        BY <1>3, <2>1, <2>2, <2>4, BitmapAssumption DEF pager_allocate_page, p, Pages
      <3>2. TypeOK'
        BY <1>3, <2>1, <3>1 DEF pager_allocate_page, PagerInv, TypeOK
      <3>3. FileIsCurrent'
        BY <1>0, <1>3, <3>1 DEF pager_allocate_page, PagerInv, TypeOK, FileIsCurrent
      <3>4. QED
        BY <1>3, <2>1, <3>1, <3>2, <3>3 DEF pager_allocate_page, PagerInv, Sound
    <2>5. QED
      BY <2>3, <2>4
  <1>4. ASSUME NEW p \in Pages, FreeOwnedPage(p) PROVE PagerInv'
    <2>1. p \in 2 .. BitmapBits - 1 /\ pg' = [pg EXCEPT !.bitmap = @ \ {p}]
      BY <1>0, <1>4, BitmapAssumption DEF FreeOwnedPage, pager_free_page
    <2>2. pg' \in Pagers /\ Sound(pg')
      BY <1>0, <2>1 DEF Pagers, Sound
    <2>3. owned' \subseteq pg'.bitmap
      BY <1>0, <1>4, <2>1 DEF FreeOwnedPage, PagerInv, Pagers
    <2>4. TypeOK' /\ FileIsCurrent'
      BY <1>4, <2>2 DEF FreeOwnedPage, PagerInv, TypeOK, FileIsCurrent
    <2>5. QED
      BY <1>4, <2>2, <2>3, <2>4 DEF FreeOwnedPage, PagerInv, Sound
  <1>5. ASSUME NEW p \in Pages, NEW d \in Data, pager_write_page(p, d) PROVE PagerInv'
    <2>1. p \in pg.bitmap
      BY <1>0, <1>5 DEF pager_write_page, PagerInv, Sound
    <2>2. pg' = pg
      BY <1>0, <1>5, <2>1 DEF pager_write_page, MarkWritten, Sound
    <2>3. TypeOK'
      BY <1>5, <2>2 DEF pager_write_page, PagerInv, TypeOK
    <2>4. FileIsCurrent'
      BY <1>0, <1>5 DEF pager_write_page, PagerInv, TypeOK, FileIsCurrent
    <2>5. QED
      BY <1>5, <2>2, <2>3, <2>4 DEF pager_write_page, PagerInv, Sound
  <1>6. CASE Crash
    <2>1. TypeOK' /\ FileIsCurrent'
      BY <1>6 DEF Crash, PagerInv, TypeOK, FileIsCurrent
    <2>2. QED
      BY <1>6, <2>1 DEF Crash, PagerInv, Sound
  <1>7. CASE UNCHANGED vars
    BY <1>7 DEF vars, PagerInv, TypeOK, FileIsCurrent, Sound
  <1>8. QED
    BY <1>1, <1>2, <1>3, <1>4, <1>5, <1>6, <1>7 DEF Next

LEMMA PagerInvHolds == Spec => []PagerInv
  BY PagerInvInit, PagerInvNext, PTL DEF Spec

(* Type correctness of the pager. *)
THEOREM PagerTypeCorrect == Spec => []TypeOK
  <1>1. PagerInv => TypeOK
    BY DEF PagerInv
  <1>2. QED
    BY <1>1, PagerInvHolds, PTL

(* A page in use is never handed out a second time, across closes, reopens  *)
(* and crashes.                                                             *)
THEOREM PagesArePinned == Spec => []OwnedArePinned
  <1>1. PagerInv => OwnedArePinned
    BY DEF PagerInv, OwnedArePinned, Sound
  <1>2. QED
    BY <1>1, PagerInvHolds, PTL

(* What was last written to a page in use is what is read from it, across   *)
(* closes, reopens and crashes.                                             *)
THEOREM PagerReadsLatest == Spec => []ReadsLatestWrite
  <1>1. ASSUME PagerInv PROVE ReadsLatestWrite
    <2> SUFFICES ASSUME isOpen, NEW p \in owned \cup {1}, content[p] # Unwritten
                 PROVE  pager_read_page(p) = content[p]
      BY DEF ReadsLatestWrite
    <2>1. p \in pg.bitmap /\ p \in Nat
      BY <1>1, BitmapAssumption DEF PagerInv, Sound, TypeOK
    <2>2. InFile(pg, p)
      BY <1>1, <2>1 DEF InFile, PagerInv, Sound
    <2>3. QED
      BY <1>1, <2>2 DEF pager_read_page, PagerInv, FileIsCurrent
  <1>2. QED
    BY <1>1, PagerInvHolds, PTL
=============================================================================
