------------------------------ MODULE PagerOps -------------------------------
(***************************************************************************)
(* The page allocator of src/pager.c as operators on a pager record        *)
(* [bitmap, page_count]: the pages whose bit is set, and the number of     *)
(* pages the pager believes the file to have.  Page 0 is the file header,  *)
(* page 1 the catalog.                                                     *)
(***************************************************************************)
EXTENDS Integers

CONSTANT BitmapBits  \* BITMAP_BITS: pages the header's bitmap can describe

ASSUME BitmapAssumption == BitmapBits \in Nat /\ BitmapBits >= 2

Pages == 0 .. BitmapBits - 1

Pagers == [bitmap : SUBSET Pages, page_count : 0 .. BitmapBits]

\* A new file: header and catalog page reserved.
NewPager == [bitmap |-> {0, 1}, page_count |-> 2]

\* Mutant: the scan runs one bit past the bitmap.
MutFreePages(pg) == {i \in 1 .. BitmapBits : i \notin pg.bitmap}

\* Pages that pager_allocate_page may return; its scan starts at page 1.
FreePages(pg) == {i \in 1 .. BitmapBits - 1 : i \notin pg.bitmap}

LowestFree(pg) == CHOOSE i \in FreePages(pg) : \A j \in FreePages(pg) : i <= j

\* pager_allocate_page returns the lowest free page, or -1 when none is left.
AllocatedPage(pg) == IF FreePages(pg) = {} THEN -1 ELSE LowestFree(pg)

\* Mutant: a page below page_count is returned without setting its bit.
MutMarkAllocated(pg) ==
    LET p == AllocatedPage(pg)
    IN  IF p < pg.page_count THEN pg
        ELSE [bitmap |-> pg.bitmap \cup {p}, page_count |-> p + 1]

MarkAllocated(pg) ==
    LET p == AllocatedPage(pg)
    IN  IF p < 0 THEN pg
        ELSE [bitmap |-> pg.bitmap \cup {p},
              page_count |-> IF p >= pg.page_count THEN p + 1 ELSE pg.page_count]

\* pager_free_page ignores the header page and pages outside the bitmap.
pager_free_page(pg, p) ==
    IF p <= 0 \/ p >= BitmapBits THEN pg ELSE [pg EXCEPT !.bitmap = @ \ {p}]

\* pager_write_page on a page past the end extends the file and claims it.
MarkWritten(pg, p) ==
    IF p < pg.page_count THEN pg
    ELSE [bitmap |-> pg.bitmap \cup {p}, page_count |-> p + 1]

\* pager_read_page sees only pages inside the file; others read as zeros.
InFile(pg, p) == 0 <= p /\ p < pg.page_count
=============================================================================
