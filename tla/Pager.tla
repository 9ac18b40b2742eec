-------------------------------- MODULE Pager --------------------------------
(***************************************************************************)
(* The pager of src/pager.c: page reads and writes go straight to the      *)
(* file, while the allocation bitmap and the page count live in memory and *)
(* reach the header page only when a file is created and when it is        *)
(* closed.  A crash therefore brings back the header of the last close.    *)
(*                                                                         *)
(* What a client may rely on is kept in two history variables: the pages   *)
(* it owns and what it last wrote to them.                                 *)
(***************************************************************************)
EXTENDS PagerOps

CONSTANTS
    Data,    \* page contents
    Zeros    \* the all-zero page

ASSUME ZerosAssumption == Zeros \in Data

Unwritten == "unwritten"

ASSUME UnwrittenAssumption == Unwritten \notin Data

VARIABLES
    isOpen,   \* a process has the file open
    pg,       \* its pager: bitmap and page_count
    header,   \* bitmap and page_count in the file's header page
    exists,   \* the file has a header page
    file,     \* contents of the pages; absent ones read as zeros
    owned,    \* history: pages allocated and not freed that must survive
    content   \* history: what was last written to an owned page

vars == <<isOpen, pg, header, exists, file, owned, content>>

-----------------------------------------------------------------------------
\* A file of size 0 is initialised, any other has its header read.
pager_open ==
    /\ ~isOpen
    /\ isOpen' = TRUE
    /\ pg' = IF exists THEN header ELSE NewPager
    /\ header' = pg'
    /\ exists' = TRUE
    /\ UNCHANGED <<file, owned, content>>

\* Mutant: the bitmap is saved, the grown page count is not.
MutPagerClose ==
    /\ isOpen
    /\ isOpen' = FALSE
    /\ header' = [pg EXCEPT !.page_count = header.page_count]
    /\ UNCHANGED <<pg, exists, file, owned, content>>

pager_close ==
    /\ isOpen
    /\ isOpen' = FALSE
    /\ header' = pg
    /\ UNCHANGED <<pg, exists, file, owned, content>>

pager_allocate_page ==
    /\ isOpen
    /\ pg' = MarkAllocated(pg)
    /\ LET p == AllocatedPage(pg)
       IN  IF p < 0 THEN UNCHANGED <<owned, content>>
           ELSE /\ owned' = owned \cup {p}
                /\ content' = [content EXCEPT ![p] = Unwritten]
    /\ UNCHANGED <<isOpen, header, exists, file>>

\* Clients free only pages they own (row chains and index trees).
FreeOwnedPage(p) ==
    /\ isOpen
    /\ p \in owned
    /\ pg' = pager_free_page(pg, p)
    /\ owned' = owned \ {p}
    /\ UNCHANGED <<isOpen, header, exists, file, content>>

\* Clients write their own pages and the catalog page.
pager_write_page(p, d) ==
    /\ isOpen
    /\ p \in owned \cup {1}
    /\ pg' = MarkWritten(pg, p)
    /\ file' = [file EXCEPT ![p] = d]
    /\ content' = [content EXCEPT ![p] = d]
    /\ UNCHANGED <<isOpen, header, exists, owned>>

\* The process dies.  Page contents are in the file; the bitmap is not.  A
\* page that the header does not know of can no longer be relied on.
Crash ==
    /\ isOpen
    /\ isOpen' = FALSE
    /\ owned' = owned \cap header.bitmap
    /\ UNCHANGED <<pg, header, exists, file, content>>

\* The value pager_read_page returns.
pager_read_page(p) == IF InFile(pg, p) THEN file[p] ELSE Zeros

-----------------------------------------------------------------------------
Init ==
    /\ isOpen = FALSE
    /\ pg = NewPager
    /\ header = NewPager
    /\ exists = FALSE
    /\ file = [p \in Pages |-> Zeros]
    /\ owned = {}
    /\ content = [p \in Pages |-> Unwritten]

Next ==
    \/ pager_open
    \/ pager_close
    \/ pager_allocate_page
    \/ \E p \in Pages : FreeOwnedPage(p)
    \/ \E p \in Pages, d \in Data : pager_write_page(p, d)
    \/ Crash

Spec == Init /\ [][Next]_vars

-----------------------------------------------------------------------------
(* Every variable has its type. *)
TypeOK ==
    /\ isOpen \in BOOLEAN
    /\ pg \in Pagers
    /\ header \in Pagers
    /\ exists \in BOOLEAN
    /\ file \in [Pages -> Data]
    /\ owned \in SUBSET (2 .. BitmapBits - 1)
    /\ content \in [Pages -> Data \cup {Unwritten}]

(* While the file is open every page that a client owns has its bit set, so *)
(* pager_allocate_page never hands out a page that is in use, nor the       *)
(* header or the catalog page, whatever was freed, closed or lost before.   *)
OwnedArePinned == isOpen => owned \cup {0, 1} \subseteq pg.bitmap

(* A client reads back what it last wrote to a page it owns or to the       *)
(* catalog page, across clean restarts and across crashes.                  *)
ReadsLatestWrite ==
    isOpen => \A p \in owned \cup {1} :
                 content[p] # Unwritten => pager_read_page(p) = content[p]
=============================================================================
