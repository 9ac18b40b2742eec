------------------------------ MODULE TableStore ------------------------------
(***************************************************************************)
(* Tables of the custom SQL engine (src/sql_engine.c): a catalog of tables *)
(* kept in memory and written whole to page 1, one chain of row pages per  *)
(* table, and an index whose entries point into that chain.                *)
(*                                                                         *)
(* A row is the value of its one column, indexed or not; a record takes    *)
(* RowSize[row] units of a page that holds DataSize.  An index is the set  *)
(* of entries that RowIndex promises, on the one page a tree of so few     *)
(* entries has.  UPDATE and DELETE free the chain and append the rows that *)
(* remain one by one, so a statement is several steps; nothing but its own *)
(* next step, a failing trigger or a crash can come between them.          *)
(***************************************************************************)
EXTENDS PagerOps, Sequences, SequencesExt

CONSTANTS
    Tables,    \* table names
    Unique,    \* tables whose column is UNIQUE
    Rows,      \* column values
    Null,      \* the NULL value, which conflicts with nothing
    RowSize,   \* record size of each row
    DataSize,  \* ROW_PAGE_DATA_SIZE, in the same units
    MaxRows    \* bound: rows each table may get

ASSUME RowsAssumption ==
    /\ Unique \subseteq Tables /\ MaxRows \in [Tables -> Nat]
    /\ RowSize \in [Rows -> 1 .. DataSize]

VARIABLES
    isOpen,   \* the catalog is open
    pg,       \* the pager: bitmap and page_count
    header,   \* what the header page holds of them
    disk,     \* page contents
    catalog,  \* g_catalog: first_row_page, last_row_page, index root (0: none)
    page1,    \* the catalog page
    stmt,     \* the statement under way
    torn,     \* history: pages linked by an append that a crash cut short
    logical   \* history: rows the finished statements leave in each table

vars == <<isOpen, pg, header, disk, catalog, page1, stmt, torn, logical>>

RowPage(next, rows) == [next |-> next, rows |-> rows, entries |-> {}]
IndexPage(entries)  == [next |-> 0, rows |-> <<>>, entries |-> entries]
Blank               == RowPage(0, <<>>)   \* row_page_init, or a page of zeros

\* Table, as far as it is modelled.
Entry(first, last, root) == [first |-> first, last |-> last, root |-> root]

NoTables == [t \in {} |-> 0]
Idle     == [op |-> "none"]

-----------------------------------------------------------------------------
(* The database under a statement's hands: a record of the four parts.      *)

Db == [pg |-> pg, disk |-> disk, catalog |-> catalog, page1 |-> page1]

Becomes(db) ==
    /\ pg' = db.pg
    /\ disk' = db.disk
    /\ catalog' = db.catalog
    /\ page1' = db.page1
    /\ torn' = {p \in torn : db.disk[p] = disk[p]}

Read(db, p) == IF InFile(db.pg, p) THEN db.disk[p] ELSE Blank

WritePage(db, p, page) ==
    [[db EXCEPT !.disk[p] = page] EXCEPT !.pg = MarkWritten(@, p)]

SetEntry(db, t, entry) == [db EXCEPT !.catalog[t] = entry]

\* row_page_next: a link outside the file is not a link.
row_page_next(db, p) ==
    LET next == Read(db, p).next IN IF InFile(db.pg, next) THEN next ELSE 0

\* The pages from p on; a walk that loops is cut off after BitmapBits pages.
Chain(db, p) ==
    LET walk[n \in 0 .. BitmapBits] ==
            [q \in Pages |-> IF n = 0 \/ q = 0 THEN <<>>
                             ELSE <<q>> \o walk[n - 1][row_page_next(db, q)]]
    IN  walk[BitmapBits][p]

read_all_rows(db, t) ==
    LET chain == Chain(db, db.catalog[t].first)
    IN  FlattenSeq([i \in 1 .. Len(chain) |-> Read(db, chain[i]).rows])

Used(rows) == FoldLeft(LAMBDA sum, row : sum + RowSize[row], 0, rows)

\* last_row_page is not persisted.
catalog_write_page(db) ==
    [db EXCEPT !.page1 = [t \in DOMAIN db.catalog |->
        [first |-> db.catalog[t].first, root |-> db.catalog[t].root]]]

catalog_read_page(saved) ==
    [t \in DOMAIN saved |-> Entry(saved[t].first, saved[t].first, saved[t].root)]

-----------------------------------------------------------------------------
(* Row chains and indexes. *)

\* Mutant: the tail is looked for no further than last_row_page.
MutTailOf(db, t) == db.catalog[t].last

\* A reopened catalog knows only the first page, so the tail is searched for.
TailOf(db, t) == Last(Chain(db, db.catalog[t].last))

\* Mutant: the link a page had before it was freed survives.
MutNewRowPage(db, q, row) == RowPage(Read(db, q).next, <<row>>)

\* row_page_init and the first record.
NewRowPage(db, q, row) == RowPage(0, <<row>>)

\* row_page_append: the record goes to the tail of the chain, to a new page
\* when the tail is full, to a first page when there is none.
row_page_append(db, t, row) ==
    LET q     == AllocatedPage(db.pg)
        alloc == [db EXCEPT !.pg = MarkAllocated(@)]
        tail  == TailOf(db, t)
        rows  == Read(db, tail).rows
        entry == db.catalog[t]
        first == SetEntry(WritePage(alloc, q, NewRowPage(db, q, row)),
                          t, Entry(q, q, entry.root))
        fits  == SetEntry(WritePage(db, tail, RowPage(0, Append(rows, row))),
                          t, Entry(entry.first, tail, entry.root))
        next  == SetEntry(WritePage(WritePage(alloc, tail, RowPage(q, rows)),
                                    q, NewRowPage(db, q, row)),
                          t, Entry(entry.first, q, entry.root))
        Done(d, loc) == [ok |-> TRUE, db |-> catalog_write_page(d), loc |-> loc]
        Fail(d)      == [ok |-> FALSE, db |-> d, loc |-> <<0, 0>>]
    IN  IF entry.last = 0
        THEN IF q < 0 THEN Fail(db) ELSE Done(first, <<q, 1>>)
        ELSE IF Used(rows) + RowSize[row] <= DataSize THEN Done(fits, <<tail, Len(rows) + 1>>)
        ELSE IF q < 0 THEN Fail(SetEntry(db, t, Entry(entry.first, tail, entry.root)))
        ELSE Done(next, <<q, 1>>)

indexes_add_row(db, t, row, loc) ==
    LET root == db.catalog[t].root
    IN  IF root = 0 THEN db
        ELSE WritePage(db, root, IndexPage(Read(db, root).entries \cup {<<row, loc>>}))

\* catalog_insert ignores a failed append.
catalog_insert(db, t, row) ==
    LET r == row_page_append(db, t, row)
    IN  IF r.ok THEN indexes_add_row(r.db, t, row, r.loc) ELSE r.db

FreeAll(db, pages) == [db EXCEPT !.pg.bitmap = @ \ pages]

free_row_pages(db, t) ==
    SetEntry(FreeAll(db, ToSet(Chain(db, db.catalog[t].first))),
             t, Entry(0, 0, db.catalog[t].root))

FreeIndex(db, t) ==
    LET entry == db.catalog[t]
    IN  IF entry.root = 0 THEN db
        ELSE SetEntry(FreeAll(db, {entry.root}), t, Entry(entry.first, entry.last, 0))

\* btree_create for table t; without a free page there is no index.
NewIndex(db, t, entries) ==
    LET q     == AllocatedPage(db.pg)
        entry == db.catalog[t]
    IN  IF q < 0 THEN db
        ELSE SetEntry(WritePage([db EXCEPT !.pg = MarkAllocated(@)], q, IndexPage(entries)),
                      t, Entry(entry.first, entry.last, q))

\* Mutant: the entries of the rows that are about to move stay.
MutIndexesReset(db, t) == db

indexes_reset(db, t) ==
    IF db.catalog[t].root = 0 THEN db ELSE NewIndex(FreeIndex(db, t), t, {})

\* index_build_from_rows: an entry for every row of the chain.
RowEntries(db, t) ==
    UNION {{<<Read(db, p).rows[i], <<p, i>>>> : i \in DOMAIN Read(db, p).rows} :
              p \in ToSet(Chain(db, db.catalog[t].first))}

-----------------------------------------------------------------------------
(* Statements.  All of them but the first run on an open, idle database.    *)

Ready == isOpen /\ stmt = Idle

catalog_open ==
    /\ ~isOpen
    /\ isOpen' = TRUE
    /\ pg' = header
    /\ catalog' = catalog_read_page(page1)
    /\ UNCHANGED <<header, disk, page1, stmt, torn, logical>>

catalog_close ==
    /\ Ready
    /\ isOpen' = FALSE
    /\ page1' = catalog_write_page(Db).page1
    /\ header' = pg
    /\ catalog' = NoTables
    /\ UNCHANGED <<pg, disk, stmt, torn, logical>>

catalog_create_table(t) ==
    LET new == [u \in DOMAIN catalog \cup {t} |->
                   IF u = t THEN Entry(0, 0, 0) ELSE catalog[u]]
    IN  /\ Ready
        /\ t \notin DOMAIN catalog
        /\ Becomes(catalog_write_page([Db EXCEPT !.catalog = new]))
        /\ logical' = [logical EXCEPT ![t] = <<>>]
        /\ UNCHANGED <<isOpen, header, stmt>>

\* Mutant: the pages of the table's index are not freed.
MutDropTable(t) ==
    LET freed == free_row_pages(Db, t)
        rest  == [u \in DOMAIN catalog \ {t} |-> catalog[u]]
    IN  /\ Ready
        /\ t \in DOMAIN catalog
        /\ Becomes(catalog_write_page([freed EXCEPT !.catalog = rest]))
        /\ logical' = [logical EXCEPT ![t] = <<>>]
        /\ UNCHANGED <<isOpen, header, stmt>>

execute_drop_table(t) ==
    LET freed == FreeIndex(free_row_pages(Db, t), t)
        rest  == [u \in DOMAIN catalog \ {t} |-> catalog[u]]
    IN  /\ Ready
        /\ t \in DOMAIN catalog
        /\ Becomes(catalog_write_page([freed EXCEPT !.catalog = rest]))
        /\ logical' = [logical EXCEPT ![t] = <<>>]
        /\ UNCHANGED <<isOpen, header, stmt>>

execute_create_index(t) ==
    /\ Ready
    /\ t \in DOMAIN catalog
    /\ catalog[t].root = 0
    /\ FreePages(pg) # {}
    /\ Becomes(catalog_write_page(NewIndex(Db, t, RowEntries(Db, t))))
    /\ UNCHANGED <<isOpen, header, stmt, logical>>

execute_drop_index(t) ==
    /\ Ready
    /\ t \in DOMAIN catalog
    /\ catalog[t].root # 0
    /\ Becomes(catalog_write_page(FreeIndex(Db, t)))
    /\ UNCHANGED <<isOpen, header, stmt, logical>>

\* constraints_check_new_row
Conflicts(t, row) ==
    t \in Unique /\ row # Null /\ row \in ToSet(read_all_rows(Db, t))

\* Mutant: a new value is compared with the stored rows, not with the others.
MutRowSetConflicts(t, rows) ==
    LET old == read_all_rows(Db, t)
    IN  t \in Unique
        /\ \E i, j \in DOMAIN rows : i # j /\ rows[i] = old[j] /\ rows[i] # Null

\* constraints_check_row_set
RowSetConflicts(t, rows) ==
    t \in Unique /\ \E i, j \in DOMAIN rows : i # j /\ rows[i] = rows[j] /\ rows[i] # Null

\* INSERT, whose result does not depend on catalog_insert.
Insert(t, row) ==
    /\ Ready
    /\ t \in DOMAIN catalog
    /\ Len(read_all_rows(Db, t)) < MaxRows[t]
    /\ ~Conflicts(t, row)
    /\ Becomes(catalog_insert(Db, t, row))
    /\ logical' = [logical EXCEPT ![t] = Append(@, row)]
    /\ UNCHANGED <<isOpen, header, stmt>>

\* UPDATE and DELETE, once their rows are read, matched and checked; even a
\* statement that matches nothing rewrites the chain.
BeginRewrite(t, rows, matched) ==
    /\ Ready
    /\ Becomes(indexes_reset(free_row_pages(Db, t), t))
    /\ stmt' = [op |-> "rewrite", table |-> t, todo |-> rows, goal |-> rows,
                matched |-> matched]
    /\ UNCHANGED <<isOpen, header, logical>>

execute_update(t, old, new) ==
    LET rows == read_all_rows(Db, t)
        hits == {i \in DOMAIN rows : rows[i] = old}
        set  == [i \in DOMAIN rows |-> IF i \in hits THEN new ELSE rows[i]]
    IN  /\ t \in DOMAIN catalog
        /\ ~RowSetConflicts(t, set)
        /\ BeginRewrite(t, set, hits)

\* The rows that a DELETE does not match, in order.
Unmatched(rows, old) ==
    LET kept[n \in 0 .. Len(rows)] ==
            IF n = 0 THEN <<>>
            ELSE IF rows[n] = old THEN kept[n - 1] ELSE Append(kept[n - 1], rows[n])
    IN  kept[Len(rows)]

execute_delete(t, old) ==
    /\ t \in DOMAIN catalog
    /\ BeginRewrite(t, Unmatched(read_all_rows(Db, t), old), {})

RewriteRow ==
    /\ stmt.op = "rewrite"
    /\ stmt.todo # <<>>
    /\ Becomes(catalog_insert(Db, stmt.table, Head(stmt.todo)))
    /\ stmt' = [stmt EXCEPT !.todo = Tail(@)]
    /\ UNCHANGED <<isOpen, header, logical>>

FinishRewrite ==
    /\ stmt.op = "rewrite"
    /\ stmt.todo = <<>>
    /\ Becomes(catalog_write_page(Db))
    /\ stmt' = Idle
    /\ logical' = [logical EXCEPT ![stmt.table] = stmt.goal]
    /\ UNCHANGED <<isOpen, header>>

\* INSERT ... SELECT from u: the result is complete before the first insert.
execute_insert_select(t, u) ==
    /\ Ready
    /\ t \in DOMAIN catalog /\ u \in DOMAIN catalog
    /\ Len(read_all_rows(Db, t)) + Len(read_all_rows(Db, u)) <= MaxRows[t]
    /\ stmt' = [op |-> "insert", table |-> t, todo |-> read_all_rows(Db, u)]
    /\ UNCHANGED <<isOpen, header, torn, logical, pg, disk, catalog, page1>>

InsertSelectRow ==
    LET t == stmt.table
    IN  /\ stmt.op = "insert"
        /\ stmt.todo # <<>>
        /\ ~Conflicts(t, Head(stmt.todo))
        /\ Becomes(catalog_insert(Db, t, Head(stmt.todo)))
        /\ logical' = [logical EXCEPT ![t] = Append(@, Head(stmt.todo))]
        /\ stmt' = [stmt EXCEPT !.todo = Tail(@)]
        /\ UNCHANGED <<isOpen, header>>

\* All rows are in, or a row is rejected: the rows before it stay.
FinishInsertSelect ==
    /\ stmt.op = "insert"
    /\ \/ stmt.todo = <<>> /\ Becomes(catalog_write_page(Db))
       \/ stmt.todo # <<>> /\ Conflicts(stmt.table, Head(stmt.todo)) /\ Becomes(Db)
    /\ stmt' = Idle
    /\ UNCHANGED <<isOpen, header, logical>>

\* An AFTER UPDATE row trigger fails for the row just stored: the statement
\* returns at once.
AfterTriggerFails ==
    /\ stmt.op = "rewrite"
    /\ Len(stmt.goal) - Len(stmt.todo) \in stmt.matched
    /\ stmt' = Idle
    /\ UNCHANGED <<isOpen, header, torn, logical, pg, disk, catalog, page1>>

\* The process dies between two steps; page contents are in the file.
Crash ==
    /\ isOpen
    /\ isOpen' = FALSE
    /\ catalog' = NoTables
    /\ stmt' = Idle
    /\ UNCHANGED <<pg, header, disk, page1, torn, logical>>

\* The row that the statement under way, or an INSERT, appends next.
Appends(t, row) ==
    /\ t \in DOMAIN catalog
    /\ IF stmt = Idle
       THEN Len(read_all_rows(Db, t)) < MaxRows[t]
       ELSE stmt.table = t /\ stmt.todo # <<>> /\ row = Head(stmt.todo)
    /\ stmt.op # "rewrite" => ~Conflicts(t, row)

\* The process dies within row_page_append: before the catalog page is
\* written, or between the link to a new page and that page.
CrashInAppend(t, row) ==
    LET r    == row_page_append(Db, t, row)
        tail == TailOf(Db, t)
    IN  /\ isOpen
        /\ Appends(t, row)
        /\ r.ok
        /\ \/ disk' = r.db.disk /\ torn' = {p \in torn : disk'[p] = disk[p]}
           \/ /\ catalog[t].last # 0
              /\ Used(Read(Db, tail).rows) + RowSize[row] > DataSize
              /\ disk' = [disk EXCEPT ![tail] = RowPage(r.loc[1], Read(Db, tail).rows)]
              /\ torn' = torn \cup {tail}
        /\ isOpen' = FALSE
        /\ catalog' = NoTables
        /\ stmt' = Idle
        /\ UNCHANGED <<pg, header, page1, logical>>

-----------------------------------------------------------------------------
Init ==
    /\ isOpen = FALSE
    /\ pg = NewPager
    /\ header = NewPager
    /\ disk = [p \in Pages |-> Blank]
    /\ catalog = NoTables
    /\ page1 = NoTables
    /\ stmt = Idle
    /\ torn = {}
    /\ logical = [t \in Tables |-> <<>>]

RowStatements ==
    \/ catalog_open
    \/ catalog_close
    \/ \E t \in Tables : catalog_create_table(t)
    \/ \E t \in Tables : execute_drop_table(t)
    \/ \E t \in Tables, row \in Rows : Insert(t, row)
    \/ \E t \in Tables, old, new \in Rows : execute_update(t, old, new)
    \/ \E t \in Tables, old \in Rows : execute_delete(t, old)
    \/ \E t, u \in Tables : execute_insert_select(t, u)
    \/ RewriteRow
    \/ FinishRewrite
    \/ InsertSelectRow
    \/ FinishInsertSelect

IndexStatements ==
    \E t \in Tables : execute_create_index(t) \/ execute_drop_index(t)

Next        == RowStatements \/ IndexStatements
TriggerNext == RowStatements \/ AfterTriggerFails
CrashNext   == RowStatements \/ Crash \/ \E t \in Tables, row \in Rows : CrashInAppend(t, row)

Spec        == Init /\ [][Next]_vars
TriggerSpec == Init /\ [][TriggerNext]_vars
CrashSpec   == Init /\ [][CrashNext]_vars

-----------------------------------------------------------------------------
(* A statement that runs to its end leaves exactly the rows it stands for,  *)
(* in order, and loses none on the way: what is stored and what is still to *)
(* be appended make up the goal at every step, across page splits, clean    *)
(* restarts and reuse of freed pages by other tables.                       *)
RowsAreKept ==
    isOpen => \A t \in DOMAIN catalog :
        IF stmt.op = "rewrite" /\ stmt.table = t
        THEN read_all_rows(Db, t) \o stmt.todo = stmt.goal
        ELSE read_all_rows(Db, t) = logical[t]

(* An index has one entry for each row of its table at the row's present    *)
(* place and no other, which is what lets a lookup replace a full scan.     *)
IndexMatchesRows ==
    isOpen => \A t \in DOMAIN catalog :
        catalog[t].root # 0 => Read(Db, catalog[t].root).entries = RowEntries(Db, t)

(* The bitmap is exactly the header, the catalog page, the row chains and   *)
(* the index pages, and no page serves twice: no statement leaks a page or  *)
(* takes one that another table uses.                                       *)
PagesHaveOneOwner ==
    LET Owned(t) == Chain(Db, catalog[t].first)
                    \o IF catalog[t].root = 0 THEN <<>> ELSE <<catalog[t].root>>
    IN  isOpen =>
        /\ pg.bitmap = {0, 1} \cup UNION {ToSet(Owned(t)) : t \in DOMAIN catalog}
        /\ \A t \in DOMAIN catalog : IsInjective(Owned(t))
        /\ \A t, u \in DOMAIN catalog : t # u => ToSet(Owned(t)) \cap ToSet(Owned(u)) = {}

(* A UNIQUE column never holds a value twice, whatever mix of INSERT,       *)
(* INSERT ... SELECT and UPDATE filled it.                                  *)
UniqueIsKept ==
    isOpen => \A t \in DOMAIN catalog \cap Unique :
        LET rows == read_all_rows(Db, t)
        IN  \A i, j \in DOMAIN rows : rows[i] = rows[j] /\ rows[i] # Null => i = j

(* A scan of a row chain ends, even after crashes that gave pages in use    *)
(* back to the allocator: chains may come to share pages, but only a chain  *)
(* through a link that a crash separated from the page it names can loop.   *)
ChainsEnd ==
    isOpen => \A t \in DOMAIN catalog :
        LET chain == Chain(Db, catalog[t].first)
        IN  IsInjective(chain) \/ ToSet(chain) \cap torn # {}

(* "a rejected UPDATE leaves the stored data untouched" (sql_engine.c:3953).*)
RejectedUpdateKeepsRows ==
    Ready => \A t \in DOMAIN catalog : read_all_rows(Db, t) = logical[t]
=============================================================================
