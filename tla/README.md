# A TLA+ model of MyPL

MyPL is a small PL/SQL-like language: a lexer, parser, type checker and code
generator in front of a stack VM, and a SQL engine of its own that keeps tables,
indexes, views and sequences in one paged file (an SQLite driver is an
alternative back end). Everything runs in one thread of one process; what makes
it hard is *re-entrance* (a SQL statement fires trigger bodies, which are code
that runs SQL statements), *several copies of the same fact* (VM caches, catalog
in memory, catalog page, bitmap, header page) and *partial progress* when a
step fails or the process dies.

This directory holds TLA+ modules for the storage side, for what SQL statements
mean over it, for the language from its text to its run, for the memory the
machine manages, and for the code paths where VM and storage meet; the TLC
models that check them; and proofs that TLAPS checks. `PROJECT.json` lists components, runs, hazards and the source lines
behind each definition; paths in this file are relative to the repository.

- [Inventory](#inventory)
- [Modules and the code they model](#modules-and-the-code-they-model)
- [Runs](#runs)
- [Proofs](#proofs)
- [Where the code departs from its text](#where-the-code-departs-from-its-text)
- [Not modelled](#not-modelled)
- [Plan](#plan)

To repeat a run: `tlc -config X.cfg MCModule`; to repeat the proofs:
`tlapm PagerOpsProofs.tla`, `PagerProofs.tla`, `TableStoreProofs.tla`,
`SqlCatalogProofs.tla`, `DbSequencesProofs.tla`, `TriggerGuardProofs.tla`,
`VmFramesProofs.tla`, `ValueHeapProofs.tla`.

## Inventory

| component | state | operations | talks to |
|---|---|---|---|
| Pager, `src/pager.c` | bitmap and page count in memory, header page 0 in the file | open, close, allocate, free, read, write | the file; used by the catalog, row chains and B+ trees |
| B+ tree, `src/btree.c` | a root page number; nodes on pages | create, free, insert, delete, scan_eq, scan_range | pager; called by the row storage and the lookup |
| Row storage, `src/sql_engine.c` | `g_catalog` in memory, catalog page 1, a chain of row pages per table | INSERT, INSERT ... SELECT, UPDATE, DELETE, CREATE, ALTER and DROP TABLE, CREATE and DROP INDEX | pager, B+ tree; calls back into the VM for row triggers |
| SELECT, `src/sql_engine.c` | none of its own | WHERE in three-valued logic, index lookup, joins, grouping, ordering, views | row storage, B+ tree |
| Sequences, `src/vm.c`, `src/sql_engine.c` | slot cache per VM, catalog section, catalog page | create, nextval, currval, drop | VM and catalog |
| Triggers, `src/vm.c`, `src/trigger.c`, `src/chunk.c` | registry in the chunk, frames and parent VMs | register, fire (statement and row), guard, drop | VM and SQL engine, in both directions |
| VM, `src/vm.c` | value stack, frames, try stack, cursors, globals | one case per opcode; child VMs for triggers, dynamic SQL and autonomous calls | everything |
| Values, `src/value.c` | reference counts, array and record heap | retain, release, cycle collection | VM, natives |
| Natives, `src/natives.c` | `dbms_sql` cursors, `utl_file` handles, output buffer | some 150 functions | VM, files |
| SQLite driver, `src/sqlite_driver.c` | an external connection | exec, query, begin, commit, rollback, savepoints | SQLite (external) |
| Packages, `src/packages.c` | include set, package state | include preprocessing, package instantiation | compiler |
| Stored programs, `src/stored_programs.c` | a table of source texts with their dependencies | store, invalidate, recompile, load | compiler, SQL engine |
| REPL, `src/repl.c` | session source, history | a line at a time | compiler, VM |
| Lexer, parser, AST, type checker, code generator | scopes, symbol tables, the chunk | pure passes over one program | each other |

What is hard in each, and what makes it correct:

- **Pager.** The bitmap is written when the file is closed. A process that dies
  leaves the header of the last close, and the next one allocates pages that
  chains still use. *A page in use is never handed out in an orderly history,
  and reads return the last write.*
- **B+ tree.** Splits and merges at every level, duplicates on both sides of a
  separator, a fixed number of key rows. *A scan delivers exactly the entries
  inserted and not deleted; nodes stay half full; no page leaks.*
- **Row storage.** UPDATE and DELETE free a chain and append its rows again; the
  tail of a chain is not persisted; locators in an index move; a trigger may
  fail in the middle. *Statements leave exactly the rows they stand for; the
  index has one entry for each row, at its place; UNIQUE holds; every page has
  one owner; a scan ends.*
- **Sequences.** Three copies of a value, a write that may be refused when the
  catalog page is full, trigger bodies in VMs of their own. *No value is
  repeated or skipped, across failures and restarts.*
- **Triggers.** A body can reach its own table through procs, dynamic SQL and
  other tables' triggers while the outer statement holds rows it has read.
  *It never does.*
- **VM and code generator.** The compiler counts slots, the VM moves a stack
  pointer; an error anywhere cuts back to a handler; the stack may be
  reallocated at any push. *A slot number always names the compiler's local, an
  error lands in the innermost open try block with its locals intact, and no
  pointer is left behind in an old block.*
- **SELECT and views.** Two ways to the same rows (index and scan) over cells of
  mixed types, NULL as a third truth value, columns of the same name on both
  sides of a join, view texts that are read again at every use. *A statement
  delivers what its text says, by whatever path.*
- **Parser, checker, code generator.** Four passes that must agree on what a
  program is: binding strength, scopes, slots, where each jump lands and how many
  values lie there. *A program prints what its text means; an accepted program
  meets a value of a wrong kind only where null stands for one.*
- **Values.** Counts kept by hand at every move between stack, locals and
  containers, and a collector for cycles that must know every root. *Nothing is
  freed while something refers to it; what nothing leads to goes.*
- **Drivers, packages, stored programs, REPL**: see [Not modelled](#not-modelled).

## Modules and the code they model

`PagerOps` holds the pager as a record `[bitmap, page_count]` and the operators
on it; `Pager`, `BTree` and `TableStore` all extend it, so the allocator that is
proved about (`PagerOpsProofs`) is the one the trees and tables run on. `RowIndex` is the abstract
specification of an index.

    PagerOps <- Pager      <- PagerProofs, MCPager
             <- BTree      <- MCBTree          (refines RowIndex)
             <- TableStore <- MCTableStore     (uses an index as RowIndex gives it)
                           <- TableStoreProofs
             <- PagerOpsProofs                 (used by PagerProofs, TableStoreProofs)
    DbSequences            <- DbSequencesProofs, MCSequences
    TriggerGuard           <- TriggerGuardProofs, MCTriggerGuard
    VmFrames               <- VmFramesProofs, MCVmFrames
    SqlCells <- SqlWhere <- SqlSelect  \
             <- SqlCatalog              > SqlLaws <- MCSql
                        <- SqlCatalogProofs
    LangSyntax                                  \
    LangValues <- LangTypes, LangCode, LangMeaning > LangMachine <- MCPrograms
    ValueHeap              <- ValueHeapProofs     (run as it is)

**Pager** (`src/pager.c`). `pg` is the open pager, `header` the header page,
`file` the page contents. `pager_open` writes the header of a new file at once
and `pager_close` that of any file, nothing else does; `Crash` closes the file
without it. The histories `owned` and `content` say what a client may expect; a
crash withdraws the claim to pages the header does not know, because the code
makes no promise about them. Page contents are opaque. I/O errors are left out.

**BTree** (`src/btree.c`). The operators work on a record `[pg, nodes, root]` and
follow the code function by function: `insert_rec` with `LeafInsert` and
`InternalInsert` (its two halves), `delete_rec` with `rebalance_child`, the
borrows, `merge_children` and the collapse of the root, `find_leaf` and the two
scans. `Loads` is what `node_load` accepts, so a wrong pointer makes a scan fail
as it does in the code. Keys are ordered values; a locator stands for the pair
(row_page, row_offset). `KeySlots` is the number of rows of `BtNode.keys`: a key
stored beyond them lands on `children`, as the struct's layout has it, and turns
the first child pointer into garbage (modelled as 0, the pointer that does not
load). `held` is a history: the entries that are in.

**TableStore** (`src/sql_engine.c`). `catalog` is `g_catalog` (first and last row
page, index root), `page1` what the catalog page holds of it (not the last page),
`stmt` the statement under way. `Db` packs the four parts so that
`row_page_append`, `catalog_insert`, `free_row_pages` and `indexes_reset` are
operators that compose the way the C functions do. UPDATE, DELETE and
INSERT ... SELECT take one step per row. A table has one column, and an index on
it or none; an index is the set of entries of `RowIndex` on one page.
`Spec` has all statements and orderly closes; `CrashSpec` has the
statements on rows and tables and a crash between any two steps and inside
`row_page_append`, between its page writes; it leaves out CREATE and DROP INDEX,
because after a crash a chain and a tree may share a page and the one is then
read as the other, which the model does not represent;
`TriggerSpec` adds a failing AFTER UPDATE row trigger. `logical` is a history of
the rows the statements stand for; `torn` the pages whose outgoing link a crash
separated from the page it names.

**DbSequences** (`src/vm.c`, `src/sql_engine.c`). One slot cache per VM on the
stack of VMs, the catalog section in memory and the section in the file. Every
operation first loads the running VM's cache if it is not loaded, as
`sequence_ensure_loaded` does, currval too. `fits` is the answer of
`catalog_write_page`. Values are ints of `2 * IntHalf` values that wrap. `issued`
and `def` are histories; `alone` records that no trigger body has used a
sequence after one of the VMs below it had cached slots.

**TriggerGuard** (`src/vm.c`, `src/trigger.c`, `src/chunk.c`, the row loops of
`src/sql_engine.c`). The call frames and child VMs form one stack, of which only
statements under way and trigger bodies running matter. A statement goes through
`before` (BEFORE statement triggers), `read` (rows are in memory, BEFORE row
triggers), `write` (the chain is being rebuilt, AFTER row triggers), `after`
(AFTER statement triggers). A change of the table while a statement is in `read`
or `write` marks that statement stale. `Sniffed` is what `sql_trigger_info`
recognises: the constant `Kinds` says which kinds of statements the program
contains, `SelfDrop` whether it drops triggers while they run.

**VmFrames** (`src/vm.c`, `src/codegen.c`). `vm` is the part of `struct VM` that
control flow uses, with pointers as addresses so that a realloc shows. `ip` is a
place in the compiled code: the lexical scopes open there, the local count the
compiler has there, and the operands pushed above the locals. The program is not
fixed: at each place any statement may come next, and any instruction may fail.
What the compiler emits for a scope's end (pops and a jump) is one step, since it
cannot fail; pushes, calls, returns, OP_TRY and OP_END_TRY are steps of their
own. A return address and a catch address are places too. A handler that outlived
its call would raise `frame_count` over popped frames: the model ends there
(`"stale frames"`). `Exits` says which exits besides the orderly ones the program
makes: `"escape"` (return, break or continue out of a try block) and `"bare"` (the
end of a procedure without parameters reached without a return).

**SqlCells, SqlWhere, SqlSelect, SqlCatalog** (`src/sql_engine.c`,
`encode_key` of `src/btree.c`). A cell is a type and an integer: floats in
halves, texts as their place in the ordered list `Texts`. `SqlCells` has
comparison, index keys (a tag and the first bytes of a text) and coercion to a
column. `SqlWhere` has the recursive-descent parser of the WHERE clause over
tokens, with bound parameters put in their places, LIKE and the evaluation to
true, false or unknown. `SqlSelect` parses a whole SELECT and evaluates it:
source rows by index ranges or scan, views materialised recursively, joins,
aggregates by group, ORDER BY, LIMIT, and the column type that the type checker
is told. `SqlCatalog` is the state machine: `tables` and `views`, one action for
each DDL and DML statement; `rebound` and the field `fed` are histories (a view
was created under a name that a view already reads; a table with a date column
took rows from INSERT ... SELECT). A statement that reports an error changes nothing and is no
step. `SqlLaws` says what SELECT owes its readers and holds what it is compared
with: a printer of statements, Kleene's three-valued logic, joins as sets of
pairs.

**LangSyntax, LangTypes, LangValues, LangCode, LangMachine** (`src/parser.c`,
`src/ast.c`, `src/typecheck.c`, `src/value.c`, `src/natives.c`, `src/codegen.c`,
`src/vm.c`). A program goes through the phases of the compiler, one action each
(`Parse`, `Check`, `Compile`), and then runs, one action per instruction.
`LangSyntax` is the parser over tokens; a query is one token that carries its
columns and rows, since what queries mean is the SQL modules' subject.
`LangTypes` carries the checker's scopes through a program, `LangCode` its slots,
loops and cursor queries, and emits instructions whose jumps are patched as
distances to positions. `Translated(p)` is the passes one after the other. The
constant `FrontEnd` tabulates it over the programs of an instance, and the
assumption `FrontEndTranslates`, which TLC evaluates, says that it is nothing
else: the machine reads the table instead of compiling in every state.
`LangMachine` has `chunk`, `pc`, `stack` and `frame_base`, `frames`, `tries`,
`objects` (containers by identity, so that two names see one object), and
`result`, `current_row` and `sql_params`, the one result and row of the machine
and the parameters bound for it.

**LangMeaning** models no code. It is what a program means: an evaluator over the
tree with environments, in which scopes, loops, errors and OUT parameters are
what the language's documentation and tests say, with neither slots nor stack.
`RunsAsWritten`, an action property, compares the two at the step that ends a
phase or the run.

**ValueHeap** (`src/value.c`, `src/vm.c`). `heap` has the live containers with
their counts, the registry in its order and the allocations since the last
collection; `stack` and `saved` (the locals that the outermost frame copies to
`repl_locals`) are the roots. Every instruction that moves a value is an action
with its retains and releases in the code's order, and programs are arbitrary
sequences of them. `ReleaseAll` is the recursion of `value_release` and the
destructors, over a worklist: the slots of a container that goes come before the
references that wait. The collector is stated by its passes. `gc_mark_drain` is
the least set that holds the roots and is closed under slots. `gc_break_edge`
says which slots pass 1 clears: those of unmarked containers whose child is
unmarked, or *was* marked but stands earlier in the registry, since pass 1 clears
a mark when it comes by. Pass 2 frees those whose last reference was broken; the
order, which in the code is the reverse of pass 1, is left open. `MapIndexing`
says whether programs read containers out of maps.

## Runs

Fairness is assumed in one place: `LangMachine`'s specification has
`WF_vars(vm_run)`. One thread runs the loop of `vm_run`, which waits for nothing,
so an enabled instruction is executed. Without it `EveryProgramEnds` would fail
by mere stopping. All other properties are safety properties. Deadlock is checked
for the pager, the sequences, the trigger guard, the programs and the heap. The
tree, the tables and the SQL statements stop at their bound on entries and rows,
and a program run by `VmFrames` ends, so there `CHECK_DEADLOCK` is off.

| run | shows |
|---|---|
| `pager` | `OwnedArePinned`: an open pager never has a page in use, the header or the catalog page free. `ReadsLatestWrite`: owned pages read as last written, across closes and crashes. Five bitmap bits: three pages to hand out, and the allocator runs out. Two data values besides zeros, symmetric. |
| `btree` | `ScanRangeExact` (lookups of one key are its ranges from k to k), `WellFormed` (balance, occupancy, separators, leaf links), `PagesAccounted`, and `ImplementsRowIndex`, the refinement of `RowIndex`. Leaves of 2, internal nodes of 3 keys (even and odd, as the code's 90 and 99), 3 keys with 2 locators each, up to 6 entries: three levels, every split, borrow, merge and collapse. `KeySlots` is 4, one more than `InternalMax`, where the code has the same number for both (`src/btree.c:68`, `src/btree.c:366`). The run is therefore about the code's trees of up to two levels, and of three before an internal node splits; its larger trees are of a node enlarged by one key row. With the code's own number every split of an internal node overruns (departure 3 below), and no statement about scans is made for it. |
| `table_store` | `RowsAreKept`, `IndexMatchesRows`, `PagesHaveOneOwner`, `UniqueIsKept` over two tables, one UNIQUE, with a row that shares a page and one that fills it, up to three rows and one, in the eight pages that the largest such state fills. A file with fewer pages would show another thing the code does: an INSERT into a full file reports success and stores nothing (`catalog_insert` returns no result). The view `LiveView` drops what no statement can read without a crash: the header of an open file and the contents of free pages. |
| `table_crash` | `ChainsEnd`, with crashes anywhere, for tables without indexes: chains may come to share pages, but one that never passes a torn link ends. Rows fill a page each, so chains are long; five pages, so pages are reused at once. Only page structure counts (`CrashView`). |
| `table_trigger` | `RejectedUpdateKeepsRows` fails. |
| `sequences` | `CatalogIsDurable` at every nesting; `CacheCoherent`, `StorageResumes`, `AloneIsProgression` until a trigger body interferes. Two names with room for one (limits are hit), increments 1 and -3 on three-bit ints (values wrap), one level of trigger bodies, three values per sequence. |
| `trigger_guard` | `NoSelfModification` and `RowsAreCurrent` for statements the guard recognises: three tables, four triggers (row and statement level, two on one table), seven frames, which is a detour over two other tables and back. |
| `vm_frames` | `HandlersAreOpen`, `FramesTile`, `PointersInBlock`, `ErrorsReachHandlers`, `CatchOnlyCuts` for programs with orderly exits: two activations, three scopes in each (so a try in a try or in a loop, on both sides of a call), two handlers (TRY_MAX is hit), a stack of 2 slots that grows to 4 and 5 in either of two blocks and then overflows, calls with an argument below which an operand lies, and an OUT parameter. `ErrorsReachHandlers` tells two ends apart. An error that is thrown (`status` `"error"`) ends the run only outside every try block. A push that fails where the code returns INTERPRET_RUNTIME_ERROR without THROW (`src/vm.c:2085`, `src/vm.c:2199`), or a call that finds the frame array full (`src/vm.c:2242`), passes every handler (`"stack overflow"`), and does so only when the value stack or the frame array is at its cap. |
| `sql` | two table names, two view names (one of them shared), up to two columns and three rows: tables UNIQUE, PRIMARY KEY, NOT NULL with DEFAULT and a float column without constraints; literals NULL, 1, 1.5 and a date. `MaxSize` 4 counts tables, views and cells. Ints have three bits, so neighbours of literals and NULL meet the ends of the range; texts reach three letters of which a key holds two, so truncated keys collide. `RowsFitSchema` ties rows to declarations after any ALTER; `WhereMeansWhatItSays` reads back every statement of the instance, with literals and with placeholders, and compares eight WHERE trees with Kleene's logic on every row; `IndexMatchesScan` compares both paths for every column, operator and eight probes; `GroupsPartition`, `JoinKeepsSides` (over tables and views), `ViewsCompose` (a view of a view is the source under both conditions, and the type the checker infers is the type that arrives) and `ViewsEnd`. `MaxIndexConjuncts` is 2 where the code has 16, so that a WHERE of three terms passes the cap on terms tried for an index. |
| `programs` | 731 programs. Expressions of two operators in both shapes; six kinds of loops alone and in every pair, with break, continue, locals, try blocks and CASE inside; return out of each; OUT and IN OUT with one variable for two parameters, recursion; handlers in handlers, errors in calls, cursor misuse, SELECT INTO; every container operation through two names of one object; the cursor loop of `docs/language.md:107`, whose body never runs (departure 8); and variables of seven types given initialisers of every kind, most of which the checker must refuse, null and expressions of unknown type over null among them. `RunsAsWritten`: the tree is the program written, a correct program is accepted, and its output, its end and its result are those of `LangMeaning`. `HeightsAgree`: whatever path reaches an instruction, as many values lie in the frame. `NeverGoesWrong`: an accepted program is never aborted for want of a value, and meets a value of a kind its operation cannot take only where null is among the operands, which the checker lets stand for any type. (A row variable used on its own is of unknown type too; no program of the run does that.) `EveryProgramEnds`, under the fairness above. |
| `programs_rows` | a second query inside a loop over rows: `RunsAsWritten` fails. |
| `value_heap` | `CountsCoverReferences` and `CollectionIsExact` for two containers of up to two slots, one key, three stack slots and one saved local: enough for self-reference, cycles of two, a cycle hanging on a live container and the reverse, in either registry order. `MaxCount` stops building structs from a value whose count exceeds two: `StructBuild` keeps the popped references (see below), so counts would grow for ever. |

Every property of a passing run has a mutant in `PROJECT.json`: a changed
definition (named `Mut...`, next to the original) under which the run fails.

## Proofs

Constants are arbitrary within the named `ASSUME`s of the modules; bounds such
as `MaxDepth` and `MaxIssued` are arbitrary naturals, so they bound nothing.

- **PagerProofs**: type correctness, `OwnedArePinned` and `ReadsLatestWrite`, for
  every bitmap size. `PagerInv` adds what the properties leave out: both the
  open pager and the header are `Sound` (pages 0 and 1 are taken, and pages
  taken lie in the file), and while the file is closed the pages in use are in
  the *header's* bitmap. Without the last part a crash followed by an open would
  break the invariant. That the allocator finds a lowest free page
  (`PagerOpsProofs`) rests on the well-foundedness of the naturals.
- **TableStoreProofs**, after lemmas about the operators: all five invariants of the runs `table_store` and `table_crash`, for any
  tables, rows, record sizes, bitmap size and sequence of statements.
  *Without crashes* (`Spec`, and `TriggerSpec` for the two invariants that a
  failing trigger leaves alone): `PagesHaveOneOwner`, `IndexMatchesRows`,
  `UniqueIsKept` and `RowsAreKept`. None of them is inductive, and all of them
  speak of walks. `Good(db, c, own)` says of page contents what the walks would
  find: `c[t]` is the sequence of pages of table `t`, each linked to the next,
  `own` gives each page in use its table and its place (`<<t, i>>` the i-th page
  of the chain, `<<t, 0>>` the index), and each page in use has such a place. An
  owner that is a function makes chains free of repetition and disjoint at once,
  and no statement on `t` has to look at the other tables (`Spares`, `Kept`).
  From it `GoodReads` derives that a scan finds exactly `c[t]` and that
  `last_row_page`, the tail or the first page, leads to the tail.
  `Shows(db, rows)` adds that every page of a chain counts for a row and that
  each index has the entries of its chain: `rows` is what scans return.
  Each operation has a lemma of the form "it shows the rows so changed"
  (`ShowsInsert`, `ShowsRewrite`, `ShowsReopened`, ...), `catalog_insert` with
  the four outcomes of `row_page_append`: first page, room in the tail, new
  tail, no page left. The invariant `Now(rows)` says this of `Cur`, which is the
  open database or the one that `catalog_open` will build from the header and
  page 1, so that a close and an open need no case of their own; and that the
  rows of a UNIQUE table *together with those still to be appended* repeat
  nothing, since UPDATE checks before it empties the chain. `StoredRows` adds that
  stored rows and rows to come make up the goal.
  `RowsAreKept` alone has a hypothesis, `Roomy`: the bitmap has a page for each
  row that `MaxRows` allows and for each index, and two more. Without it it
  is false, since `catalog_insert` ignores an append that found no page; the
  constants of `table_store` satisfy it with no page to spare (6 places and 2
  pages in 8). `RoomForRow` derives from it that the append finds a page: the
  pages in use are at different places of a finite set, and the next place of `t`
  is not taken. The other three hold in a full file too.
  *With crashes* (`CrashSpec`): `ChainsEnd`. Chains may share pages then, so
  nothing can be said about owners; what survives is a rank: every page gets, when
  it is linked to, a rank higher than all before, and every link not in `torn` leads
  upwards (`LinksGoUp`). A page that is linked to has no successor at that time,
  which is why reuse does not break the order. A walk that follows such links
  repeats no page (`GoingUpEnds`).
- **SqlCatalogProofs**: `RowsFitSchema` and `ViewsGrounded`, for any declarations,
  columns that ALTER TABLE adds, literals, SELECTs of views and bounds. The one
  assumption on constants, `SchemaConstants`, says what the parsers can deliver:
  a declared column has one of the six types of `sql_parse_type`, and a literal
  or a DEFAULT is NULL, an int, a bool, a float or a string
  (`sql_parse_literal_cell`), never a date, which only coercion makes.
  `RowsFitSchema` is not inductive: a DEFAULT stands in for a NULL after the new
  cell was coerced, so a date column keeps dates only because its DEFAULT was
  coerced when the column was declared; and a missing DEFAULT must read as NULL,
  because ALTER TABLE ADD fills old rows with it. `TablesFit` therefore types every
  cell and says of a column what `Stored` made of it (`ColumnFits`), of a cell
  what its column allows (`CellFits`) and of the key columns that no two rows
  agree (`KeysDiffer`); there is one lemma per statement. UPDATE compares each
  pair of rows in one order only; that this is enough needs `ConflictSymmetric`,
  since `cell_compare` chooses how to compare by the types of both sides. For INSERT ... SELECT,
  where each row is checked against those accepted before it, `AcceptedFits` goes
  over the accepted prefixes by a least counterexample. Where a DELETE or a
  dropped column renumbers rows or cells, the new places map to old ones one to
  one (`Ordered`, `Removed`).
  `ViewsGrounded` says that among any stored views one reads none of the others;
  it is inductive as it stands. A cycle of views or an endless chain would be a
  set without such a view, so it is the reason for `ViewsEnd`, whose recursive
  resolution stays with TLC. No run lists it; put into `Sql.cfg` it holds in all
  of its states.
- **DbSequencesProofs**: type correctness, `CatalogIsDurable` (inductive as it
  stands), `CacheCoherent`, `StorageResumes` and `AloneIsProgression`, for every
  set of names, limits, int width and nesting. `CacheCoherent` needs
  `NothingAbove`: VMs above the running one have no slots. `SequenceInv` then
  ties the last value issued to the file and the file to the running cache, so
  that the next value follows from the last; a progression grows by one element
  (`ProgressionGrows`).
- **TriggerGuardProofs**: type correctness of the stack, `NoSelfModification` and
  `RowsAreCurrent` for any set of tables and triggers and any nesting, under
  `Recognised` (statements the guard knows, no trigger dropped while it runs).
  `GuardInv` says in addition that the triggers on the stack are still
  registered, which is what the guard's test of a frame needs.
- **VmFramesProofs**: all six properties of the `vm_frames` run, for any nesting of
  calls, scopes and errors, any capacities and any addresses `realloc` may choose,
  under `Orderly` (`Exits = {}`: no return, break or continue leaves a try block
  and no procedure falls off its end; with those exits some of them fail, see
  the next section). None of them is inductive: what an error does depends on
  every place saved in a frame or a handler. `IInv` therefore says of each of
  them what the compiler's bookkeeping says of the current one. `Nested`: the
  scopes of a place start above the floors of those around them.
  `CallersNested`: so do those of every caller, which has a slot for the result.
  `HandlersLead`: each handler holds the heights, the frame count and the catch
  block of one open try block. `HandlersOrdered` and `TriesHandled`: they are in
  the order of the try blocks, and each open try block has one. `Bounded`:
  frames and handlers stay in the stack's block. `Tile`: the bases of the
  activations follow from the locals and operands of their callers, as long as
  the program runs. `InvHandlers` derives the equation of `HandlersAreOpen` from
  the three facts about handlers. Each action then preserves the parts it
  disturbs; `Throw` followed by `vm_catch`, which may cut off any number of
  activations, is the longest case.
  What ends a run is an invariant of its own beside `IInv`. `Overflows` says that a
  run ended by a failure that was not thrown has its value stack or its frame array
  at the cap, since `push` fails only then (`PushFailsWhenFull`). With it
  `OnlyCapsPassATry` says of both ends what `ErrorsReachHandlers` does.
- **ValueHeapProofs**: `CountsCoverReferences`, for any addresses, keys, bounds and
  sequence of instructions, under `~MapIndexing` (with it the property is false:
  `ValueHeapMap.cfg`, see the next section). It says too little to survive an
  instruction: half way through one, references are owed that lie nowhere (those
  on a worklist, what a pop has taken) and a container's slot still shows a value
  that has been released. `Covers(h, P, ext)` is what holds in between. `ext`
  tallies the references from outside the heap, whoever has them; the containers
  in `P` are pinned, and the references in their slots are counted in `ext` instead,
  so that their slots may be changed while something else is released (`Pin`,
  `Unpin`, `Exchange`). What is referred to is live, and every live container counts
  at least its references. The inductive invariant `HeapInv` is this with `P` empty and
  `ext` the tally of `stack` and `saved`. `ReleaseStep` and `ReleaseAllCovers`
  show that releasing a list gives up exactly that list's references, by going down
  the worklist: `after` in `ReleaseAll` is a function on an initial segment of the
  naturals, so that it exists and has its values is shown by a least
  counterexample (`RecursionExists`). `BrokenCovers` and `SweepCovers` do the
  collector: an edge is taken off the count of its child when it is cleared, and a
  container is freed when the edges taken off were all it counted. The lemma does
  not use that marks are right, so that what is freed is unreferenced does not
  depend on it, nor on the order of pass 2. Each instruction has a lemma;
  `MapBuild`, which sets pair after pair while the rest is still on the stack, goes
  by stages (`Holding`).

Model-checked only: `BTree` and its refinement of `RowIndex`, what SELECT computes
(the other properties of the run `sql`) and the language (their functions are
recursive over trees and programs, and that such an operator is right for every
tree or program is an induction that the provers at hand cannot do),
`CollectionIsExact` (what the marks reach, and that the rest is freed), and
`EveryProgramEnds` (liveness). `TableStore` and `ValueHeap` can
be proved about because walks, concatenations, selections and worklists are
recursive functions there, whose existence and values the proofs derive by
induction on their length (`WalkExists`, `FlatExists`, `KeptExists`,
`RecursionExists`).

## Where the code departs from its text

The first two are runs of `PROJECT.json` with a finding: the first loses rows of a
loop silently, the second loses stored rows, and both lie inside what the passing
runs are about. Departures 3 to 7 each have a configuration in this directory that
TLC finds violated, with the command given at the top; their passing runs exclude the case
by a constant or a history variable (`KeySlots`, `alone`, `Kinds`, `Exits`,
`MapIndexing`), and the runs are kept to one per question the project asks. The
rest have no configuration.

1. `programs_rows`: the VM has one `result_handle` and one `row_handle`. A query
   or a loop over rows inside a loop over rows ends the outer loop after one turn
   and its iterator then reads 0, against the comment at `src/codegen.c:918`.
2. `table_trigger`: an AFTER UPDATE row trigger that fails ends `execute_update`
   in the middle of the rebuild; the remaining rows are gone, although the
   comment at `src/sql_engine.c:3953` says that a rejected UPDATE changes nothing.
3. `BTreeOverrun.cfg` (MCBTree): `insert_rec` puts the hundredth key into
   `keys[99]` before it splits an internal node, and so overwrites the first child
   pointers: `ScanEqExact` fails. The comment at `src/btree.c:20` says of string keys
   that "scans may yield extra candidates, never fewer".
4. `SequencesTriggerDup.cfg` (MCSequences): a trigger body in a child VM calls
   nextval; the parent hands out the same value from its cache
   (`docs/language.md:149`, `src/vm.c:933`).
5. `TriggerGuardDdl.cfg` (MCTriggerGuard): `sql_trigger_info` reads `IF` as the
   table of DROP TABLE IF EXISTS and does not know ALTER TABLE; both pass the guard
   of `docs/language.md:141`. With `SelfDrop = TRUE` the model also shows that a
   trigger that drops itself is no longer recognised.
6. `VmHandlers.cfg` (MCVmFrames): return, break and continue are compiled without
   OP_END_TRY, so a try block left that way keeps its handler; a later error in
   the caller runs the dead catch block. The comments at `src/vm.c:3288` and
   `src/vm.c:1055` take for granted that a try block ends at OP_END_TRY or in its
   handler.
7. `ValueHeapMap.cfg` (ValueHeap): OP_INDEX_GET on a map retains in `map_get` and
   releases again after the push (`src/vm.c:2628`), so the stack's reference is not
   counted: a container read out of a map is freed under the map's slot when the
   variable that took it goes. The array and row branches of the same instruction
   do not do this.
8. `docs/language.md:107` opens a cursor and then loops `while c%found { fetch ... }`.
   OP_CURSOR_OPEN sets `found` to 0 (`src/vm.c:2900`) and only a fetch sets it, so
   the body never runs. `LangMeaning` follows the code here, and the program is
   among those of `programs`.
9. An index lookup with a literal beyond the int range (`src/sql_engine.c:2553`)
   misses rows a scan finds, though `docs/engines.md:40` says "results always match
   a full scan" and `src/sql_engine.c:2455` "the result is identical to a full
   scan". `IndexMatchesScan` is stated for literals inside the range.
10. INSERT ... SELECT does not coerce to date columns (`src/sql_engine.c:3521`), so
   they take what `docs/language.md:82` says is "refused at write time".
   `RowsFitSchema` excepts such tables (`fed`).
11. ALTER TABLE ADD with NOT NULL DEFAULT NULL backfills NULL, and a second PRIMARY
   KEY can be added; the comment at `src/sql_engine.c:4412` speaks of rejecting
   "combinations that would violate the new column's own constraints".
   `RowsFitSchema` excepts the former.
12. A view cycle can be built (create v and w over it, drop v, create v over w) and
   then resolution never ends, though the comment at `src/sql_engine.c:4766` says
   "the catalog cannot contain reference cycles". `ViewsEnd` and `ViewsGrounded`
   are stated for histories without that (`rebound`).
13. Views can be joined, on either side (`src/sql_engine.c:2712`);
   `docs/engines.md:59` says "Views cannot be JOIN targets". `JoinKeepsSides` covers
   such joins.

Where the models exclude something the code does and no text contradicts:

- A procedure without parameters that falls off its end returns the slot below
  its frame and writes a slot that was never made room for (`Exits = {"bare"}`
  breaks `PointersInBlock`); overflow of the frame array passes every handler,
  as do the pushes that fail without THROW, while other overflow of the value stack
  is caught.
- A CASE keeps its selector on the stack without the compiler counting it:
  continue, break and a catching handler inside a branch are one slot off. The
  programs of the run leave a CASE by its end.
- The parser and checker accept `!=`, `<=` and `>=`, the code generator does not.
  The init variable of a counting loop stays visible to the checker after the
  loop, and a catch variable shadows an outer one already in the try block.
  Comparisons are typed bool and yield an int; an uninitialised string holds the
  int 0; `float f = 3` stores an int; null may be assigned to containers, which
  then fail at their first use; `delete` is typed as the key. The table of cursor
  queries is not scoped (`src/codegen.c:521`). Of two equal keys in a map literal
  the first wins.
- `StructBuild` retains each field and does not release the popped value
  (`src/vm.c:3177`), so a container in a struct's field is never freed, not even
  at exit.
- OP_SQL frees the old result before the query runs; when a driver's query fails
  the handle is left and freed again (`src/vm.c:2109`; the custom engine never
  fails there, it answers no rows).
- ORDER BY and LIMIT are ignored with aggregates.

Differences in wording without a run: `docs/language.md:37` has a form of parameters that does not
parse; `docs/engines.md:55` says that deletion from
an index does not rebalance (the code does); the comment before
`sequence_ensure_loaded` speaks of a V5 catalog where the code writes V6.

## Not modelled

- Lexer, diagnostics, OS layer, option parsing, terminal handling: pure functions
  of a text, or I/O.
- Of the language: packages, triggers as declarations, subtypes, FORALL, struct
  methods, autonomous procedures, dynamic SQL, the REPL's incremental compiler,
  16-bit operands of jumps. Of the values: counts of strings, globals and bound
  parameters as roots, `dbms_*` state, and the collector running out of memory.
- Of SQL: the values of :new and :old; several indexes on one table.
- The catalog page's byte format and its six versions.
- SQLite itself, its driver, and trigger emulation for it.
- Packages' include order, stored programs and their recompilation, `utl_file`.
- I/O errors: the pager ignores the results of most reads and writes, and what a
  short write leaves depends on the file system.
- Overwritten memory beyond what the struct's layout determines.

## Plan

1. **Child VMs** (`src/vm.c`, `src/natives.c`): `dbms_sql` slots, autonomous calls in
   their own driver, and how an error unwinds through child VMs.
2. **CatalogPage**: the byte budget of page 1 and the truncated index section
   (`src/sql_engine.c:517`), as a codec whose round trip is checked.
3. **TableStore with BTree**: an index root that moves inside a statement and is
   written with a later one.
4. **Stored programs and packages**: dependency order, include-once, invalidation
   and recompilation; the REPL's session after a failed line.
