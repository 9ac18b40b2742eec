----------------------------- MODULE MCTableStore -----------------------------
(* Two tables, the first with a UNIQUE column.  One row fits a page with    *)
(* another of its kind, the other fills a page by itself.                   *)
EXTENDS TableStore

MCTables  == {"t", "u"}
MCUnique  == {"t"}
MCNull    == 0
MCRows    == 0 .. 1
MCRowSize == [r \in MCRows |-> IF r = 1 THEN 2 ELSE 1]

MCMaxRows == [t \in MCTables |-> IF t = "t" THEN 3 ELSE 1]

\* Long chains in a small file: every row has a page of its own, and rows
\* are not told apart.
MCCrashRows    == {0}
MCCrashRowSize == [r \in MCCrashRows |-> 2]
MCCrashMaxRows == [t \in MCTables |-> IF t = "t" THEN 2 ELSE 1]

\* Only a failing trigger looks at the matched rows.
StmtView == IF stmt.op = "rewrite" THEN <<stmt.table, stmt.todo, stmt.goal>> ELSE stmt

\* States are told apart by what a statement can reach: without a crash the
\* header of an open file and the contents of free pages are never read.
LiveView ==
    <<isOpen, IF isOpen THEN pg ELSE header, [p \in pg.bitmap |-> disk[p]],
      catalog, page1, StmtView, logical>>

\* With crashes all page contents count, and the history does not.
CrashView ==
    <<isOpen, IF isOpen THEN pg ELSE header, header, disk, catalog, page1, torn,
      IF stmt.op = "rewrite" THEN <<stmt.table, stmt.todo>> ELSE stmt>>
=============================================================================
