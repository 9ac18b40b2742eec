-------------------------------- MODULE BTree --------------------------------
(***************************************************************************)
(* The page-based B+ tree of src/btree.c: one node per page, leaves linked *)
(* left to right, duplicates allowed, deletion that borrows from or merges *)
(* with a sibling.  A key is the encoded key, a locator stands for the     *)
(* pair (row_page, row_offset).                                            *)
(*                                                                         *)
(* Operations are functions on a tree record [pg, nodes, root]; a page     *)
(* that holds no node has NoNode, and the content a freed page keeps is    *)
(* dropped, since WellFormed shows that no pointer to it is left.          *)
(***************************************************************************)
EXTENDS PagerOps, Sequences, SequencesExt, FiniteSetsExt

CONSTANTS
    LeafMax,      \* BTREE_LEAF_MAX
    InternalMax,  \* BTREE_INTERNAL_MAX
    KeySlots,     \* rows of BtNode.keys, which is InternalMax in the code
    Keys,         \* encoded keys
    Locs,         \* row locators
    MaxEntries    \* bound: entries in the tree

ASSUME BTreeAssumption == Keys \subseteq Nat /\ Locs \subseteq Nat
                          /\ LeafMax > 1 /\ InternalMax > 1

LeafMin     == LeafMax \div 2
InternalMin == InternalMax \div 2

NoNode == [leaf |-> FALSE, keys |-> <<>>, vals |-> <<>>, next |-> 0]

Leaf(keys, locs, next) == [leaf |-> TRUE, keys |-> keys, vals |-> locs, next |-> next]

Internal(keys, children) ==
    [leaf |-> FALSE, keys |-> keys, vals |-> children, next |-> 0]

\* node_load: the page lies in the file, has a node type and a legal count.
Loads(T, p) ==
    /\ InFile(T.pg, p)
    /\ T.nodes[p].leaf \/ T.nodes[p].vals # <<>>
    /\ Len(T.nodes[p].keys) <= IF T.nodes[p].leaf THEN LeafMax ELSE InternalMax

node_store(T, p, node) == [T EXCEPT !.nodes[p] = node, !.pg = MarkWritten(@, p)]

\* Mutant: an emptied node's page is not given back to the pager.
MutFreeNode(T, p) == [T EXCEPT !.nodes[p] = NoNode]

FreeNode(T, p) == [T EXCEPT !.nodes[p] = NoNode, !.pg = pager_free_page(@, p)]

Allocated(T) == [T EXCEPT !.pg = MarkAllocated(@)]

\* Index of the first key that is greater than (not less than) key.
UpperPos(keys, key) == Min({i \in 1..Len(keys) : keys[i] > key} \cup {Len(keys) + 1})
LowerPos(keys, key) == Min({i \in 1..Len(keys) : keys[i] >= key} \cup {Len(keys) + 1})

\* btree_create: a single empty leaf.
btree_create(pg, nodes) ==
    LET p == AllocatedPage(pg)
    IN  node_store([pg |-> MarkAllocated(pg), nodes |-> nodes, root |-> p],
                   p, Leaf(<<>>, <<>>, 0))

-----------------------------------------------------------------------------
(* Insert.  A result says whether the call succeeded and, after a split,    *)
(* which separator and which new right-hand page the caller must add.       *)

Done(T)                == [tree |-> T, ok |-> TRUE, split |-> FALSE, key |-> 0, page |-> 0]
Failed(T)              == [tree |-> T, ok |-> FALSE, split |-> FALSE, key |-> 0, page |-> 0]
SplitOff(T, key, page) == [tree |-> T, ok |-> TRUE, split |-> TRUE, key |-> key, page |-> page]

\* Mutant: the right half of a split starts one entry too late.
MutLeafInsert(T, p, key, loc) ==
    LET node  == T.nodes[p]
        pos   == UpperPos(node.keys, key)
        keys  == InsertAt(node.keys, pos, key)
        locs  == InsertAt(node.vals, pos, loc)
        n     == Len(keys)
        split == n \div 2
        q     == AllocatedPage(T.pg)
        right == Leaf(SubSeq(keys, split + 2, n), SubSeq(locs, split + 2, n), node.next)
        left  == Leaf(SubSeq(keys, 1, split), SubSeq(locs, 1, split), q)
    IN  IF n <= LeafMax THEN Done(node_store(T, p, Leaf(keys, locs, node.next)))
        ELSE IF q < 0 THEN Failed(T)
        ELSE SplitOff(node_store(node_store(Allocated(T), p, left), q, right),
                      right.keys[1], q)

LeafInsert(T, p, key, loc) ==
    LET node  == T.nodes[p]
        pos   == UpperPos(node.keys, key)
        keys  == InsertAt(node.keys, pos, key)
        locs  == InsertAt(node.vals, pos, loc)
        n     == Len(keys)
        split == n \div 2
        q     == AllocatedPage(T.pg)
        right == Leaf(SubSeq(keys, split + 1, n), SubSeq(locs, split + 1, n), node.next)
        left  == Leaf(SubSeq(keys, 1, split), SubSeq(locs, 1, split), q)
    IN  IF n <= LeafMax THEN Done(node_store(T, p, Leaf(keys, locs, node.next)))
        ELSE IF q < 0 THEN Failed(T)
        ELSE SplitOff(node_store(node_store(Allocated(T), p, left), q, right),
                      right.keys[1], q)

\* One key more than BtNode.keys has rows lands on the first children.
Overrun(keys, children) ==
    IF Len(keys) > KeySlots THEN [children EXCEPT ![1] = 0] ELSE children

\* Adds separator key and child to the right of child i of node.
InternalInsert(T, p, node, i, key, child) ==
    LET keys  == InsertAt(node.keys, i, key)
        kids  == Overrun(keys, InsertAt(node.vals, i + 1, child))
        n     == Len(keys)
        mid   == n \div 2
        q     == AllocatedPage(T.pg)
        left  == Internal(SubSeq(keys, 1, mid), SubSeq(kids, 1, mid + 1))
        right == Internal(SubSeq(keys, mid + 2, n), SubSeq(kids, mid + 2, n + 1))
    IN  IF n <= InternalMax THEN Done(node_store(T, p, Internal(keys, kids)))
        ELSE IF q < 0 THEN Failed(T)
        ELSE SplitOff(node_store(node_store(Allocated(T), p, left), q, right),
                      keys[mid + 1], q)

RECURSIVE insert_rec(_, _, _, _)
insert_rec(T, p, key, loc) ==
    IF ~Loads(T, p) THEN Failed(T)
    ELSE IF T.nodes[p].leaf THEN LeafInsert(T, p, key, loc)
    ELSE LET node == T.nodes[p]
             i    == LowerPos(node.keys, key)
             r    == insert_rec(T, node.vals[i], key, loc)
         IN  IF ~r.split THEN r
             ELSE InternalInsert(r.tree, p, node, i, r.key, r.page)

\* The root's split grows the tree by one level.
btree_insert(T, key, loc) ==
    LET r == insert_rec(T, T.root, key, loc)
        q == AllocatedPage(r.tree.pg)
    IN  IF ~r.split THEN r
        ELSE IF q < 0 THEN Failed(r.tree)
        ELSE Done([node_store(Allocated(r.tree), q,
                              Internal(<<r.key>>, <<T.root, r.page>>)) EXCEPT !.root = q])

-----------------------------------------------------------------------------
(* Delete. *)

borrow_from_left(T, p, parent, idx, left, child) ==
    LET ln    == Len(left.keys)
        lv    == Len(left.vals)
        moved == IF child.leaf THEN left.keys[ln] ELSE parent.keys[idx - 1]
        child2 == [child EXCEPT !.keys = <<moved>> \o @, !.vals = <<left.vals[lv]>> \o @]
        left2  == [left EXCEPT !.keys = SubSeq(@, 1, ln - 1), !.vals = SubSeq(@, 1, lv - 1)]
        parent2 == [parent EXCEPT !.keys[idx - 1] = left.keys[ln]]
    IN  node_store(node_store(node_store(T, parent.vals[idx - 1], left2),
                              parent.vals[idx], child2), p, parent2)

\* Mutant: the separator is not refreshed.
MutBorrowFromRight(T, p, parent, idx, child, right) ==
    LET moved  == IF child.leaf THEN right.keys[1] ELSE parent.keys[idx]
        child2 == [child EXCEPT !.keys = Append(@, moved), !.vals = Append(@, right.vals[1])]
        right2 == [right EXCEPT !.keys = Tail(@), !.vals = Tail(@)]
    IN  node_store(node_store(T, parent.vals[idx], child2), parent.vals[idx + 1], right2)

borrow_from_right(T, p, parent, idx, child, right) ==
    LET moved  == IF child.leaf THEN right.keys[1] ELSE parent.keys[idx]
        child2 == [child EXCEPT !.keys = Append(@, moved), !.vals = Append(@, right.vals[1])]
        right2 == [right EXCEPT !.keys = Tail(@), !.vals = Tail(@)]
        parent2 == [parent EXCEPT !.keys[idx] =
                       IF child.leaf THEN right2.keys[1] ELSE right.keys[1]]
    IN  node_store(node_store(node_store(T, parent.vals[idx], child2),
                              parent.vals[idx + 1], right2), p, parent2)

internal_remove_separator(node, sep) ==
    Internal(RemoveAt(node.keys, sep), RemoveAt(node.vals, sep + 1))

\* Mutant: the leaf chain is not relinked around the freed right page.
MutMergeChildren(T, p, parent, sep) ==
    LET lp == parent.vals[sep]
        rp == parent.vals[sep + 1]
        left == T.nodes[lp]
        right == T.nodes[rp]
        merged == IF left.leaf
                  THEN Leaf(left.keys \o right.keys, left.vals \o right.vals, left.next)
                  ELSE Internal(Append(left.keys, parent.keys[sep]) \o right.keys,
                                left.vals \o right.vals)
    IN  FreeNode(node_store(node_store(T, lp, merged), p,
                            internal_remove_separator(parent, sep)), rp)

\* Folds child sep + 1 into child sep.
merge_children(T, p, parent, sep) ==
    LET lp == parent.vals[sep]
        rp == parent.vals[sep + 1]
        left == T.nodes[lp]
        right == T.nodes[rp]
        merged == IF left.leaf
                  THEN Leaf(left.keys \o right.keys, left.vals \o right.vals, right.next)
                  ELSE Internal(Append(left.keys, parent.keys[sep]) \o right.keys,
                                left.vals \o right.vals)
    IN  IF ~Loads(T, lp) \/ ~Loads(T, rp) THEN T
        ELSE FreeNode(node_store(node_store(T, lp, merged), p,
                                 internal_remove_separator(parent, sep)), rp)

CanSpare(T, p, min) == Loads(T, p) /\ Len(T.nodes[p].keys) > min

\* Restores minimum occupancy of child idx of the internal node on page p.
rebalance_child(T, p, idx) ==
    LET parent == T.nodes[p]
        n      == Len(parent.keys)
        child  == T.nodes[parent.vals[idx]]
        min    == IF child.leaf THEN LeafMin ELSE InternalMin
        Sib(j) == T.nodes[parent.vals[j]]
    IN  IF ~Loads(T, parent.vals[idx]) \/ Len(child.keys) >= min THEN T
        ELSE IF idx > 1 /\ CanSpare(T, parent.vals[idx - 1], min)
             THEN borrow_from_left(T, p, parent, idx, Sib(idx - 1), child)
        ELSE IF idx <= n /\ CanSpare(T, parent.vals[idx + 1], min)
             THEN borrow_from_right(T, p, parent, idx, child, Sib(idx + 1))
        ELSE IF idx > 1 THEN merge_children(T, p, parent, idx - 1)
        ELSE IF n > 0   THEN merge_children(T, p, parent, idx)
        ELSE T

\* Children that may hold key: the leftmost candidate and those to its right
\* as long as the separator behind them does not exceed the key.
Candidates(node, key) ==
    LET first == LowerPos(node.keys, key)
    IN  {i \in first .. Len(node.vals) :
            \A j \in first .. i : node.vals[j] > 0 /\ (j > 1 => node.keys[j - 1] <= key)}

LeafDelete(T, p, key, loc) ==
    LET node == T.nodes[p]
        hits == {i \in 1 .. UpperPos(node.keys, key) - 1 :
                    node.keys[i] = key /\ node.vals[i] = loc}
        new  == Leaf(RemoveAt(node.keys, Min(hits)), RemoveAt(node.vals, Min(hits)), node.next)
    IN  IF hits = {} THEN [tree |-> T, ok |-> FALSE, underflow |-> FALSE]
        ELSE [tree |-> node_store(T, p, new), ok |-> TRUE,
              underflow |-> Len(new.keys) < LeafMin]

RECURSIVE delete_rec(_, _, _, _)
delete_rec(T, p, key, loc) ==
    IF ~Loads(T, p) THEN [tree |-> T, ok |-> FALSE, underflow |-> FALSE]
    ELSE IF T.nodes[p].leaf THEN LeafDelete(T, p, key, loc)
    ELSE LET node == T.nodes[p]
             hits == {i \in Candidates(node, key) :
                         delete_rec(T, node.vals[i], key, loc).ok}
             i    == Min(hits)
             r    == delete_rec(T, node.vals[i], key, loc)
             T2   == IF r.underflow THEN rebalance_child(r.tree, p, i) ELSE r.tree
         IN  IF hits = {} THEN [tree |-> T, ok |-> FALSE, underflow |-> FALSE]
             ELSE [tree |-> T2, ok |-> TRUE,
                   underflow |-> Len(T2.nodes[p].keys) < InternalMin]

\* While merges have left the root without separators its only child takes over.
RECURSIVE CollapseRoot(_)
CollapseRoot(T) ==
    IF ~Loads(T, T.root) \/ T.nodes[T.root].leaf \/ T.nodes[T.root].keys # <<>>
       \/ T.nodes[T.root].vals[1] <= 0 THEN T
    ELSE CollapseRoot([FreeNode(T, T.root) EXCEPT !.root = T.nodes[T.root].vals[1]])

btree_delete(T, key, loc) ==
    LET r == delete_rec(T, T.root, key, loc)
    IN  IF r.ok THEN CollapseRoot(r.tree) ELSE r.tree

RECURSIVE free_pages_rec(_, _)
free_pages_rec(T, p) ==
    IF ~Loads(T, p) THEN T
    ELSE FreeNode(IF T.nodes[p].leaf THEN T
                  ELSE FoldLeft(free_pages_rec, T, T.nodes[p].vals), p)

-----------------------------------------------------------------------------
(* Scans: a scan is [ok, entries]; ok is FALSE where the code returns -1.   *)

\* A range [lo, loIncl, hi, hiIncl]; a missing bound is the empty sequence.
Before(rg, k) == rg.lo # <<>> /\ (k < rg.lo[1] \/ (k = rg.lo[1] /\ ~rg.loIncl))
Beyond(rg, k) == rg.hi # <<>> /\ (k > rg.hi[1] \/ (k = rg.hi[1] /\ ~rg.hiIncl))

\* find_leaf for a bound, leftmost_leaf without one; 0 stands for corruption.
RECURSIVE LeafFor(_, _, _)
LeafFor(T, p, bound) ==
    IF ~Loads(T, p) THEN 0
    ELSE IF T.nodes[p].leaf THEN p
    ELSE LET node == T.nodes[p]
         IN  LeafFor(T, node.vals[IF bound = <<>> THEN 1 ELSE LowerPos(node.keys, bound[1])],
                     bound)

Entries(node) == [i \in 1..Len(node.keys) |-> <<node.keys[i], node.vals[i]>>]

NoScan == [ok |-> FALSE, entries |-> <<>>]

\* The entries from leaf p on, in chain order, up to the first one beyond the
\* range; the leaf of that entry is the last one loaded.
RECURSIVE ScanFrom(_, _, _)
ScanFrom(T, p, rg) ==
    IF p = 0 THEN [ok |-> TRUE, entries |-> <<>>]
    ELSE IF ~Loads(T, p) THEN NoScan
    ELSE LET seen == SelectSeq(Entries(T.nodes[p]), LAMBDA e : ~Before(rg, e[1]))
             stop == SelectInSeq(seen, LAMBDA e : Beyond(rg, e[1]))
             rest == ScanFrom(T, T.nodes[p].next, rg)
         IN  IF stop > 0 THEN [ok |-> TRUE, entries |-> SubSeq(seen, 1, stop - 1)]
             ELSE [ok |-> rest.ok, entries |-> seen \o rest.entries]

btree_scan_range(T, rg) ==
    LET p == LeafFor(T, T.root, rg.lo)
    IN  IF p = 0 THEN NoScan ELSE ScanFrom(T, p, rg)

\* Skips smaller keys and stops at the first greater one.
btree_scan_eq(T, key) ==
    btree_scan_range(T, [lo |-> <<key>>, loIncl |-> TRUE, hi |-> <<key>>, hiIncl |-> TRUE])

-----------------------------------------------------------------------------
VARIABLES
    tree,   \* the tree under test, with the pager and pages it lives in
    held    \* history: entries that a successful call put in and none took out

vars == <<tree, held>>

Init ==
    /\ tree = btree_create(NewPager, [p \in Pages |-> NoNode])
    /\ held = {}

\* A row has one entry in an index, so no pair is inserted twice.
Insert(k, l) ==
    LET r == btree_insert(tree, k, l)
    IN  /\ Cardinality(held) < MaxEntries
        /\ <<k, l>> \notin held
        /\ tree' = r.tree
        /\ held' = IF r.ok THEN held \cup {<<k, l>>} ELSE held

Delete(k, l) ==
    /\ <<k, l>> \in held
    /\ tree' = btree_delete(tree, k, l)
    /\ held' = held \ {<<k, l>>}

\* indexes_reset: the old pages are freed and an empty tree is created.
Reset ==
    LET freed == free_pages_rec(tree, tree.root)
    IN  /\ held # {}
        /\ tree' = btree_create(freed.pg, freed.nodes)
        /\ held' = {}

Next ==
    \/ \E k \in Keys, l \in Locs : Insert(k, l)
    \/ \E k \in Keys, l \in Locs : Delete(k, l)
    \/ Reset

Spec == Init /\ [][Next]_vars

-----------------------------------------------------------------------------
\* Pages below p, each as often as it is pointed to.
RECURSIVE PagesBelow(_, _)
PagesBelow(T, p) ==
    IF T.nodes[p].leaf THEN <<p>>
    ELSE <<p>> \o FlattenSeq([i \in 1..Len(T.nodes[p].vals) |-> PagesBelow(T, T.nodes[p].vals[i])])

RECURSIVE LeavesBelow(_, _)
LeavesBelow(T, p) ==
    IF T.nodes[p].leaf THEN <<p>>
    ELSE FlattenSeq([i \in 1..Len(T.nodes[p].vals) |-> LeavesBelow(T, T.nodes[p].vals[i])])

RECURSIVE Height(_, _)
Height(T, p) == IF T.nodes[p].leaf THEN 1 ELSE 1 + Height(T, T.nodes[p].vals[1])

\* Keys below p lie between the separators around p; no separator is implied
\* for a duplicate, which may sit on either side of its own separator.
RECURSIVE InBounds(_, _, _, _)
InBounds(T, p, lo, hi) ==
    LET node == T.nodes[p]
        n    == Len(node.keys)
    IN  /\ \A i \in 1..n : lo <= node.keys[i] /\ node.keys[i] <= hi
        /\ \A i \in 1..n - 1 : node.keys[i] <= node.keys[i + 1]
        /\ ~node.leaf =>
              \A i \in 1..n + 1 :
                 InBounds(T, node.vals[i], IF i = 1 THEN lo ELSE node.keys[i - 1],
                                           IF i = n + 1 THEN hi ELSE node.keys[i])

RECURSIVE EntriesBelow(_, _)
EntriesBelow(T, p) ==
    IF T.nodes[p].leaf THEN ToSet(Entries(T.nodes[p]))
    ELSE UNION {EntriesBelow(T, T.nodes[p].vals[i]) : i \in 1..Len(T.nodes[p].vals)}

InRange(e, rg) ==
    /\ rg.lo # <<>> => e[1] > rg.lo[1] \/ (e[1] = rg.lo[1] /\ rg.loIncl)
    /\ rg.hi # <<>> => e[1] < rg.hi[1] \/ (e[1] = rg.hi[1] /\ rg.hiIncl)

Bounds == {<<>>} \cup {<<k>> : k \in Keys}

\* The ranges index lookups ask for: one bound, or an inclusive floor and a
\* ceiling; the flag of a missing bound is not read.
Ranges == {rg \in [lo : Bounds, loIncl : BOOLEAN, hi : Bounds, hiIncl : BOOLEAN] :
              /\ rg.loIncl \/ (rg.lo # <<>> /\ rg.hi = <<>>)
              /\ rg.hiIncl \/ rg.hi # <<>>}

\* A scan delivers exactly the set S, in key order and nothing twice.
Delivers(scan, S) ==
    /\ scan.ok
    /\ ToSet(scan.entries) = S
    /\ Len(scan.entries) = Cardinality(S)
    /\ \A i \in 1..Len(scan.entries) - 1 : scan.entries[i][1] <= scan.entries[i + 1][1]

-----------------------------------------------------------------------------
(* btree_scan_eq delivers every entry of its key and no other, however      *)
(* duplicates spread over leaves and separators (find_leaf goes to the      *)
(* leftmost candidate and the leaf chain supplies the rest).                *)
ScanEqExact ==
    \A k \in Keys : Delivers(btree_scan_eq(tree, k), {e \in held : e[1] = k})

(* btree_scan_range delivers exactly the entries between its bounds, for    *)
(* every combination of open, closed and missing bounds that lookups use.   *)
ScanRangeExact ==
    \A rg \in Ranges : Delivers(btree_scan_range(tree, rg), {e \in held : InRange(e, rg)})

(* "Deletion keeps every node but the root at least half full" (btree.c:27),*)
(* all leaves are at one depth, keys lie between their separators, and the  *)
(* leaf chain visits the leaves from left to right.                         *)
WellFormed ==
    LET root   == tree.root
        below  == ToSet(PagesBelow(tree, root)) \ {root}
        leaves == LeavesBelow(tree, root)
        bound  == Max(Keys)
    IN  /\ \A p \in below : LET node == tree.nodes[p] IN
              /\ Len(node.keys) >= IF node.leaf THEN LeafMin ELSE InternalMin
              /\ Loads(tree, p)
        /\ \A p \in below \cup {root} : ~tree.nodes[p].leaf =>
              \A i \in 1..Len(tree.nodes[p].vals) :
                 Height(tree, tree.nodes[p].vals[i]) = Height(tree, tree.nodes[p].vals[1])
        /\ InBounds(tree, root, 0, bound)
        /\ \A i \in 1..Len(leaves) :
              tree.nodes[leaves[i]].next = IF i = Len(leaves) THEN 0 ELSE leaves[i + 1]

(* The pages of the tree are exactly the pages allocated for it, each       *)
(* pointed to once: no split, merge or collapse leaks or shares a page.     *)
PagesAccounted ==
    LET pages == PagesBelow(tree, tree.root)
    IN  /\ ToSet(pages) = tree.pg.bitmap \ {0, 1}
        /\ Len(pages) = Cardinality(ToSet(pages))

(* The tree implements the set of entries that RowIndex promises.           *)
Index == INSTANCE RowIndex WITH entries <- EntriesBelow(tree, tree.root)

ImplementsRowIndex == Index!Spec
=============================================================================
