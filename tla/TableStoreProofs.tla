--------------------------- MODULE TableStoreProofs ---------------------------
(***************************************************************************)
(* Proofs about TableStore, for any set of tables and rows, any file size  *)
(* and any sequence of statements.  First the lemmas about the operators:  *)
(* walks along page links, the rows of a chain, and what each operation    *)
(* changes; then the invariants.                                           *)
(***************************************************************************)
EXTENDS TableStore, PagerOpsProofs, SequenceTheorems, FiniteSetTheorems

-----------------------------------------------------------------------------
(* Functions defined by recursion.                                           *)

Recursive(f, S, base, step, n) ==
    /\ f \in [0 .. n -> S]
    /\ f[0] = base
    /\ \A i \in 1 .. n : f[i] = step[<<i, f[i - 1]>>]

LEMMA RecursionExists ==
  ASSUME NEW S, NEW base \in S, NEW step \in [Nat \X S -> S], NEW n \in Nat
  PROVE  \E f : Recursive(f, S, base, step, n)
  <1> USE DEF Recursive
  <1> DEFINE Solves(f, m) == Recursive(f, S, base, step, m)
             T == {m \in Nat : ~ \E f : Solves(f, m)}
  <1>1. SUFFICES T = {}
    OBVIOUS
  <1>2. SUFFICES ASSUME T # {} PROVE FALSE
    OBVIOUS
  <1>3. PICK m \in T : \A j \in T : m <= j
    BY <1>2, LeastElement
  <1>4. CASE m = 0
    <2>1. Solves([i \in 0 .. 0 |-> base], 0)
      OBVIOUS
    <2>2. QED
      BY <1>3, <1>4, <2>1
  <1>5. CASE m # 0
    <2>1. m - 1 \in Nat /\ m \in Nat /\ m - 1 \notin T
      BY <1>3, <1>5
    <2>2. PICK f : Solves(f, m - 1)
      BY <2>1
    <2> DEFINE g == [i \in 0 .. m |-> IF i < m THEN f[i] ELSE step[<<m, f[m - 1]>>]]
    <2>3. f[m - 1] \in S /\ step[<<m, f[m - 1]>>] \in S
      BY <2>1, <2>2
    <2>4. g \in [0 .. m -> S] /\ g[0] = base
      BY <1>5, <2>1, <2>2, <2>3
    <2>5. ASSUME NEW i \in 1 .. m PROVE g[i] = step[<<i, g[i - 1]>>]
      <3>1. g[i - 1] = f[i - 1]
        BY <2>1, <2>5
      <3>2. CASE i = m
        <4>1. g[m] = step[<<m, f[m - 1]>>]
          BY <2>1
        <4> HIDE DEF g
        <4>2. QED
          BY <3>1, <3>2, <4>1
      <3>3. CASE i # m
        <4>1. i \in 1 .. m - 1 /\ g[i] = f[i]
          BY <2>1, <2>5, <3>3
        <4>2. QED
          BY <2>2, <3>1, <4>1
      <3>4. QED
        BY <3>2, <3>3
    <2>6. Solves(g, m)
      BY <2>4, <2>5
    <2>7. QED
      BY <1>3, <2>6
  <1>6. QED
    BY <1>4, <1>5

-----------------------------------------------------------------------------
(* Walks along the links of pages.                                           *)

Entries == [first : Pages, last : Pages, root : Pages]

IsDb(db) == db = [pg |-> db.pg, disk |-> db.disk, catalog |-> db.catalog, page1 |-> db.page1]

DiskTyped(d) ==
    /\ DOMAIN d = Pages
    /\ \A p \in Pages : d[p].next \in Pages /\ d[p].rows \in Seq(Rows)

CatalogTyped(c) == DOMAIN c \subseteq Tables /\ \A t \in DOMAIN c : c[t] \in Entries

SavedTyped(f) ==
    /\ DOMAIN f \subseteq Tables
    /\ \A t \in DOMAIN f : f[t].first \in Pages /\ f[t].root \in Pages

Typed(db) ==
    /\ IsDb(db)
    /\ db.pg \in Pagers
    /\ DiskTyped(db.disk)
    /\ CatalogTyped(db.catalog)
    /\ SavedTyped(db.page1)

WalkStep(db, n, rest) ==
    [q \in Pages |-> IF n = 0 \/ q = 0 THEN <<>>
                     ELSE <<q>> \o rest[row_page_next(db, q)]]
IsWalk(walk, db) == walk = [n \in 0 .. BitmapBits |-> WalkStep(db, n, walk[n - 1])]

LEMMA PagesFacts == Pages \subseteq Nat /\ Pages \subseteq Int /\ 0 \in Pages /\ 1 \in Pages
  BY BitmapAssumption DEF Pages

LEMMA NextIsPage ==
  ASSUME NEW db, Typed(db), NEW q \in Pages
  PROVE  row_page_next(db, q) \in Pages
  <1>1. Read(db, q).next \in Pages
    BY PagesFacts DEF Typed, DiskTyped, CatalogTyped, Read, Blank, RowPage
  <1>2. QED
    BY <1>1, PagesFacts DEF row_page_next

LEMMA WalkExists ==
  ASSUME NEW db, Typed(db)
  PROVE  \E walk : IsWalk(walk, db)
  <1> DEFINE S == [Pages -> Seq(Pages)]
             step == [x \in Nat \X S |-> WalkStep(db, x[1], x[2])]
             base == [q \in Pages |-> <<>>]
  <1>1. base \in S
    OBVIOUS
  <1>2. ASSUME NEW n \in Nat, NEW rest \in S PROVE WalkStep(db, n, rest) \in S
    <2>1. ASSUME NEW q \in Pages, n # 0, q # 0
          PROVE <<q>> \o rest[row_page_next(db, q)] \in Seq(Pages)
      <3>1. rest[row_page_next(db, q)] \in Seq(Pages) /\ <<q>> \in Seq(Pages)
        BY NextIsPage
      <3>2. QED
        BY <3>1, ConcatProperties
    <2>2. QED
      BY <2>1 DEF WalkStep
  <1>3. step \in [Nat \X S -> S]
    BY <1>2
  <1>4. \A n \in Nat, rest \in S : step[<<n, rest>>] = WalkStep(db, n, rest)
    OBVIOUS
  <1> HIDE DEF S, step, base
  <1>5. BitmapBits \in Nat
    BY BitmapAssumption
  <1>6a. PICK f : Recursive(f, S, base, step, BitmapBits)
    BY <1>1, <1>3, <1>5, RecursionExists
  <1>6. /\ f \in [0 .. BitmapBits -> S]
        /\ f[0] = base /\ \A i \in 1 .. BitmapBits : f[i] = step[<<i, f[i - 1]>>]
    BY <1>6a DEF Recursive
  <1>7. f[0] = WalkStep(db, 0, f[0 - 1])
    BY <1>6 DEF WalkStep, base
  <1>8. ASSUME NEW i \in 1 .. BitmapBits PROVE f[i] = WalkStep(db, i, f[i - 1])
    <2>1. i - 1 \in 0 .. BitmapBits /\ i \in Nat
      BY <1>5
    <2>2. f[i - 1] \in S
      BY <1>6, <2>1
    <2>3. QED
      BY <1>4, <1>6, <2>1, <2>2
  <1>9. \A n \in 0 .. BitmapBits : f[n] = WalkStep(db, n, f[n - 1])
    <2>1. \A n \in 0 .. BitmapBits : n = 0 \/ n \in 1 .. BitmapBits
      BY <1>5
    <2>2. QED
      BY <1>7, <1>8, <2>1
  <1>10. f = [n \in 0 .. BitmapBits |-> f[n]]
    BY <1>6
  <1>11. [n \in 0 .. BitmapBits |-> f[n]] = [n \in 0 .. BitmapBits |-> WalkStep(db, n, f[n - 1])]
    BY <1>9
  <1>12. QED
    BY <1>10, <1>11 DEF IsWalk

(* Chain is the last of a family of walks of at most n pages.                *)
LEMMA ChainIsWalk ==
  ASSUME NEW db, Typed(db)
  PROVE  \E walk :
           /\ \A p : Chain(db, p) = walk[BitmapBits][p]
           /\ \A n \in 0 .. BitmapBits, q \in Pages :
                walk[n][q] = IF n = 0 \/ q = 0 THEN <<>>
                             ELSE <<q>> \o walk[n - 1][row_page_next(db, q)]
  <1> DEFINE walk == CHOOSE w : IsWalk(w, db)
  <1>1. IsWalk(walk, db)
    BY WalkExists
  <1>2. \A p : Chain(db, p) = walk[BitmapBits][p]
    BY DEF Chain, IsWalk, WalkStep
  <1> HIDE DEF walk
  <1>3. \A n \in 0 .. BitmapBits : walk[n] = WalkStep(db, n, walk[n - 1])
    BY <1>1 DEF IsWalk
  <1>4. \A n \in 0 .. BitmapBits, q \in Pages :
           walk[n][q] = IF n = 0 \/ q = 0 THEN <<>>
                        ELSE <<q>> \o walk[n - 1][row_page_next(db, q)]
    BY <1>3 DEF WalkStep
  <1>5. QED
    BY <1>2, <1>4

(* Prepending a page to a walk that continues from it.                       *)
Walked(db, s, q) ==
    /\ s \in Seq(Pages)
    /\ \A i \in 1 .. Len(s) : s[i] # 0
    /\ \A i \in 1 .. Len(s) - 1 : s[i + 1] = row_page_next(db, s[i])
    /\ s # <<>> => s[1] = q

LEMMA ConsFacts ==
  ASSUME NEW S, NEW x \in S, NEW s \in Seq(S)
  PROVE  /\ <<x>> \o s \in Seq(S) /\ Len(<<x>> \o s) = Len(s) + 1 /\ Len(s) \in Nat
         /\ (<<x>> \o s)[1] = x
         /\ \A i \in 1 .. Len(s) : (<<x>> \o s)[i + 1] = s[i]
  <1>1. <<x>> \in Seq(S) /\ Len(<<x>>) = 1 /\ <<x>>[1] = x /\ Len(s) \in Nat
    OBVIOUS
  <1>2. /\ <<x>> \o s \in Seq(S) /\ Len(<<x>> \o s) = 1 + Len(s)
        /\ \A i \in 1 .. 1 + Len(s) :
             (<<x>> \o s)[i] = IF i <= 1 THEN <<x>>[i] ELSE s[i - 1]
    BY <1>1, ConcatProperties
  <1> DEFINE r == <<x>> \o s
             n == Len(s)
             single == <<x>>
  <1> HIDE DEF r, n, single
  <1>3. r[1] = x
    BY <1>1, <1>2 DEF r, n, single
  <1>4. ASSUME NEW i \in 1 .. n PROVE r[i + 1] = s[i]
    <2>1. n \in Nat /\ i + 1 \in 1 .. 1 + n /\ ~(i + 1 <= 1) /\ i + 1 - 1 = i
      BY <1>1 DEF n
    <2>2. r[i + 1] = IF i + 1 <= 1 THEN single[i + 1] ELSE s[i + 1 - 1]
      BY <1>2, <2>1 DEF r, n, single
    <2>3. QED
      BY <2>1, <2>2
  <1>5. QED
    BY <1>1, <1>2, <1>3, <1>4 DEF r, n, single

LEMMA ConsWalked ==
  ASSUME NEW db, NEW q \in Pages, q # 0, NEW s, Walked(db, s, row_page_next(db, q))
  PROVE  Walked(db, <<q>> \o s, q)
  <1> DEFINE r == <<q>> \o s
             n == Len(s)
             next == row_page_next(db, q)
  <1>1. s \in Seq(Pages)
    BY DEF Walked
  <1>2. /\ r \in Seq(Pages) /\ Len(r) = n + 1 /\ n \in Nat /\ r[1] = q
        /\ \A i \in 1 .. n : r[i + 1] = s[i]
    BY <1>1, ConsFacts
  <1>3. /\ \A i \in 1 .. n : s[i] # 0
        /\ \A i \in 1 .. n - 1 : s[i + 1] = row_page_next(db, s[i])
        /\ n # 0 => s[1] = next
    BY <1>1 DEF Walked
  <1> HIDE DEF r, n, next
  <1>4. ASSUME NEW i \in 1 .. n + 1 PROVE r[i] # 0
    <2>1. CASE i = 1
      BY <1>2, <2>1
    <2>2. CASE i # 1
      <3>1. i - 1 \in 1 .. n /\ i - 1 + 1 = i
        BY <1>2, <2>2
      <3>2. r[i - 1 + 1] = s[i - 1] /\ s[i - 1] # 0
        BY <1>2, <1>3, <3>1
      <3>3. QED
        BY <3>1, <3>2
    <2>3. QED
      BY <2>1, <2>2
  <1>5. ASSUME NEW i \in 1 .. n PROVE r[i + 1] = row_page_next(db, r[i])
    <2>1. r[i + 1] = s[i]
      BY <1>2
    <2>2. CASE i = 1
      <3>1. n # 0 /\ n \in Nat
        BY <1>2
      <3>2. QED
        BY <1>2, <1>3, <2>1, <2>2, <3>1 DEF next
    <2>3. CASE i # 1
      <3>1. i - 1 \in 1 .. n /\ i - 1 \in 1 .. n - 1 /\ i - 1 + 1 = i
        BY <1>2, <2>3
      <3>2. r[i] = s[i - 1]
        BY <1>2, <3>1
      <3>3. s[i] = row_page_next(db, s[i - 1])
        BY <1>3, <3>1
      <3>4. QED
        BY <2>1, <3>2, <3>3
    <2>4. QED
      BY <2>2, <2>3
  <1>6. n + 1 - 1 = n
    BY <1>2
  <1>7. QED
    BY <1>2, <1>4, <1>5, <1>6 DEF Walked, r

(* What a scan visits: p, then each page's successor, never page 0.          *)
LEMMA ChainWalks ==
  ASSUME NEW db, Typed(db), NEW p \in Pages
  PROVE  /\ Walked(db, Chain(db, p), p)
         /\ Chain(db, p) = <<>> <=> p = 0
  <1>1. PICK walk :
           /\ \A q : Chain(db, q) = walk[BitmapBits][q]
           /\ \A n \in 0 .. BitmapBits, q \in Pages :
                walk[n][q] = IF n = 0 \/ q = 0 THEN <<>>
                             ELSE <<q>> \o walk[n - 1][row_page_next(db, q)]
    BY ChainIsWalk
  <1>2. BitmapBits \in Nat /\ BitmapBits # 0 /\ BitmapBits \in 0 .. BitmapBits
    BY BitmapAssumption
  <1> DEFINE Fine(n) == \A q \in Pages : Walked(db, walk[n][q], q)
             T == {n \in 0 .. BitmapBits : ~Fine(n)}
  <1>3. ASSUME T # {} PROVE FALSE
    <2>0. T \in SUBSET Nat
      OBVIOUS
    <2>1. PICK m \in T : \A j \in T : m <= j
      <3> HIDE DEF T
      <3>1. QED
        BY <1>3, <2>0, LeastElement
    <2>2. PICK q \in Pages : ~Walked(db, walk[m][q], q)
      BY <2>1
    <2>3. CASE m = 0 \/ q = 0
      <3>1. walk[m][q] = <<>>
        BY <1>1, <2>1, <2>3
      <3>2. <<>> \in Seq(Pages) /\ Len(<<>>) = 0 /\ (1 .. 0) = {} /\ (1 .. 0 - 1) = {}
        OBVIOUS
      <3>3. Walked(db, <<>>, q)
        BY <3>2 DEF Walked
      <3>4. QED
        BY <2>2, <3>1, <3>3
    <2>4. CASE m # 0 /\ q # 0
      <3>1. m - 1 \in 0 .. BitmapBits /\ ~(m <= m - 1)
        BY <1>2, <2>1, <2>4
      <3>2. m - 1 \notin T
        BY <2>1, <3>1
      <3>3. row_page_next(db, q) \in Pages
        BY NextIsPage
      <3>4. Walked(db, walk[m - 1][row_page_next(db, q)], row_page_next(db, q))
        <4>1. Fine(m - 1)
          BY <3>1, <3>2
        <4>2. QED
          BY <3>3, <4>1
      <3>5. walk[m][q] = <<q>> \o walk[m - 1][row_page_next(db, q)]
        BY <1>1, <2>1, <2>4
      <3>6. QED
        BY <2>2, <2>4, <3>4, <3>5, ConsWalked
    <2>5. QED
      BY <2>3, <2>4
  <1>4. Walked(db, walk[BitmapBits][p], p)
    BY <1>2, <1>3
  <1>5. p = 0 => walk[BitmapBits][p] = <<>>
    BY <1>1, <1>2
  <1>6. p # 0 => walk[BitmapBits][p] # <<>>
    <2>1. SUFFICES ASSUME p # 0 PROVE walk[BitmapBits][p] # <<>>
      OBVIOUS
    <2> DEFINE q == row_page_next(db, p)
    <2>2. walk[BitmapBits][p] = <<p>> \o walk[BitmapBits - 1][q]
      BY <1>1, <1>2, <2>1
    <2>3. q \in Pages /\ BitmapBits - 1 \in 0 .. BitmapBits
      BY <1>2, NextIsPage
    <2>4. walk[BitmapBits - 1][q] \in Seq(Pages)
      BY <1>3, <2>3 DEF Walked
    <2> HIDE DEF q
    <2>5. Len(walk[BitmapBits][p]) # 0
      BY <2>2, <2>4, ConsFacts
    <2>6. QED
      BY <2>5
  <1>7. QED
    BY <1>1, <1>4, <1>5, <1>6

-----------------------------------------------------------------------------
(* Concatenating the rows of the pages of a chain.                           *)

IsFlat(f, ss) == f = [i \in 1 .. Len(ss) |-> IF i = 1 THEN ss[i] ELSE f[i - 1] \o ss[i]]

LEMMA FlatExists ==
  ASSUME NEW S, NEW ss \in Seq(Seq(S))
  PROVE  \E f : IsFlat(f, ss) /\ \A i \in 1 .. Len(ss) : f[i] \in Seq(S)
  <1> DEFINE U == Seq(S)
             n == Len(ss)
             base == <<>>
             step == [x \in Nat \X U |-> IF x[1] \in 1 .. n THEN x[2] \o ss[x[1]] ELSE base]
  <1>1. n \in Nat /\ base \in U /\ \A i \in 1 .. n : ss[i] \in U
    OBVIOUS
  <1>2. \A i \in Nat, u \in U : step[<<i, u>>] = IF i \in 1 .. n THEN u \o ss[i] ELSE base
    OBVIOUS
  <1>3. step \in [Nat \X U -> U]
    <2>1. \A u, v \in U : u \o v \in U
      BY ConcatProperties
    <2> HIDE DEF U, n, base
    <2>2. QED
      BY <1>1, <2>1
  <1>4. \A u \in U : base \o u = u
    BY ConcatEmptySeq
  <1> HIDE DEF U, n, base, step
  <1>5. PICK g : Recursive(g, U, base, step, n)
    BY <1>1, <1>3, RecursionExists
  <1>6. \A i \in 0 .. n : g[i] \in U
    BY <1>5 DEF Recursive
  <1> DEFINE f == [i \in 1 .. n |-> g[i]]
  <1>7. ASSUME NEW i \in 1 .. n
        PROVE  f[i] = IF i = 1 THEN ss[i] ELSE f[i - 1] \o ss[i]
    <2>1. i - 1 \in 0 .. n /\ i \in Nat
      BY <1>1
    <2>2. g[i] = g[i - 1] \o ss[i]
      BY <1>2, <1>5, <1>6, <2>1 DEF Recursive
    <2>3. CASE i = 1
      <3>1. g[i - 1] = base
        BY <1>5, <2>3 DEF Recursive
      <3>2. QED
        BY <1>1, <1>4, <2>2, <2>3, <3>1
    <2>4. CASE i # 1
      <3>1. i - 1 \in 1 .. n
        BY <2>1, <2>4
      <3>2. QED
        BY <2>2, <2>4, <3>1
    <2>5. QED
      BY <2>3, <2>4
  <1>8. [i \in 1 .. n |-> f[i]] = [i \in 1 .. n |-> IF i = 1 THEN ss[i] ELSE f[i - 1] \o ss[i]]
    BY <1>7
  <1>9. f = [i \in 1 .. n |-> f[i]]
    OBVIOUS
  <1>10. IsFlat(f, ss)
    <2> HIDE DEF f
    <2>1. QED
      BY <1>8, <1>9 DEF IsFlat, n
  <1>11. \A i \in 1 .. n : f[i] \in U
    <2>1. \A i \in 1 .. n : i \in 0 .. n
      BY <1>1
    <2>2. QED
      BY <1>6, <2>1
  <1> HIDE DEF f
  <1>12. QED
    BY <1>10, <1>11 DEF n, U

LEMMA FlatAt ==
  ASSUME NEW f, NEW ss, IsFlat(f, ss), NEW i \in 1 .. Len(ss)
  PROVE  f[i] = IF i = 1 THEN ss[i] ELSE f[i - 1] \o ss[i]
  BY DEF IsFlat

SharedPrefix(m, s, t) ==
    /\ m \in Nat /\ Len(s) \in Nat /\ Len(t) \in Nat /\ m <= Len(s) /\ m <= Len(t)
    /\ \A i \in 1 .. m : s[i] = t[i]

LEMMA FlatAgrees ==
  ASSUME NEW ss, NEW tt, NEW f, NEW h, IsFlat(f, ss), IsFlat(h, tt),
         NEW m, SharedPrefix(m, ss, tt)
  PROVE  \A i \in 1 .. m : f[i] = h[i]
  <1> USE DEF SharedPrefix
  <1> DEFINE T == {i \in 1 .. m : f[i] # h[i]}
  <1>1. SUFFICES ASSUME T # {} PROVE FALSE
    OBVIOUS
  <1>2. T \in SUBSET Nat
    OBVIOUS
  <1>3. PICK i \in T : \A j \in T : i <= j
    <2> HIDE DEF T
    <2>1. QED
      BY <1>1, <1>2, LeastElement
  <1>4. i \in 1 .. m /\ i \in 1 .. Len(ss) /\ i \in 1 .. Len(tt) /\ f[i] # h[i]
    BY <1>3
  <1>5. f[i] = (IF i = 1 THEN ss[i] ELSE f[i - 1] \o ss[i])
    BY <1>4 DEF IsFlat
  <1>6. h[i] = (IF i = 1 THEN tt[i] ELSE h[i - 1] \o tt[i])
    BY <1>4 DEF IsFlat
  <1>7. CASE i = 1
    BY <1>4, <1>5, <1>6, <1>7
  <1>8. CASE i # 1
    <2>1. i - 1 \in 1 .. m /\ ~(i <= i - 1)
      BY <1>4, <1>8
    <2>2. f[i - 1] = h[i - 1]
      BY <1>3, <2>1
    <2>3. QED
      BY <1>4, <1>5, <1>6, <1>8, <2>2
  <1>9. QED
    BY <1>7, <1>8

LEMMA FlattenIs ==
  ASSUME NEW S, NEW ss \in Seq(Seq(S)), ss # <<>>
  PROVE  \E f : IsFlat(f, ss) /\ FlattenSeq(ss) = f[Len(ss)]
  <1> DEFINE f == CHOOSE f : IsFlat(f, ss)
  <1>1. IsFlat(f, ss)
    BY FlatExists
  <1>2. Len(ss) # 0
    OBVIOUS
  <1>3. FlattenSeq(ss) = f[Len(ss)]
    BY <1>2 DEF FlattenSeq, IsFlat
  <1> HIDE DEF f
  <1>4. QED
    BY <1>1, <1>3

LEMMA FlattenType ==
  ASSUME NEW S, NEW ss \in Seq(Seq(S))
  PROVE  FlattenSeq(ss) \in Seq(S)
  <1>1. CASE ss = <<>>
    <2>1. Len(ss) = 0 /\ ss \in Seq(S)
      BY <1>1
    <2>2. QED
      BY <2>1 DEF FlattenSeq
  <1>2. CASE ss # <<>>
    <2>1. PICK f : IsFlat(f, ss) /\ FlattenSeq(ss) = f[Len(ss)]
      BY <1>2, FlattenIs
    <2>2. PICK h : IsFlat(h, ss) /\ \A i \in 1 .. Len(ss) : h[i] \in Seq(S)
      BY FlatExists
    <2>3. Len(ss) \in Nat /\ Len(ss) \in 1 .. Len(ss) /\ Len(ss) <= Len(ss)
      BY <1>2
    <2>4. f[Len(ss)] = h[Len(ss)]
      <3>1. SharedPrefix(Len(ss), ss, ss)
        BY <2>3 DEF SharedPrefix
      <3>2. \A i \in 1 .. Len(ss) : f[i] = h[i]
        BY <2>1, <2>2, <3>1, FlatAgrees
      <3>3. QED
        BY <2>3, <3>2
    <2>5. QED
      BY <2>1, <2>2, <2>3, <2>4
  <1>3. QED
    BY <1>1, <1>2

LEMMA FlattenEmpty == FlattenSeq(<<>>) = <<>>
  BY DEF FlattenSeq

LEMMA FlattenAppend ==
  ASSUME NEW S, NEW ss \in Seq(Seq(S)), NEW s \in Seq(S)
  PROVE  FlattenSeq(Append(ss, s)) = FlattenSeq(ss) \o s
  <1> DEFINE tt == Append(ss, s)
             n == Len(ss)
  <1>0. s \in Seq(S)
    OBVIOUS
  <1>1. /\ tt \in Seq(Seq(S)) /\ Len(tt) = n + 1 /\ n \in Nat
        /\ tt[n + 1] = s /\ \A i \in 1 .. n : tt[i] = ss[i]
    <2> DEFINE U == Seq(S)
    <2>1. ss \in Seq(U) /\ s \in U
      OBVIOUS
    <2> HIDE DEF U
    <2>2. /\ tt \in Seq(U) /\ Len(tt) = n + 1 /\ n \in Nat
          /\ tt[n + 1] = s /\ \A i \in 1 .. n : tt[i] = ss[i]
      BY <2>1, AppendProperties
    <2>3. QED
      BY <2>2 DEF U
  <1> HIDE DEF tt, n
  <1>2. tt # <<>>
    <2>1. Len(tt) # 0
      BY <1>1
    <2>2. QED
      BY <2>1
  <1>3a. \E f : IsFlat(f, tt) /\ FlattenSeq(tt) = f[Len(tt)]
    <2>1. tt \in Seq(Seq(S))
      BY <1>1
    <2>2. QED
      BY <1>2, <2>1, FlattenIs
  <1>3. PICK f : IsFlat(f, tt) /\ FlattenSeq(tt) = f[n + 1]
    BY <1>1, <1>3a
  <1> DEFINE k == n + 1
  <1>4. (k = 1 => f[k] = tt[k]) /\ (k # 1 => f[k] = f[k - 1] \o tt[k])
    <2>1. IsFlat(f, tt) /\ k \in 1 .. Len(tt)
      BY <1>1, <1>3
    <2> HIDE DEF k
    <2>2. f[k] = IF k = 1 THEN tt[k] ELSE f[k - 1] \o tt[k]
      BY <2>1, FlatAt
    <2>3. QED
      BY <2>2
  <1>5. CASE ss = <<>>
    <2>1. n = 0 /\ FlattenSeq(ss) = <<>> /\ <<>> \o s = s
      BY <1>5, FlattenEmpty, ConcatEmptySeq DEF n
    <2>2. QED
      BY <1>1, <1>3, <1>4, <2>1 DEF tt
  <1>6. CASE ss # <<>>
    <2>0. n # 0
      BY <1>6 DEF n
    <2>1. n \in 1 .. n /\ n <= n /\ n <= n + 1
      BY <1>1, <2>0
    <2>2. PICK h : IsFlat(h, ss) /\ FlattenSeq(ss) = h[n]
      BY <1>6, FlattenIs DEF n
    <2>2a. Len(ss) = n /\ \A i \in 1 .. n : ss[i] = tt[i]
      BY <1>1 DEF n
    <2>3. \A i \in 1 .. n : h[i] = f[i]
      <3>1. IsFlat(h, ss) /\ IsFlat(f, tt)
        BY <1>3, <2>2
      <3>2. SharedPrefix(n, ss, tt)
        BY <1>1, <2>1, <2>2a DEF SharedPrefix
      <3>3. QED
        BY <3>1, <3>2, FlatAgrees
    <2>4a. h[n] = f[n]
      BY <2>1, <2>3
    <2>4b. n + 1 - 1 = n /\ n + 1 # 1
      BY <1>1, <2>0
    <2>4. f[n] = FlattenSeq(ss)
      BY <2>2, <2>4a
    <2>5. f[n + 1] = f[n] \o s
      <3>1. k - 1 = n /\ k # 1 /\ tt[k] = s
        BY <1>1, <2>4b
      <3> HIDE DEF k
      <3>2. f[k] = f[k - 1] \o tt[k]
        BY <1>4, <3>1
      <3>3. f[k] = f[n] \o s
        BY <3>1, <3>2
      <3>4. QED
        BY <3>3 DEF k
    <2>6. FlattenSeq(tt) = FlattenSeq(ss) \o s
      BY <1>3, <2>4, <2>5
    <2>7. QED
      BY <2>6 DEF tt
  <1>7. QED
    BY <1>5, <1>6

-----------------------------------------------------------------------------
(* What the operations on pages and catalog entries change.                  *)

LEMMA ReadTyped ==
  ASSUME NEW db, Typed(db), NEW p \in Pages
  PROVE  Read(db, p).next \in Pages /\ Read(db, p).rows \in Seq(Rows)
  <1>1. <<>> \in Seq(Rows)
    OBVIOUS
  <1>2. QED
    BY <1>1, PagesFacts DEF Typed, DiskTyped, CatalogTyped, Read, Blank, RowPage

LEMMA ChainRowsTyped ==
  ASSUME NEW db, Typed(db), NEW s \in Seq(Pages)
  PROVE  /\ [i \in 1 .. Len(s) |-> Read(db, s[i]).rows] \in Seq(Seq(Rows))
         /\ FlattenSeq([i \in 1 .. Len(s) |-> Read(db, s[i]).rows]) \in Seq(Rows)
  <1>1. \A i \in 1 .. Len(s) : Read(db, s[i]).rows \in Seq(Rows)
    BY ReadTyped
  <1>2. Len(s) \in Nat
    OBVIOUS
  <1> DEFINE ss == [i \in 1 .. Len(s) |-> Read(db, s[i]).rows]
             U == Seq(Rows)
  <1>3. ss \in Seq(U)
    <2> DEFINE n == Len(s)
    <2>1. n \in Nat /\ \A i \in 1 .. n : Read(db, s[i]).rows \in U
      BY <1>1, <1>2
    <2> HIDE DEF n, U
    <2>2. [i \in 1 .. n |-> Read(db, s[i]).rows] \in Seq(U)
      BY <2>1
    <2>3. QED
      BY <2>2 DEF n
  <1>4. FlattenSeq(ss) \in Seq(Rows)
    <2> HIDE DEF ss
    <2>1. ss \in Seq(Seq(Rows))
      BY <1>3
    <2>2. QED
      BY <2>1, FlattenType
  <1>5. QED
    BY <1>3, <1>4

LEMMA AllRowsTyped ==
  ASSUME NEW db, Typed(db), NEW t \in DOMAIN db.catalog
  PROVE  read_all_rows(db, t) \in Seq(Rows)
  <1>1. db.catalog[t].first \in Pages
    BY DEF Typed, DiskTyped, CatalogTyped, Entries
  <1>2. Chain(db, db.catalog[t].first) \in Seq(Pages)
    BY <1>1, ChainWalks DEF Walked
  <1>3. QED
    BY <1>2, ChainRowsTyped DEF read_all_rows

LEMMA MarkWrittenTyped ==
  ASSUME NEW q \in Pagers, NEW p \in Pages
  PROVE  MarkWritten(q, p) \in Pagers
  BY BitmapAssumption DEF MarkWritten, Pagers, Pages

\* The page that was just allocated lies in the file.
LEMMA AllocatedIsWritten ==
  ASSUME NEW q \in Pagers, AllocatedPage(q) >= 0
  PROVE  /\ MarkAllocated(q) \in Pagers
         /\ MarkWritten(MarkAllocated(q), AllocatedPage(q)) = MarkAllocated(q)
         /\ AllocatedPage(q) \in Pages /\ AllocatedPage(q) # 0
  <1> DEFINE p == AllocatedPage(q)
  <1>1. p = -1 \/ (p \in 1 .. BitmapBits - 1 /\ p \notin q.bitmap)
    BY AllocatedFacts
  <1>2. p >= 0
    OBVIOUS
  <1>3. MarkAllocated(q) = [bitmap |-> q.bitmap \cup {p},
                            page_count |-> IF p >= q.page_count THEN p + 1 ELSE q.page_count]
    <2> HIDE DEF p
    <2>1. ~(p < 0)
      BY <1>1, <1>2, BitmapAssumption
    <2>2. QED
      BY <2>1 DEF MarkAllocated, p
  <1> HIDE DEF p
  <1>4. p \in Pages /\ p # 0 /\ p \in Int
    BY <1>1, <1>2, BitmapAssumption DEF Pages
  <1>5. q.page_count \in Int /\ q.bitmap \subseteq Pages
    BY BitmapAssumption DEF Pagers
  <1>6. p < MarkAllocated(q).page_count
    BY <1>3, <1>4, <1>5
  <1>7. MarkWritten(MarkAllocated(q), p) = MarkAllocated(q)
    BY <1>6 DEF MarkWritten
  <1>8. MarkAllocated(q) \in Pagers
    BY <1>3, <1>4, <1>5, BitmapAssumption DEF Pagers, Pages
  <1>9. QED
    BY <1>4, <1>7, <1>8 DEF p

(* A database as the record of its parts, and the fields an operation sets.  *)
DbOf(a, d, c, f) == [pg |-> a, disk |-> d, catalog |-> c, page1 |-> f]

Is(db, a, d, c, f) ==
    IsDb(db) /\ db.pg = a /\ db.disk = d /\ db.catalog = c /\ db.page1 = f

LEMMA DbOfIs ==
  ASSUME NEW a, NEW d, NEW c, NEW f
  PROVE  Is(DbOf(a, d, c, f), a, d, c, f)
  BY DEF Is, IsDb, DbOf

LEMMA IsDbOf ==
  ASSUME NEW db, IsDb(db)
  PROVE  db = DbOf(db.pg, db.disk, db.catalog, db.page1)
  BY DEF IsDb, DbOf

LEMMA WriteRecord ==
  ASSUME NEW a, NEW d, NEW c, NEW f, NEW p, NEW page
  PROVE  WritePage(DbOf(a, d, c, f), p, page) =
            DbOf(MarkWritten(a, p), [d EXCEPT ![p] = page], c, f)
  <1> DEFINE e == [d EXCEPT ![p] = page]
             b == MarkWritten(a, p)
  <1>1. [DbOf(a, d, c, f) EXCEPT !.disk[p] = page] = DbOf(a, e, c, f)
    BY DEF DbOf
  <1>2. [DbOf(a, e, c, f) EXCEPT !.pg = MarkWritten(@, p)] = DbOf(b, e, c, f)
    BY DEF DbOf
  <1>3. QED
    BY <1>1, <1>2 DEF WritePage

LEMMA WriteFields ==
  ASSUME NEW db, IsDb(db), NEW p, NEW page
  PROVE  Is(WritePage(db, p, page), MarkWritten(db.pg, p), [db.disk EXCEPT ![p] = page],
            db.catalog, db.page1)
  BY IsDbOf, WriteRecord, DbOfIs

LEMMA EntryFields ==
  ASSUME NEW db, IsDb(db), NEW t, NEW entry
  PROVE  Is(SetEntry(db, t, entry), db.pg, db.disk, [db.catalog EXCEPT ![t] = entry], db.page1)
  <1>1. ASSUME NEW a, NEW d, NEW c, NEW f
        PROVE  SetEntry(DbOf(a, d, c, f), t, entry) = DbOf(a, d, [c EXCEPT ![t] = entry], f)
    BY DEF SetEntry, DbOf
  <1>2. QED
    BY <1>1, IsDbOf, DbOfIs

LEMMA FreeFields ==
  ASSUME NEW db, IsDb(db), db.pg \in Pagers, NEW freed
  PROVE  Is(FreeAll(db, freed),
            [bitmap |-> db.pg.bitmap \ freed, page_count |-> db.pg.page_count],
            db.disk, db.catalog, db.page1)
  <1>1. ASSUME NEW b, NEW n, NEW d, NEW c, NEW f
        PROVE  FreeAll(DbOf([bitmap |-> b, page_count |-> n], d, c, f), freed) =
                  DbOf([bitmap |-> b \ freed, page_count |-> n], d, c, f)
    BY DEF FreeAll, DbOf
  <1>2. db.pg = [bitmap |-> db.pg.bitmap, page_count |-> db.pg.page_count]
    BY DEF Pagers
  <1>3. QED
    BY <1>1, <1>2, IsDbOf, DbOfIs

LEMMA PartFields ==
  ASSUME NEW db, IsDb(db), NEW x
  PROVE  /\ Is([db EXCEPT !.pg = x], x, db.disk, db.catalog, db.page1)
         /\ Is([db EXCEPT !.catalog = x], db.pg, db.disk, x, db.page1)
         /\ Is([db EXCEPT !.page1 = x], db.pg, db.disk, db.catalog, x)
  BY DEF Is, IsDb

-----------------------------------------------------------------------------
(* The outcomes of an append.                                                *)

Saved(c) == [t \in DOMAIN c |-> [first |-> c[t].first, root |-> c[t].root]]

LEMMA SavedFields ==
  ASSUME NEW db, IsDb(db)
  PROVE  Is(catalog_write_page(db), db.pg, db.disk, db.catalog, Saved(db.catalog))
  <1> DEFINE saved == Saved(db.catalog)
  <1>1. catalog_write_page(db) = [db EXCEPT !.page1 = saved]
    BY DEF catalog_write_page, Saved
  <1> HIDE DEF saved
  <1>2. QED
    BY <1>1, PartFields DEF saved

AppendFails(db, t, r) ==
    LET entry == db.catalog[t]
    IN  /\ AllocatedPage(db.pg) < 0
        /\ ~r.ok
        /\ \/ r.db = db
           \/ /\ entry.last # 0
              /\ Is(r.db, db.pg, db.disk,
                    [db.catalog EXCEPT ![t] = Entry(entry.first, TailOf(db, t), entry.root)],
                    db.page1)

AppendFirst(db, t, row, r) ==
    LET q == AllocatedPage(db.pg)
        c == [db.catalog EXCEPT ![t] = Entry(q, q, db.catalog[t].root)]
    IN  /\ r.ok /\ r.loc = <<q, 1>> /\ q >= 0
        /\ db.catalog[t].last = 0
        /\ Is(r.db, MarkAllocated(db.pg), [db.disk EXCEPT ![q] = RowPage(0, <<row>>)], c, Saved(c))

AppendFits(db, t, row, r) ==
    LET entry == db.catalog[t]
        tail  == TailOf(db, t)
        rows  == Read(db, tail).rows
        c     == [db.catalog EXCEPT ![t] = Entry(entry.first, tail, entry.root)]
    IN  /\ r.ok /\ r.loc = <<tail, Len(rows) + 1>>
        /\ entry.last # 0
        /\ Is(r.db, MarkWritten(db.pg, tail),
              [db.disk EXCEPT ![tail] = RowPage(0, Append(rows, row))], c, Saved(c))

AppendNext(db, t, row, r) ==
    LET q     == AllocatedPage(db.pg)
        entry == db.catalog[t]
        tail  == TailOf(db, t)
        rows  == Read(db, tail).rows
        c     == [db.catalog EXCEPT ![t] = Entry(entry.first, q, entry.root)]
    IN  /\ r.ok /\ r.loc = <<q, 1>> /\ q >= 0
        /\ entry.last # 0
        /\ Is(r.db, MarkWritten(MarkWritten(MarkAllocated(db.pg), tail), q),
              [[db.disk EXCEPT ![tail] = RowPage(q, rows)] EXCEPT ![q] = RowPage(0, <<row>>)],
              c, Saved(c))

\* One write, and the new entry of the table.
Stored(db, p, page, t, entry) == SetEntry(WritePage(db, p, page), t, entry)

LEMMA StoredFields ==
  ASSUME NEW db, IsDb(db), NEW p, NEW page, NEW t, NEW entry
  PROVE  Is(Stored(db, p, page, t, entry), MarkWritten(db.pg, p),
            [db.disk EXCEPT ![p] = page], [db.catalog EXCEPT ![t] = entry], db.page1)
  <1> DEFINE w == WritePage(db, p, page)
  <1>1. Is(w, MarkWritten(db.pg, p), [db.disk EXCEPT ![p] = page], db.catalog, db.page1)
    BY WriteFields
  <1> HIDE DEF w
  <1>2. Is(SetEntry(w, t, entry), w.pg, w.disk, [w.catalog EXCEPT ![t] = entry], w.page1)
    <2>1. IsDb(w)
      BY <1>1 DEF Is
    <2>2. QED
      BY <2>1, EntryFields
  <1>3. Is(SetEntry(w, t, entry), MarkWritten(db.pg, p), [db.disk EXCEPT ![p] = page],
           [db.catalog EXCEPT ![t] = entry], db.page1)
    BY <1>1, <1>2 DEF Is
  <1>4. QED
    BY <1>3 DEF w, Stored

LEMMA SavedStored ==
  ASSUME NEW db, NEW a, NEW d, NEW c, NEW f, Is(db, a, d, c, f)
  PROVE  Is(catalog_write_page(db), a, d, c, Saved(c))
  BY SavedFields DEF Is

LEMMA AppendOutcome ==
  ASSUME NEW db, Typed(db), NEW t \in DOMAIN db.catalog, NEW row
  PROVE  LET r == row_page_append(db, t, row)
         IN  \/ AppendFails(db, t, r)
             \/ AppendFirst(db, t, row, r)
             \/ AppendFits(db, t, row, r)
             \/ AppendNext(db, t, row, r)
  <1> DEFINE r     == row_page_append(db, t, row)
             q     == AllocatedPage(db.pg)
             alloc == [db EXCEPT !.pg = MarkAllocated(@)]
             tail  == TailOf(db, t)
             rows  == Read(db, tail).rows
             entry == db.catalog[t]
             one   == RowPage(0, <<row>>)
             first == Stored(alloc, q, one, t, Entry(q, q, entry.root))
             fits  == Stored(db, tail, RowPage(0, Append(rows, row)),
                             t, Entry(entry.first, tail, entry.root))
             linked == WritePage(alloc, tail, RowPage(q, rows))
             next  == Stored(linked, q, one, t, Entry(entry.first, q, entry.root))
             moved == SetEntry(db, t, Entry(entry.first, tail, entry.root))
  <1>1. IsDb(db) /\ db.pg \in Pagers
    BY DEF Typed, DiskTyped, CatalogTyped
  <1>2. Is(alloc, MarkAllocated(db.pg), db.disk, db.catalog, db.page1)
    <2> DEFINE pg1 == MarkAllocated(db.pg)
    <2>1. alloc = [db EXCEPT !.pg = pg1]
      OBVIOUS
    <2> HIDE DEF pg1, alloc
    <2>2. QED
      BY <1>1, <2>1, PartFields DEF pg1
  <1>3. q = -1 \/ q \in Nat
    BY <1>1, AllocatedFacts
  <1>4. r = IF entry.last = 0
            THEN IF q < 0 THEN [ok |-> FALSE, db |-> db, loc |-> <<0, 0>>]
                 ELSE [ok |-> TRUE, db |-> catalog_write_page(first), loc |-> <<q, 1>>]
            ELSE IF Used(rows) + RowSize[row] <= DataSize
            THEN [ok |-> TRUE, db |-> catalog_write_page(fits), loc |-> <<tail, Len(rows) + 1>>]
            ELSE IF q < 0 THEN [ok |-> FALSE, db |-> moved, loc |-> <<0, 0>>]
            ELSE [ok |-> TRUE, db |-> catalog_write_page(next), loc |-> <<q, 1>>]
    BY DEF row_page_append, Stored, NewRowPage
  <1> HIDE DEF r, alloc, first, fits, linked, next, moved
  <1>5. CASE entry.last = 0 /\ q < 0
    <2>1. r = [ok |-> FALSE, db |-> db, loc |-> <<0, 0>>]
      BY <1>4, <1>5
    <2>2. AppendFails(db, t, r)
      BY <1>5, <2>1 DEF AppendFails
    <2>3. QED
      BY <2>2 DEF r
  <1>6. CASE entry.last = 0 /\ ~(q < 0)
    <2>1. r = [ok |-> TRUE, db |-> catalog_write_page(first), loc |-> <<q, 1>>]
      BY <1>4, <1>6
    <2> DEFINE c == [db.catalog EXCEPT ![t] = Entry(q, q, entry.root)]
               pg1 == MarkAllocated(db.pg)
               d   == [db.disk EXCEPT ![q] = one]
    <2>2. q >= 0
      BY <1>3, <1>6
    <2>3. MarkWritten(pg1, q) = pg1
      BY <1>1, <2>2, AllocatedIsWritten
    <2>4. Is(first, MarkWritten(alloc.pg, q), [alloc.disk EXCEPT ![q] = one],
             [alloc.catalog EXCEPT ![t] = Entry(q, q, entry.root)], alloc.page1)
      <3>1. IsDb(alloc)
        BY <1>2 DEF Is
      <3>2. QED
        BY <3>1, StoredFields DEF first
    <2>5. Is(first, pg1, d, c, db.page1)
      BY <1>2, <2>3, <2>4 DEF Is
    <2> HIDE DEF c, pg1, d
    <2>6. Is(r.db, pg1, d, c, Saved(c))
      BY <2>1, <2>5, SavedStored
    <2>7. AppendFirst(db, t, row, r)
      BY <1>6, <2>1, <2>2, <2>6 DEF AppendFirst, c, pg1, d
    <2>8. QED
      BY <2>7 DEF r
  <1>7. CASE entry.last # 0 /\ Used(rows) + RowSize[row] <= DataSize
    <2>1. r = [ok |-> TRUE, db |-> catalog_write_page(fits), loc |-> <<tail, Len(rows) + 1>>]
      BY <1>4, <1>7
    <2> DEFINE c == [db.catalog EXCEPT ![t] = Entry(entry.first, tail, entry.root)]
               pg1 == MarkWritten(db.pg, tail)
               d   == [db.disk EXCEPT ![tail] = RowPage(0, Append(rows, row))]
    <2>2. Is(fits, pg1, d, c, db.page1)
      BY <1>1, StoredFields DEF fits
    <2> HIDE DEF c, pg1, d
    <2>3. Is(r.db, pg1, d, c, Saved(c))
      BY <2>1, <2>2, SavedStored
    <2>4. AppendFits(db, t, row, r)
      BY <1>7, <2>1, <2>3 DEF AppendFits, c, pg1, d
    <2>5. QED
      BY <2>4 DEF r
  <1>8. CASE entry.last # 0 /\ ~(Used(rows) + RowSize[row] <= DataSize) /\ q < 0
    <2>1. r = [ok |-> FALSE, db |-> moved, loc |-> <<0, 0>>]
      BY <1>4, <1>8
    <2>2. Is(moved, db.pg, db.disk,
             [db.catalog EXCEPT ![t] = Entry(entry.first, tail, entry.root)], db.page1)
      BY <1>1, EntryFields DEF moved
    <2>3. AppendFails(db, t, r)
      BY <1>8, <2>1, <2>2 DEF AppendFails
    <2>4. QED
      BY <2>3 DEF r
  <1>9. CASE entry.last # 0 /\ ~(Used(rows) + RowSize[row] <= DataSize) /\ ~(q < 0)
    <2>1. r = [ok |-> TRUE, db |-> catalog_write_page(next), loc |-> <<q, 1>>]
      BY <1>4, <1>9
    <2> DEFINE c == [db.catalog EXCEPT ![t] = Entry(entry.first, q, entry.root)]
               pg1 == MarkWritten(MarkAllocated(db.pg), tail)
               pg2 == MarkWritten(pg1, q)
               d1  == [db.disk EXCEPT ![tail] = RowPage(q, rows)]
               d2  == [d1 EXCEPT ![q] = one]
    <2>2. q >= 0
      BY <1>3, <1>9
    <2>3. Is(linked, pg1, d1, db.catalog, db.page1)
      <3>1. IsDb(alloc)
        BY <1>2 DEF Is
      <3>2. Is(linked, MarkWritten(alloc.pg, tail), [alloc.disk EXCEPT ![tail] = RowPage(q, rows)],
               alloc.catalog, alloc.page1)
        BY <3>1, WriteFields DEF linked
      <3>3. QED
        BY <1>2, <3>2 DEF Is
    <2> HIDE DEF pg1, d1
    <2>4. Is(next, pg2, d2, c, db.page1)
      <3>1. IsDb(linked)
        BY <2>3 DEF Is
      <3>2. Is(next, MarkWritten(linked.pg, q), [linked.disk EXCEPT ![q] = one],
               [linked.catalog EXCEPT ![t] = Entry(entry.first, q, entry.root)], linked.page1)
        BY <3>1, StoredFields DEF next
      <3>3. QED
        BY <2>3, <3>2 DEF Is
    <2> HIDE DEF c, pg2, d2
    <2>5. Is(r.db, pg2, d2, c, Saved(c))
      BY <2>1, <2>4, SavedStored
    <2>6. AppendNext(db, t, row, r)
      BY <1>9, <2>1, <2>2, <2>5 DEF AppendNext, c, pg1, pg2, d1, d2
    <2>7. QED
      BY <2>6 DEF r
  <1>10. QED
    BY <1>5, <1>6, <1>7, <1>8, <1>9

-----------------------------------------------------------------------------
(* The types that the operations keep.                                       *)

PageTyped(page) == page.next \in Pages /\ page.rows \in Seq(Rows)

LEMMA TypedIs ==
  ASSUME NEW db, NEW a, NEW d, NEW c, NEW f, Is(db, a, d, c, f),
         a \in Pagers, DiskTyped(d), CatalogTyped(c), SavedTyped(f)
  PROVE  Typed(db)
  BY DEF Is, Typed

LEMMA DiskWrite ==
  ASSUME NEW d, DiskTyped(d), NEW p \in Pages, NEW page, PageTyped(page)
  PROVE  /\ DiskTyped([d EXCEPT ![p] = page])
         /\ [d EXCEPT ![p] = page][p] = page
         /\ \A q \in Pages : q # p => [d EXCEPT ![p] = page][q] = d[q]
  <1> DEFINE e == [d EXCEPT ![p] = page]
  <1>1. DOMAIN e = Pages /\ e[p] = page /\ \A q \in Pages : q # p => e[q] = d[q]
    BY DEF DiskTyped
  <1> HIDE DEF e
  <1>2. DiskTyped(e)
    BY <1>1 DEF DiskTyped, PageTyped
  <1>3. QED
    BY <1>1, <1>2 DEF e

LEMMA CatalogSet ==
  ASSUME NEW c, CatalogTyped(c), NEW t \in DOMAIN c, NEW entry \in Entries
  PROVE  /\ CatalogTyped([c EXCEPT ![t] = entry])
         /\ DOMAIN [c EXCEPT ![t] = entry] = DOMAIN c
         /\ [c EXCEPT ![t] = entry][t] = entry
         /\ \A u \in DOMAIN c : u # t => [c EXCEPT ![t] = entry][u] = c[u]
         /\ SavedTyped(Saved([c EXCEPT ![t] = entry]))
  <1> DEFINE e == [c EXCEPT ![t] = entry]
  <1>1. DOMAIN e = DOMAIN c /\ e[t] = entry /\ \A u \in DOMAIN c : u # t => e[u] = c[u]
    OBVIOUS
  <1> HIDE DEF e
  <1>2. CatalogTyped(e)
    BY <1>1 DEF CatalogTyped
  <1>3. SavedTyped(Saved(e))
    BY <1>2 DEF SavedTyped, Saved, CatalogTyped, Entries
  <1>4. QED
    BY <1>1, <1>2, <1>3 DEF e

LEMMA SavedIsTyped ==
  ASSUME NEW c, CatalogTyped(c)
  PROVE  SavedTyped(Saved(c))
  BY DEF SavedTyped, Saved, CatalogTyped, Entries

LEMMA EntryTyped ==
  ASSUME NEW x \in Pages, NEW y \in Pages, NEW z \in Pages
  PROVE  /\ Entry(x, y, z) \in Entries
         /\ Entry(x, y, z).first = x /\ Entry(x, y, z).last = y /\ Entry(x, y, z).root = z
  BY DEF Entry, Entries

LEMMA PagesTyped ==
  ASSUME NEW p \in Pages, NEW rows \in Seq(Rows), NEW row \in Rows, NEW entries
  PROVE  /\ PageTyped(RowPage(p, rows)) /\ PageTyped(RowPage(p, <<row>>))
         /\ PageTyped(RowPage(p, Append(rows, row))) /\ PageTyped(IndexPage(entries))
         /\ PageTyped(Blank)
         /\ RowPage(p, rows).next = p /\ RowPage(p, rows).rows = rows
         /\ IndexPage(entries).next = 0 /\ IndexPage(entries).rows = <<>>
         /\ IndexPage(entries).entries = entries
  <1>1. <<row>> \in Seq(Rows) /\ Append(rows, row) \in Seq(Rows) /\ <<>> \in Seq(Rows)
    OBVIOUS
  <1>2. QED
    BY <1>1, PagesFacts DEF PageTyped, RowPage, IndexPage, Blank

LEMMA TailIsPage ==
  ASSUME NEW db, Typed(db), NEW t \in DOMAIN db.catalog, db.catalog[t].last # 0
  PROVE  /\ TailOf(db, t) \in Pages /\ TailOf(db, t) # 0
         /\ LET s == Chain(db, db.catalog[t].last)
            IN  s \in Seq(Pages) /\ Len(s) \in 1 .. Len(s) /\ TailOf(db, t) = s[Len(s)]
  <1> DEFINE s == Chain(db, db.catalog[t].last)
  <1>1. db.catalog[t].last \in Pages
    BY DEF Typed, CatalogTyped, Entries
  <1>2. Walked(db, s, db.catalog[t].last) /\ s # <<>>
    BY <1>1, ChainWalks
  <1> HIDE DEF s
  <1>3. s \in Seq(Pages) /\ \A i \in 1 .. Len(s) : s[i] # 0
    BY <1>2 DEF Walked
  <1>4. Len(s) \in 1 .. Len(s)
    BY <1>2, <1>3
  <1>5. TailOf(db, t) = s[Len(s)]
    BY DEF TailOf, Last, s
  <1>6. QED
    BY <1>3, <1>4, <1>5 DEF s

-----------------------------------------------------------------------------
(* The other operations, field by field.                                     *)

LEMMA IsTrans ==
  ASSUME NEW db, NEW a, NEW d, NEW c, NEW f, Is(db, a, d, c, f)
  PROVE  IsDb(db) /\ db.pg = a /\ db.disk = d /\ db.catalog = c /\ db.page1 = f
  BY DEF Is

LEMMA FreeRowsFields ==
  ASSUME NEW db, Typed(db), NEW t \in DOMAIN db.catalog
  PROVE  Is(free_row_pages(db, t),
            [bitmap |-> db.pg.bitmap \ ToSet(Chain(db, db.catalog[t].first)),
             page_count |-> db.pg.page_count],
            db.disk, [db.catalog EXCEPT ![t] = Entry(0, 0, db.catalog[t].root)], db.page1)
  <1> DEFINE freed == ToSet(Chain(db, db.catalog[t].first))
             w == FreeAll(db, freed)
             a == [bitmap |-> db.pg.bitmap \ freed, page_count |-> db.pg.page_count]
             e == Entry(0, 0, db.catalog[t].root)
  <1>1. free_row_pages(db, t) = SetEntry(w, t, e)
    BY DEF free_row_pages
  <1> HIDE DEF freed
  <1>2. Is(w, a, db.disk, db.catalog, db.page1)
    BY FreeFields DEF Typed
  <1> HIDE DEF w, e, a
  <1>3. Is(SetEntry(w, t, e), w.pg, w.disk, [w.catalog EXCEPT ![t] = e], w.page1)
    BY <1>2, IsTrans, EntryFields
  <1>4. Is(SetEntry(w, t, e), a, db.disk, [db.catalog EXCEPT ![t] = e], db.page1)
    BY <1>2, <1>3, IsTrans
  <1>5. QED
    BY <1>1, <1>4 DEF a, e, freed

LEMMA FreeIndexFields ==
  ASSUME NEW db, Typed(db), NEW t \in DOMAIN db.catalog
  PROVE  LET entry == db.catalog[t]
         IN  /\ entry.root = 0 => FreeIndex(db, t) = db
             /\ entry.root # 0 =>
                  Is(FreeIndex(db, t),
                     [bitmap |-> db.pg.bitmap \ {entry.root}, page_count |-> db.pg.page_count],
                     db.disk, [db.catalog EXCEPT ![t] = Entry(entry.first, entry.last, 0)],
                     db.page1)
  <1> DEFINE freed == {db.catalog[t].root}
             w == FreeAll(db, freed)
             a == [bitmap |-> db.pg.bitmap \ freed, page_count |-> db.pg.page_count]
             e == Entry(db.catalog[t].first, db.catalog[t].last, 0)
  <1>1. FreeIndex(db, t) = IF db.catalog[t].root = 0 THEN db ELSE SetEntry(w, t, e)
    BY DEF FreeIndex
  <1> HIDE DEF freed
  <1>2. Is(w, a, db.disk, db.catalog, db.page1)
    BY FreeFields DEF Typed
  <1> HIDE DEF w, e, a
  <1>3. Is(SetEntry(w, t, e), w.pg, w.disk, [w.catalog EXCEPT ![t] = e], w.page1)
    BY <1>2, IsTrans, EntryFields
  <1>4. Is(SetEntry(w, t, e), a, db.disk, [db.catalog EXCEPT ![t] = e], db.page1)
    BY <1>2, <1>3, IsTrans
  <1>5. QED
    BY <1>1, <1>4 DEF a, e, freed

LEMMA NewIndexFields ==
  ASSUME NEW db, Typed(db), NEW t \in DOMAIN db.catalog, NEW entries
  PROVE  LET entry == db.catalog[t]
             q     == AllocatedPage(db.pg)
         IN  /\ q < 0 => NewIndex(db, t, entries) = db
             /\ ~(q < 0) =>
                  /\ q >= 0
                  /\ Is(NewIndex(db, t, entries), MarkAllocated(db.pg),
                        [db.disk EXCEPT ![q] = IndexPage(entries)],
                        [db.catalog EXCEPT ![t] = Entry(entry.first, entry.last, q)], db.page1)
  <1> DEFINE entry == db.catalog[t]
             q     == AllocatedPage(db.pg)
             alloc == [db EXCEPT !.pg = MarkAllocated(@)]
             page  == IndexPage(entries)
             e     == Entry(entry.first, entry.last, q)
             a     == MarkAllocated(db.pg)
  <1>1. NewIndex(db, t, entries) = IF q < 0 THEN db ELSE Stored(alloc, q, page, t, e)
    BY DEF NewIndex, Stored
  <1>2. IsDb(db) /\ db.pg \in Pagers
    BY DEF Typed
  <1>3. Is(alloc, a, db.disk, db.catalog, db.page1)
    <2>1. alloc = [db EXCEPT !.pg = a]
      OBVIOUS
    <2> HIDE DEF a, alloc
    <2>2. QED
      BY <1>2, <2>1, PartFields
  <1> HIDE DEF alloc, page, e
  <1>4. ASSUME ~(q < 0)
        PROVE  /\ q >= 0
               /\ Is(Stored(alloc, q, page, t, e), a, [db.disk EXCEPT ![q] = page],
                     [db.catalog EXCEPT ![t] = e], db.page1)
    <2>1. q >= 0
      BY <1>2, <1>4, AllocatedFacts
    <2>2. MarkWritten(a, q) = a
      BY <1>2, <2>1, AllocatedIsWritten
    <2> HIDE DEF a
    <2>3. Is(Stored(alloc, q, page, t, e), MarkWritten(alloc.pg, q),
             [alloc.disk EXCEPT ![q] = page], [alloc.catalog EXCEPT ![t] = e], alloc.page1)
      BY <1>3, IsTrans, StoredFields
    <2>4. QED
      BY <1>3, <2>1, <2>2, <2>3, IsTrans
  <1>5. QED
    BY <1>1, <1>4 DEF page, e

LEMMA AddRowFields ==
  ASSUME NEW db, Typed(db), NEW t, NEW row, NEW loc
  PROVE  LET root == db.catalog[t].root
             page == IndexPage(Read(db, root).entries \cup {<<row, loc>>})
         IN  /\ root = 0 => indexes_add_row(db, t, row, loc) = db
             /\ root # 0 =>
                  Is(indexes_add_row(db, t, row, loc), MarkWritten(db.pg, root),
                     [db.disk EXCEPT ![root] = page], db.catalog, db.page1)
  <1> DEFINE root == db.catalog[t].root
             page == IndexPage(Read(db, root).entries \cup {<<row, loc>>})
  <1>1. indexes_add_row(db, t, row, loc) = IF root = 0 THEN db ELSE WritePage(db, root, page)
    BY DEF indexes_add_row
  <1>2. IsDb(db)
    BY DEF Typed
  <1> HIDE DEF root, page
  <1>3. QED
    BY <1>1, <1>2, WriteFields DEF root, page

-----------------------------------------------------------------------------
(* Which links an operation makes: at most one page x is linked to, and x    *)
(* has no successor.                                                         *)
LinksGrow(d, e, x) ==
    \A p \in Pages : \/ e[p] = d[p]
                     \/ e[p].next = 0
                     \/ e[p].next = x /\ x # p /\ e[x].next = 0

LEMMA AppendKeeps ==
  ASSUME NEW db, Typed(db), NEW t \in DOMAIN db.catalog, NEW row \in Rows
  PROVE  LET r == row_page_append(db, t, row)
         IN  /\ Typed(r.db)
             /\ DOMAIN r.db.catalog = DOMAIN db.catalog
             /\ \E x \in Pages : LinksGrow(db.disk, r.db.disk, x)
  <1> DEFINE r == row_page_append(db, t, row)
             Keeps == /\ Typed(r.db)
                      /\ DOMAIN r.db.catalog = DOMAIN db.catalog
                      /\ \E x \in Pages : LinksGrow(db.disk, r.db.disk, x)
             entry == db.catalog[t]
             q     == AllocatedPage(db.pg)
             tail  == TailOf(db, t)
             rows  == Read(db, tail).rows
  <1>1. /\ db.pg \in Pagers /\ DiskTyped(db.disk) /\ CatalogTyped(db.catalog)
        /\ SavedTyped(db.page1)
        /\ entry.first \in Pages /\ entry.last \in Pages /\ entry.root \in Pages
    BY DEF Typed, CatalogTyped, Entries
  <1>2. \/ AppendFails(db, t, r) \/ AppendFirst(db, t, row, r)
        \/ AppendFits(db, t, row, r) \/ AppendNext(db, t, row, r)
    BY AppendOutcome
  <1>3. entry.last # 0 => tail \in Pages /\ tail # 0 /\ rows \in Seq(Rows)
    BY TailIsPage, ReadTyped
  <1>4. q >= 0 => q \in Pages /\ MarkAllocated(db.pg) \in Pagers
    BY <1>1, AllocatedIsWritten
  <1>5. <<>> \in Seq(Rows) /\ 0 \in Pages
    BY PagesFacts
  <1>0. SUFFICES Keeps
    OBVIOUS
  <1> HIDE DEF r
  <1>6. CASE AppendFails(db, t, r)
    <2>1. CASE r.db = db
      <3>1. LinksGrow(db.disk, r.db.disk, 0)
        BY <2>1 DEF LinksGrow
      <3>2. QED
        BY <1>5, <2>1, <3>1
    <2>2. CASE r.db # db
      <3> DEFINE e == Entry(entry.first, tail, entry.root)
                 c == [db.catalog EXCEPT ![t] = e]
      <3>1. entry.last # 0 /\ Is(r.db, db.pg, db.disk, c, db.page1)
        BY <1>6, <2>2 DEF AppendFails
      <3>2. e \in Entries
        BY <1>1, <1>3, <3>1, EntryTyped
      <3> HIDE DEF e
      <3>3. CatalogTyped(c) /\ DOMAIN c = DOMAIN db.catalog
        BY <1>1, <3>2, CatalogSet
      <3> HIDE DEF c
      <3>4. Typed(r.db) /\ r.db.catalog = c /\ r.db.disk = db.disk
        BY <1>1, <3>1, <3>3, TypedIs, IsTrans
      <3>5. LinksGrow(db.disk, r.db.disk, 0)
        BY <3>4 DEF LinksGrow
      <3>6. QED
        BY <1>5, <3>3, <3>4, <3>5
    <2>3. QED
      BY <2>1, <2>2
  <1>7. CASE AppendFirst(db, t, row, r)
    <2> DEFINE e == Entry(q, q, entry.root)
               c == [db.catalog EXCEPT ![t] = e]
               a == MarkAllocated(db.pg)
               one == RowPage(0, <<row>>)
               d == [db.disk EXCEPT ![q] = one]
    <2>1. q >= 0 /\ Is(r.db, a, d, c, Saved(c))
      BY <1>7 DEF AppendFirst
    <2>2. e \in Entries /\ q \in Pages /\ a \in Pagers
      BY <1>1, <1>4, <2>1, EntryTyped
    <2>3. PageTyped(one) /\ one.next = 0
      BY <1>5, PagesTyped DEF RowPage
    <2> HIDE DEF e, a, one
    <2>4. /\ CatalogTyped(c) /\ DOMAIN c = DOMAIN db.catalog /\ SavedTyped(Saved(c))
          /\ DiskTyped(d) /\ d[q] = one /\ \A p \in Pages : p # q => d[p] = db.disk[p]
      BY <1>1, <2>2, <2>3, CatalogSet, DiskWrite
    <2> HIDE DEF c, d
    <2>5. Typed(r.db) /\ r.db.catalog = c /\ r.db.disk = d
      BY <2>1, <2>2, <2>4, TypedIs, IsTrans
    <2>6. LinksGrow(db.disk, r.db.disk, 0)
      BY <2>3, <2>4, <2>5 DEF LinksGrow
    <2>7. QED
      BY <1>5, <2>4, <2>5, <2>6
  <1>8. CASE AppendFits(db, t, row, r)
    <2> DEFINE e == Entry(entry.first, tail, entry.root)
               c == [db.catalog EXCEPT ![t] = e]
               a == MarkWritten(db.pg, tail)
               full == RowPage(0, Append(rows, row))
               d == [db.disk EXCEPT ![tail] = full]
    <2>1. entry.last # 0 /\ Is(r.db, a, d, c, Saved(c))
      BY <1>8 DEF AppendFits
    <2>2. e \in Entries /\ tail \in Pages /\ a \in Pagers
      BY <1>1, <1>3, <2>1, EntryTyped, MarkWrittenTyped
    <2>3. PageTyped(full) /\ full.next = 0
      BY <1>3, <1>5, <2>1, PagesTyped DEF RowPage
    <2> HIDE DEF e, a, full
    <2>4. /\ CatalogTyped(c) /\ DOMAIN c = DOMAIN db.catalog /\ SavedTyped(Saved(c))
          /\ DiskTyped(d) /\ d[tail] = full /\ \A p \in Pages : p # tail => d[p] = db.disk[p]
      BY <1>1, <2>2, <2>3, CatalogSet, DiskWrite
    <2> HIDE DEF c, d
    <2>5. Typed(r.db) /\ r.db.catalog = c /\ r.db.disk = d
      BY <2>1, <2>2, <2>4, TypedIs, IsTrans
    <2>6. LinksGrow(db.disk, r.db.disk, 0)
      BY <2>3, <2>4, <2>5 DEF LinksGrow
    <2>7. QED
      BY <1>5, <2>4, <2>5, <2>6
  <1>9. CASE AppendNext(db, t, row, r)
    <2> DEFINE e == Entry(entry.first, q, entry.root)
               c == [db.catalog EXCEPT ![t] = e]
               a == MarkWritten(MarkWritten(MarkAllocated(db.pg), tail), q)
               link == RowPage(q, rows)
               one == RowPage(0, <<row>>)
               d1 == [db.disk EXCEPT ![tail] = link]
               d == [d1 EXCEPT ![q] = one]
    <2>1. q >= 0 /\ entry.last # 0 /\ Is(r.db, a, d, c, Saved(c))
      BY <1>9 DEF AppendNext
    <2>2. e \in Entries /\ tail \in Pages /\ q \in Pages /\ a \in Pagers
      BY <1>1, <1>3, <1>4, <2>1, EntryTyped, MarkWrittenTyped
    <2>3. PageTyped(one) /\ one.next = 0
      BY <1>5, PagesTyped DEF RowPage
    <2>4. PageTyped(link) /\ link.next = q
      BY <1>3, <2>1, <2>2, PagesTyped
    <2> HIDE DEF e, a, one, link
    <2>5. /\ CatalogTyped(c) /\ DOMAIN c = DOMAIN db.catalog /\ SavedTyped(Saved(c))
          /\ DiskTyped(d1) /\ d1[tail] = link /\ \A p \in Pages : p # tail => d1[p] = db.disk[p]
      BY <1>1, <2>2, <2>4, CatalogSet, DiskWrite
    <2> HIDE DEF c, d1
    <2>6. DiskTyped(d) /\ d[q] = one /\ \A p \in Pages : p # q => d[p] = d1[p]
      BY <2>2, <2>3, <2>5, DiskWrite
    <2> HIDE DEF d
    <2>7. Typed(r.db) /\ r.db.catalog = c /\ r.db.disk = d
      BY <2>1, <2>2, <2>5, <2>6, TypedIs, IsTrans
    <2>8. LinksGrow(db.disk, r.db.disk, q)
      BY <2>2, <2>3, <2>4, <2>5, <2>6, <2>7 DEF LinksGrow
    <2>9. QED
      BY <2>2, <2>5, <2>7, <2>8
  <1>10. QED
    BY <1>2, <1>6, <1>7, <1>8, <1>9

LEMMA AddRowKeeps ==
  ASSUME NEW db, Typed(db), NEW t \in DOMAIN db.catalog, NEW row, NEW loc
  PROVE  LET b == indexes_add_row(db, t, row, loc)
         IN  /\ Typed(b) /\ b.catalog = db.catalog
             /\ \A p \in Pages : b.disk[p] = db.disk[p] \/ b.disk[p].next = 0
  <1> DEFINE b == indexes_add_row(db, t, row, loc)
             root == db.catalog[t].root
             page == IndexPage(Read(db, root).entries \cup {<<row, loc>>})
             d == [db.disk EXCEPT ![root] = page]
  <1>1. root = 0 => b = db
    BY AddRowFields
  <1>2. root # 0 => Is(b, MarkWritten(db.pg, root), d, db.catalog, db.page1)
    BY AddRowFields
  <1>3. /\ db.pg \in Pagers /\ DiskTyped(db.disk) /\ CatalogTyped(db.catalog)
        /\ SavedTyped(db.page1) /\ root \in Pages
    BY DEF Typed, CatalogTyped, Entries
  <1>4. PageTyped(page) /\ page.next = 0
    <2>1. <<>> \in Seq(Rows)
      OBVIOUS
    <2>2. QED
      BY <2>1, PagesFacts DEF PageTyped, IndexPage
  <1> HIDE DEF b, root, page
  <1>5. DiskTyped(d) /\ d[root] = page /\ \A p \in Pages : p # root => d[p] = db.disk[p]
    BY <1>3, <1>4, DiskWrite
  <1> HIDE DEF d
  <1>6. CASE root = 0
    BY <1>1, <1>6 DEF b
  <1>7. CASE root # 0
    <2>1. Typed(b) /\ b.catalog = db.catalog /\ b.disk = d
      BY <1>2, <1>3, <1>5, <1>7, MarkWrittenTyped, TypedIs, IsTrans
    <2>2. QED
      BY <1>4, <1>5, <2>1 DEF b
  <1>8. QED
    BY <1>6, <1>7

LEMMA InsertKeeps ==
  ASSUME NEW db, Typed(db), NEW t \in DOMAIN db.catalog, NEW row \in Rows
  PROVE  LET b == catalog_insert(db, t, row)
         IN  /\ Typed(b)
             /\ DOMAIN b.catalog = DOMAIN db.catalog
             /\ \E x \in Pages : LinksGrow(db.disk, b.disk, x)
  <1> DEFINE r == row_page_append(db, t, row)
             b == catalog_insert(db, t, row)
             i == indexes_add_row(r.db, t, row, r.loc)
  <1>1. b = IF r.ok THEN i ELSE r.db
    BY DEF catalog_insert
  <1>2. /\ Typed(r.db) /\ DOMAIN r.db.catalog = DOMAIN db.catalog
        /\ \E x \in Pages : LinksGrow(db.disk, r.db.disk, x)
    BY AppendKeeps
  <1> HIDE DEF r, b
  <1>3. PICK x \in Pages : LinksGrow(db.disk, r.db.disk, x)
    BY <1>2
  <1>4. /\ Typed(i) /\ i.catalog = r.db.catalog
        /\ \A p \in Pages : i.disk[p] = r.db.disk[p] \/ i.disk[p].next = 0
    BY <1>2, AddRowKeeps
  <1> HIDE DEF i
  <1>5. LinksGrow(db.disk, i.disk, x)
    BY <1>3, <1>4 DEF LinksGrow
  <1>6. QED
    BY <1>1, <1>2, <1>3, <1>4, <1>5 DEF b

LEMMA FreedPager ==
  ASSUME NEW a \in Pagers, NEW freed
  PROVE  [bitmap |-> a.bitmap \ freed, page_count |-> a.page_count] \in Pagers
  BY DEF Pagers

LEMMA FreeRowsKeeps ==
  ASSUME NEW db, Typed(db), NEW t \in DOMAIN db.catalog
  PROVE  LET b == free_row_pages(db, t)
         IN  Typed(b) /\ DOMAIN b.catalog = DOMAIN db.catalog /\ b.disk = db.disk
  <1> DEFINE b == free_row_pages(db, t)
             e == Entry(0, 0, db.catalog[t].root)
             a == [bitmap |-> db.pg.bitmap \ ToSet(Chain(db, db.catalog[t].first)),
                   page_count |-> db.pg.page_count]
             c == [db.catalog EXCEPT ![t] = e]
  <1>1. Is(b, a, db.disk, c, db.page1)
    BY FreeRowsFields
  <1>2. /\ db.pg \in Pagers /\ DiskTyped(db.disk) /\ CatalogTyped(db.catalog)
        /\ SavedTyped(db.page1) /\ db.catalog[t].root \in Pages /\ 0 \in Pages
    BY PagesFacts DEF Typed, CatalogTyped, Entries
  <1>3. a \in Pagers /\ e \in Entries
    BY <1>2, FreedPager, EntryTyped
  <1> HIDE DEF b, a, e
  <1>4. CatalogTyped(c) /\ DOMAIN c = DOMAIN db.catalog
    BY <1>2, <1>3, CatalogSet
  <1> HIDE DEF c
  <1>5. Typed(b) /\ DOMAIN b.catalog = DOMAIN db.catalog /\ b.disk = db.disk
    BY <1>1, <1>2, <1>3, <1>4, TypedIs, IsTrans
  <1>6. QED
    BY <1>5 DEF b

LEMMA FreeIndexKeeps ==
  ASSUME NEW db, Typed(db), NEW t \in DOMAIN db.catalog
  PROVE  LET b == FreeIndex(db, t)
         IN  Typed(b) /\ DOMAIN b.catalog = DOMAIN db.catalog /\ b.disk = db.disk
  <1> DEFINE b == FreeIndex(db, t)
             root == db.catalog[t].root
             e == Entry(db.catalog[t].first, db.catalog[t].last, 0)
             a == [bitmap |-> db.pg.bitmap \ {root}, page_count |-> db.pg.page_count]
             c == [db.catalog EXCEPT ![t] = e]
  <1>1. (root = 0 => b = db) /\ (root # 0 => Is(b, a, db.disk, c, db.page1))
    BY FreeIndexFields
  <1>2. /\ db.pg \in Pagers /\ DiskTyped(db.disk) /\ CatalogTyped(db.catalog)
        /\ SavedTyped(db.page1) /\ 0 \in Pages
        /\ db.catalog[t].first \in Pages /\ db.catalog[t].last \in Pages
    BY PagesFacts DEF Typed, CatalogTyped, Entries
  <1>3. a \in Pagers /\ e \in Entries
    BY <1>2, FreedPager, EntryTyped
  <1> HIDE DEF b, a, e
  <1>4. CatalogTyped(c) /\ DOMAIN c = DOMAIN db.catalog
    BY <1>2, <1>3, CatalogSet
  <1> HIDE DEF c
  <1>5. Typed(b) /\ DOMAIN b.catalog = DOMAIN db.catalog /\ b.disk = db.disk
    BY <1>1, <1>2, <1>3, <1>4, TypedIs, IsTrans
  <1>6. QED
    BY <1>5 DEF b

LEMMA NewIndexKeeps ==
  ASSUME NEW db, Typed(db), NEW t \in DOMAIN db.catalog, NEW entries
  PROVE  LET b == NewIndex(db, t, entries)
         IN  /\ Typed(b) /\ DOMAIN b.catalog = DOMAIN db.catalog
             /\ \A p \in Pages : b.disk[p] = db.disk[p] \/ b.disk[p].next = 0
  <1> DEFINE b == NewIndex(db, t, entries)
             q == AllocatedPage(db.pg)
             e == Entry(db.catalog[t].first, db.catalog[t].last, q)
             a == MarkAllocated(db.pg)
             c == [db.catalog EXCEPT ![t] = e]
             page == IndexPage(entries)
             d == [db.disk EXCEPT ![q] = page]
  <1>1. (q < 0 => b = db) /\ (~(q < 0) => q >= 0 /\ Is(b, a, d, c, db.page1))
    BY NewIndexFields
  <1>2. /\ db.pg \in Pagers /\ DiskTyped(db.disk) /\ CatalogTyped(db.catalog)
        /\ SavedTyped(db.page1) /\ 0 \in Pages
        /\ db.catalog[t].first \in Pages /\ db.catalog[t].last \in Pages
    BY PagesFacts DEF Typed, CatalogTyped, Entries
  <1>3. PageTyped(page) /\ page.next = 0
    <2>1. <<>> \in Seq(Rows)
      OBVIOUS
    <2>2. QED
      BY <1>2, <2>1 DEF PageTyped, IndexPage
  <1> HIDE DEF b, page
  <1>0. SUFFICES /\ Typed(b) /\ DOMAIN b.catalog = DOMAIN db.catalog
                 /\ \A p \in Pages : b.disk[p] = db.disk[p] \/ b.disk[p].next = 0
    BY DEF b
  <1>4. CASE q < 0
    BY <1>1, <1>4
  <1>5. CASE ~(q < 0)
    <2>1. q \in Pages /\ a \in Pagers
      BY <1>1, <1>2, <1>5, AllocatedIsWritten
    <2>2. e \in Entries
      BY <1>2, <2>1, EntryTyped
    <2>3. Is(b, a, d, c, db.page1)
      BY <1>1, <1>5
    <2> HIDE DEF a, e, q
    <2>4. CatalogTyped(c) /\ DOMAIN c = DOMAIN db.catalog
      BY <1>2, <2>2, CatalogSet
    <2>5. DiskTyped(d) /\ d[q] = page /\ \A p \in Pages : p # q => d[p] = db.disk[p]
      BY <1>2, <1>3, <2>1, DiskWrite
    <2> HIDE DEF c, d
    <2>6. Typed(b) /\ b.catalog = c /\ b.disk = d
      BY <1>2, <2>1, <2>3, <2>4, <2>5, TypedIs, IsTrans
    <2>7. QED
      BY <1>3, <2>4, <2>5, <2>6
  <1>6. QED
    BY <1>4, <1>5

LEMMA ResetKeeps ==
  ASSUME NEW db, Typed(db), NEW t \in DOMAIN db.catalog
  PROVE  LET b == indexes_reset(db, t)
         IN  /\ Typed(b) /\ DOMAIN b.catalog = DOMAIN db.catalog
             /\ \A p \in Pages : b.disk[p] = db.disk[p] \/ b.disk[p].next = 0
  <1> DEFINE w == FreeIndex(db, t)
  <1>1. Typed(w) /\ DOMAIN w.catalog = DOMAIN db.catalog /\ w.disk = db.disk
    BY FreeIndexKeeps
  <1> HIDE DEF w
  <1> DEFINE b == NewIndex(w, t, {})
  <1>2. /\ Typed(b) /\ DOMAIN b.catalog = DOMAIN w.catalog
        /\ \A p \in Pages : b.disk[p] = w.disk[p] \/ b.disk[p].next = 0
    BY <1>1, NewIndexKeeps
  <1>3. indexes_reset(db, t) = IF db.catalog[t].root = 0 THEN db ELSE b
    BY DEF indexes_reset, w
  <1> HIDE DEF b
  <1>4. QED
    BY <1>1, <1>2, <1>3

LEMMA SaveKeeps ==
  ASSUME NEW db, Typed(db)
  PROVE  LET b == catalog_write_page(db)
         IN  /\ Typed(b) /\ b.pg = db.pg /\ b.disk = db.disk /\ b.catalog = db.catalog
             /\ b.page1 = Saved(db.catalog)
  <1>1. Is(catalog_write_page(db), db.pg, db.disk, db.catalog, Saved(db.catalog))
    BY SavedFields DEF Typed
  <1>2. SavedTyped(Saved(db.catalog))
    BY SavedIsTyped DEF Typed
  <1> DEFINE b == catalog_write_page(db)
             f == Saved(db.catalog)
  <1>3. /\ db.pg \in Pagers /\ DiskTyped(db.disk) /\ CatalogTyped(db.catalog)
    BY DEF Typed
  <1> HIDE DEF b, f
  <1>4. Is(b, db.pg, db.disk, db.catalog, f) /\ SavedTyped(f)
    BY <1>1, <1>2 DEF b, f
  <1>5. Typed(b)
    BY <1>3, <1>4, TypedIs
  <1>6. QED
    BY <1>4, <1>5, IsTrans DEF b, f

LEMMA RetableKeeps ==
  ASSUME NEW db, Typed(db), NEW c, CatalogTyped(c)
  PROVE  LET b == [db EXCEPT !.catalog = c]
         IN  Typed(b) /\ b.pg = db.pg /\ b.disk = db.disk /\ b.catalog = c
  <1> DEFINE b == [db EXCEPT !.catalog = c]
  <1>1. Is(b, db.pg, db.disk, c, db.page1)
    BY PartFields DEF Typed
  <1>2. db.pg \in Pagers /\ DiskTyped(db.disk) /\ SavedTyped(db.page1)
    BY DEF Typed
  <1> HIDE DEF b
  <1>3. Typed(b)
    BY <1>1, <1>2, TypedIs
  <1>4. QED
    BY <1>1, <1>3, IsTrans DEF b

-----------------------------------------------------------------------------
(* The rows a DELETE keeps.                                                  *)

NoDup(s) == \A i, j \in 1 .. Len(s) : s[i] = s[j] /\ s[i] # Null => i = j

IsKept(kept, rows, old) ==
    kept = [n \in 0 .. Len(rows) |->
               IF n = 0 THEN <<>>
               ELSE IF rows[n] = old THEN kept[n - 1] ELSE Append(kept[n - 1], rows[n])]

LEMMA KeptExists ==
  ASSUME NEW rows \in Seq(Rows), NEW old
  PROVE  \E kept : IsKept(kept, rows, old)
  <1> DEFINE S == Seq(Rows)
             m == Len(rows)
             base == <<>>
             Next1(n, s) == IF n \in 1 .. m /\ rows[n] # old THEN Append(s, rows[n]) ELSE s
             step == [x \in Nat \X S |-> Next1(x[1], x[2])]
  <1>1. m \in Nat /\ base \in S /\ \A n \in 1 .. m : rows[n] \in Rows
    OBVIOUS
  <1>2. \A n \in Nat, s \in S : step[<<n, s>>] = Next1(n, s)
    OBVIOUS
  <1>3. step \in [Nat \X S -> S]
    <2>1. \A s \in S, n \in 1 .. m : Append(s, rows[n]) \in S
      BY <1>1
    <2> HIDE DEF S, m, base
    <2>2. QED
      BY <1>1, <2>1
  <1> HIDE DEF S, m, base, step
  <1>4. PICK g : Recursive(g, S, base, step, m)
    BY <1>1, <1>3, RecursionExists
  <1>5. \A n \in 0 .. m : g[n] \in S
    BY <1>4 DEF Recursive
  <1>6. ASSUME NEW n \in 0 .. m
        PROVE  g[n] = IF n = 0 THEN <<>>
                      ELSE IF rows[n] = old THEN g[n - 1] ELSE Append(g[n - 1], rows[n])
    <2>1. CASE n = 0
      BY <1>4, <2>1 DEF Recursive, base
    <2>2. CASE n # 0
      <3>1. n \in 1 .. m /\ n - 1 \in 0 .. m /\ n \in Nat
        BY <1>1, <2>2
      <3>2. g[n] = step[<<n, g[n - 1]>>]
        BY <1>4, <3>1 DEF Recursive
      <3>3. g[n] = Next1(n, g[n - 1])
        BY <1>2, <1>5, <3>1, <3>2
      <3>4. QED
        BY <2>2, <3>1, <3>3
    <2>3. QED
      BY <2>1, <2>2
  <1>7. g = [n \in 0 .. m |-> g[n]]
    BY <1>4 DEF Recursive
  <1>8. [n \in 0 .. m |-> g[n]] =
           [n \in 0 .. m |-> IF n = 0 THEN <<>>
                      ELSE IF rows[n] = old THEN g[n - 1] ELSE Append(g[n - 1], rows[n])]
    BY <1>6
  <1>9. IsKept(g, rows, old)
    BY <1>7, <1>8 DEF IsKept, m
  <1>10. QED
    BY <1>9

\* s is made of rows at distinct places among the first n.
KeptOf(s, rows, n) ==
    /\ s \in Seq(Rows) /\ Len(s) <= n
    /\ \A i \in 1 .. Len(s) : \E j \in 1 .. n : s[i] = rows[j]
    /\ NoDup(rows) => NoDup(s)

LEMMA KeptAppend ==
  ASSUME NEW rows \in Seq(Rows), NEW n \in 1 .. Len(rows), NEW s, KeptOf(s, rows, n - 1)
  PROVE  KeptOf(s, rows, n) /\ KeptOf(Append(s, rows[n]), rows, n)
  <1> DEFINE m == Len(s)
             k == n - 1
             t == Append(s, rows[n])
  <1>1. /\ s \in Seq(Rows) /\ m \in Nat /\ m <= k /\ n \in Nat /\ k + 1 = n /\ k \in Nat
        /\ \A i \in 1 .. m : \E j \in 1 .. k : s[i] = rows[j]
        /\ NoDup(rows) => NoDup(s)
        /\ rows[n] \in Rows /\ n \in 1 .. Len(rows) /\ Len(rows) \in Nat
    BY DEF KeptOf
  <1>2. /\ t \in Seq(Rows) /\ Len(t) = m + 1 /\ t[m + 1] = rows[n]
        /\ \A i \in 1 .. m : t[i] = s[i]
    BY <1>1, AppendProperties
  <1> HIDE DEF m, k, t
  <1>3. \A i \in 1 .. m : \E j \in 1 .. n : s[i] = rows[j]
    BY <1>1
  <1>4. \A i \in 1 .. m + 1 : \E j \in 1 .. n : t[i] = rows[j]
    <2>1. ASSUME NEW i \in 1 .. m + 1 PROVE \E j \in 1 .. n : t[i] = rows[j]
      <3>1. CASE i = m + 1
        BY <1>1, <1>2, <3>1
      <3>2. CASE i # m + 1
        <4>1. i \in 1 .. m
          BY <1>1, <3>2
        <4>2. QED
          BY <1>2, <1>3, <4>1
      <3>3. QED
        BY <3>1, <3>2
    <2>2. QED
      BY <2>1
  <1>5. ASSUME NoDup(rows) PROVE NoDup(t)
    <2>1. \A i \in 1 .. m : s[i] = rows[n] => rows[n] = Null
      <3>1. SUFFICES ASSUME NEW i \in 1 .. m, s[i] = rows[n], rows[n] # Null PROVE FALSE
        OBVIOUS
      <3>2. PICK j \in 1 .. k : s[i] = rows[j]
        BY <1>1
      <3>3. j \in 1 .. Len(rows) /\ n \in 1 .. Len(rows) /\ j # n
        BY <1>1
      <3>4. QED
        BY <1>5, <3>1, <3>2, <3>3 DEF NoDup
    <2>2. \A i, j \in 1 .. m : s[i] = s[j] /\ s[i] # Null => i = j
      BY <1>1, <1>5 DEF NoDup, m
    <2>3. ASSUME NEW i \in 1 .. m + 1, NEW j \in 1 .. m + 1, t[i] = t[j], t[i] # Null
          PROVE  i = j
      <3>1. (i = m + 1 \/ i \in 1 .. m) /\ (j = m + 1 \/ j \in 1 .. m)
        BY <1>1
      <3>2. QED
        BY <1>2, <2>1, <2>2, <2>3, <3>1
    <2>4. QED
      BY <1>2, <2>3 DEF NoDup
  <1>6. KeptOf(s, rows, n)
    BY <1>1, <1>3 DEF KeptOf, m
  <1>7. KeptOf(t, rows, n)
    <2>1. m + 1 <= n
      BY <1>1
    <2>2. QED
      BY <1>2, <1>4, <1>5, <2>1 DEF KeptOf
  <1>8. QED
    BY <1>6, <1>7 DEF t

LEMMA UnmatchedFacts ==
  ASSUME NEW rows \in Seq(Rows), NEW old
  PROVE  KeptOf(Unmatched(rows, old), rows, Len(rows))
  <1> DEFINE kept == CHOOSE kept : IsKept(kept, rows, old)
             m == Len(rows)
  <1>1. IsKept(kept, rows, old)
    BY KeptExists
  <1>2. Unmatched(rows, old) = kept[m]
    BY DEF Unmatched, IsKept
  <1> HIDE DEF kept
  <1>3. m \in Nat /\ m \in 0 .. m
    OBVIOUS
  <1>4. ASSUME NEW n \in 0 .. m
        PROVE  /\ n = 0 => kept[n] = <<>>
               /\ n # 0 => kept[n] = kept[n - 1] \/ kept[n] = Append(kept[n - 1], rows[n])
    <2>1. kept[n] = IF n = 0 THEN <<>>
                    ELSE IF rows[n] = old THEN kept[n - 1] ELSE Append(kept[n - 1], rows[n])
      BY <1>1 DEF IsKept
    <2>2. QED
      BY <2>1
  <1> DEFINE T == {n \in 0 .. m : ~KeptOf(kept[n], rows, n)}
  <1>5. T \in SUBSET Nat
    OBVIOUS
  <1>6. ASSUME T # {} PROVE FALSE
    <2>1. PICK n \in T : \A j \in T : n <= j
      <3> HIDE DEF T
      <3>1. QED
        BY <1>5, <1>6, LeastElement
    <2>2. n \in 0 .. m /\ ~KeptOf(kept[n], rows, n)
      BY <2>1
    <2>3. CASE n = 0
      <3>1. kept[n] = <<>>
        BY <1>4, <2>2, <2>3
      <3>2. <<>> \in Seq(Rows) /\ Len(<<>>) = 0
        OBVIOUS
      <3>3. KeptOf(<<>>, rows, 0)
        BY <3>2 DEF KeptOf, NoDup
      <3>4. QED
        BY <2>2, <2>3, <3>1, <3>3
    <2>4. CASE n # 0
      <3>1. n - 1 \in 0 .. m /\ ~(n <= n - 1) /\ n \in 1 .. Len(rows)
        BY <1>3, <2>2, <2>4
      <3>2. KeptOf(kept[n - 1], rows, n - 1)
        BY <2>1, <3>1
      <3> DEFINE before == kept[n - 1]
      <3>3. KeptOf(before, rows, n - 1)
        BY <3>2
      <3>4. kept[n] = before \/ kept[n] = Append(before, rows[n])
        BY <1>4, <2>2, <2>4
      <3> HIDE DEF before
      <3>5. KeptOf(before, rows, n) /\ KeptOf(Append(before, rows[n]), rows, n)
        BY <3>1, <3>3, KeptAppend
      <3>6. QED
        BY <2>2, <3>4, <3>5
    <2>5. QED
      BY <2>3, <2>4
  <1>7. QED
    BY <1>2, <1>3, <1>6

-----------------------------------------------------------------------------
(* A database in order: a chain of pages c[t] for every table, and for every *)
(* page in use the place own[p] = <<t, i>> that it has: page i of the chain  *)
(* of t, or its index when i = 0.                                            *)

RowsOf(d, s) == FlattenSeq([i \in 1 .. Len(s) |-> d[s[i]].rows])

EntriesOf(d, s) ==
    UNION {{<<d[p].rows[i], <<p, i>>>> : i \in DOMAIN d[p].rows} : p \in ToSet(s)}

InUse(a) == a.bitmap \ {0, 1}

Linked(d, used, s, t, own) ==
    \A i \in 1 .. Len(s) : /\ s[i] \in used
                           /\ own[s[i]] = <<t, i>>
                           /\ d[s[i]].next = IF i < Len(s) THEN s[i + 1] ELSE 0

Entered(entry, used, s, t, own) ==
    /\ IF s = <<>> THEN entry.first = 0 /\ entry.last = 0
       ELSE entry.first = s[1] /\ \E k \in 1 .. Len(s) : entry.last = s[k]
    /\ entry.root # 0 => entry.root \in used /\ own[entry.root] = <<t, 0>>

OwnedBy(db, s, t, p) ==
    \/ \E i \in 1 .. Len(s) : s[i] = p
    \/ t \in DOMAIN db.catalog /\ db.catalog[t].root = p

Good(db, c, own) ==
    /\ Typed(db)
    /\ Sound(db.pg)
    /\ c \in [Tables -> Seq(Pages)]
    /\ DOMAIN own = Pages
    /\ \A t \in Tables : Linked(db.disk, InUse(db.pg), c[t], t, own)
    /\ \A t \in DOMAIN db.catalog : Entered(db.catalog[t], InUse(db.pg), c[t], t, own)
    /\ \A t \in Tables \ DOMAIN db.catalog : c[t] = <<>>
    /\ \A p \in InUse(db.pg) : \E t \in Tables : OwnedBy(db, c[t], t, p)

Counted(db, c) == \A t \in Tables : Len(c[t]) <= Len(RowsOf(db.disk, c[t]))

Indexed(db, c, t) ==
    t \in DOMAIN db.catalog /\ db.catalog[t].root # 0 =>
        db.disk[db.catalog[t].root].entries = EntriesOf(db.disk, c[t])

-----------------------------------------------------------------------------
(* In a database in order, a scan finds exactly the chain of its table.      *)

LEMMA InUseFacts ==
  ASSUME NEW db, Typed(db), Sound(db.pg), NEW p \in InUse(db.pg)
  PROVE  /\ p \in Pages /\ p # 0 /\ p # 1 /\ InFile(db.pg, p)
         /\ Read(db, p) = db.disk[p]
         /\ MarkWritten(db.pg, p) = db.pg
  <1>1. p \in db.pg.bitmap /\ p # 0 /\ p # 1 /\ db.pg.bitmap \subseteq Pages
    BY DEF Typed, Pagers, InUse
  <1>2. p \in Pages /\ p \in Nat /\ p < db.pg.page_count
    BY <1>1, PagesFacts DEF Sound
  <1>3. InFile(db.pg, p)
    BY <1>2 DEF InFile
  <1>4. QED
    BY <1>1, <1>2, <1>3 DEF Read, MarkWritten

LEMMA GoodChain ==
  ASSUME NEW db, NEW c, NEW own, Good(db, c, own), NEW t \in Tables
  PROVE  /\ c[t] \in Seq(Pages) /\ Len(c[t]) \in Nat /\ DOMAIN c[t] = 1 .. Len(c[t])
         /\ \A i \in 1 .. Len(c[t]) :
              /\ c[t][i] \in InUse(db.pg) /\ c[t][i] \in Pages /\ c[t][i] # 0
              /\ own[c[t][i]] = <<t, i>>
              /\ db.disk[c[t][i]].next = IF i < Len(c[t]) THEN c[t][i + 1] ELSE 0
              /\ InFile(db.pg, c[t][i])
              /\ Read(db, c[t][i]) = db.disk[c[t][i]]
              /\ row_page_next(db, c[t][i]) = IF i < Len(c[t]) THEN c[t][i + 1] ELSE 0
         /\ \A i, j \in 1 .. Len(c[t]) : c[t][i] = c[t][j] => i = j
  <1> DEFINE s == c[t]
             n == Len(s)
             used == InUse(db.pg)
  <1>1. s \in Seq(Pages) /\ n \in Nat /\ DOMAIN s = 1 .. n /\ Typed(db) /\ Sound(db.pg)
    BY DEF Good
  <1>2. \A i \in 1 .. n : s[i] \in used /\ own[s[i]] = <<t, i>>
                          /\ db.disk[s[i]].next = IF i < n THEN s[i + 1] ELSE 0
    <2>1. Linked(db.disk, used, s, t, own)
      BY DEF Good
    <2>2. QED
      BY <2>1 DEF Linked
  <1>3. \A p \in used : p \in Pages /\ p # 0 /\ InFile(db.pg, p) /\ Read(db, p) = db.disk[p]
    BY <1>1, InUseFacts
  <1> HIDE DEF s, n, used
  <1>4. ASSUME NEW i \in 1 .. n
        PROVE  row_page_next(db, s[i]) = IF i < n THEN s[i + 1] ELSE 0
    <2>1. Read(db, s[i]).next = IF i < n THEN s[i + 1] ELSE 0
      BY <1>2, <1>3
    <2>2. CASE i < n
      <3>1. i + 1 \in 1 .. n
        BY <1>1, <2>2
      <3>2. InFile(db.pg, s[i + 1])
        BY <1>2, <1>3, <3>1
      <3>3. QED
        BY <2>1, <2>2, <3>2 DEF row_page_next
    <2>3. CASE ~(i < n)
      BY <2>1, <2>3 DEF row_page_next
    <2>4. QED
      BY <2>2, <2>3
  <1>5. \A i, j \in 1 .. n : s[i] = s[j] => i = j
    <2>1. SUFFICES ASSUME NEW i \in 1 .. n, NEW j \in 1 .. n, s[i] = s[j] PROVE i = j
      OBVIOUS
    <2>2. <<t, i>> = <<t, j>>
      BY <1>2, <2>1
    <2>3. QED
      BY <2>2
  <1>6. QED
    BY <1>1, <1>2, <1>3, <1>4, <1>5 DEF s, n, used

LEMMA ChainFits ==
  ASSUME NEW db, NEW c, NEW own, Good(db, c, own), NEW t \in Tables
  PROVE  Len(c[t]) <= BitmapBits
  <1> DEFINE s == c[t]
             n == Len(s)
  <1>1. s \in Seq(Pages) /\ n \in Nat /\ \A i, j \in 1 .. n : s[i] = s[j] => i = j
    BY GoodChain
  <1>2. IsFiniteSet(1 .. n) /\ Cardinality(1 .. n) = n
    BY <1>1, FS_Interval
  <1>3. IsFiniteSet(Pages) /\ Cardinality(Pages) = BitmapBits /\ BitmapBits \in Nat
    BY BitmapAssumption, FS_Interval DEF Pages
  <1>4. s \in [1 .. n -> Pages]
    BY <1>1
  <1> HIDE DEF s, n
  <1>5. ~(Cardinality(Pages) < Cardinality(1 .. n))
    BY <1>1, <1>2, <1>3, <1>4, FS_PigeonHole
  <1>6. QED
    BY <1>1, <1>2, <1>3, <1>5 DEF s, n

Suffix(s, k) == SubSeq(s, k, Len(s))

LEMMA SuffixFacts ==
  ASSUME NEW S, NEW s \in Seq(S), NEW k \in 1 .. Len(s)
  PROVE  /\ Suffix(s, k) \in Seq(S) /\ Len(Suffix(s, k)) = Len(s) - k + 1
         /\ Suffix(s, 1) = s
         /\ Suffix(s, k) # <<>> /\ Last(Suffix(s, k)) = s[Len(s)]
         /\ k = Len(s) => Suffix(s, k) = <<s[k]>>
         /\ k < Len(s) => Suffix(s, k) = <<s[k]>> \o Suffix(s, k + 1)
  <1> DEFINE n == Len(s)
             m == n - k + 1
             r == SubSeq(s, k, n)
             q == SubSeq(s, k + 1, n)
  <1>1. n \in Nat /\ m \in Nat /\ m # 0 /\ m \in 1 .. m /\ k + m - 1 = n
        /\ k \in Int /\ n \in Int /\ k <= n /\ n \in k .. n /\ k \in 1 .. n
        /\ k + 1 \in Int
    OBVIOUS
  <1>2. \A i \in 1 .. n : s[i] \in S
    OBVIOUS
  <1>3. \A i \in k .. n : s[i] \in S
    BY <1>1, <1>2
  <1>4. r \in Seq(S) /\ Len(r) = m /\ \A i \in 1 .. m : r[i] = s[k + i - 1]
    BY <1>1, <1>3, SubSeqProperties
  <1>5. r = <<s[k]>> \o q
    BY <1>1, SubSeqRecursiveFirst
  <1>6. SubSeq(s, 1, n) = s
    BY SubSeqFull
  <1>7. k = n => q = <<>>
    BY <1>1, SubSeqEmpty
  <1> HIDE DEF n, m, r, q
  <1>8. r # <<>> /\ Last(r) = s[n]
    BY <1>1, <1>4 DEF Last
  <1>9. k = n => r = <<s[k]>>
    <2>1. SUFFICES ASSUME k = n PROVE r = <<s[k]>>
      OBVIOUS
    <2>2. <<s[k]>> \in Seq(S)
      BY <1>1, <1>2
    <2>3. <<s[k]>> \o <<>> = <<s[k]>>
      BY <2>2, ConcatEmptySeq
    <2>4. QED
      BY <1>5, <1>7, <2>1, <2>3
  <1>10. QED
    BY <1>1, <1>4, <1>5, <1>6, <1>8, <1>9 DEF n, m, r, q, Suffix

LEMMA ChainIs ==
  ASSUME NEW db, NEW c, NEW own, Good(db, c, own), NEW t \in Tables, NEW k \in 1 .. Len(c[t])
  PROVE  Chain(db, c[t][k]) = Suffix(c[t], k)
  <1> DEFINE s == c[t]
             n == Len(s)
  <1>1. Typed(db) /\ s \in Seq(Pages) /\ n \in Nat /\ n <= BitmapBits /\ BitmapBits \in Nat
    BY GoodChain, ChainFits, BitmapAssumption DEF Good
  <1>2. \A i \in 1 .. n : /\ s[i] \in Pages /\ s[i] # 0
                          /\ row_page_next(db, s[i]) = IF i < n THEN s[i + 1] ELSE 0
    BY GoodChain
  <1>3. \A i \in 1 .. n : /\ i = n => Suffix(s, i) = <<s[i]>>
                          /\ i < n => Suffix(s, i) = <<s[i]>> \o Suffix(s, i + 1)
    <2>1. \A i \in 1 .. Len(s) : /\ i = Len(s) => Suffix(s, i) = <<s[i]>>
                                 /\ i < Len(s) => Suffix(s, i) = <<s[i]>> \o Suffix(s, i + 1)
      <3> HIDE DEF s
      <3>1. QED
        BY <1>1, SuffixFacts
    <2>2. QED
      BY <2>1
  <1>4. PICK walk :
           /\ \A q : Chain(db, q) = walk[BitmapBits][q]
           /\ \A j \in 0 .. BitmapBits, q \in Pages :
                walk[j][q] = IF j = 0 \/ q = 0 THEN <<>>
                             ELSE <<q>> \o walk[j - 1][row_page_next(db, q)]
    BY <1>1, ChainIsWalk
  <1>0. SUFFICES Chain(db, s[k]) = Suffix(s, k)
    OBVIOUS
  <1>5. k \in 1 .. n
    OBVIOUS
  <1> HIDE DEF s, n
  <1> DEFINE At(i) == \A j \in 0 .. BitmapBits : n - i + 1 <= j => walk[j][s[i]] = Suffix(s, i)
             T == {m \in 0 .. n - 1 : ~At(n - m)}
  <1>6. T \in SUBSET Nat
    OBVIOUS
  <1>7. ASSUME T # {} PROVE FALSE
    <2>1. PICK m \in T : \A h \in T : m <= h
      <3> HIDE DEF T
      <3>1. QED
        BY <1>6, <1>7, LeastElement
    <2> DEFINE i == n - m
    <2>2. i \in 1 .. n /\ m \in 0 .. n - 1 /\ ~At(i) /\ i + 1 = n - (m - 1)
      <3>1. m \in 0 .. n - 1 /\ ~At(i)
        BY <2>1
      <3> HIDE DEF At
      <3>2. i \in 1 .. n /\ i + 1 = n - (m - 1)
        BY <1>1, <3>1
      <3>3. QED
        BY <3>1, <3>2
    <2> HIDE DEF i
    <2>3. PICK j \in 0 .. BitmapBits : n - i + 1 <= j /\ walk[j][s[i]] # Suffix(s, i)
      BY <2>2
    <2>4. j # 0 /\ j - 1 \in 0 .. BitmapBits
      BY <1>1, <2>2, <2>3
    <2>5. walk[j][s[i]] = <<s[i]>> \o walk[j - 1][row_page_next(db, s[i])]
      BY <1>2, <1>4, <2>2, <2>3, <2>4
    <2>6. CASE i = n
      <3>1. row_page_next(db, s[i]) = 0 /\ s[i] \in Pages
        BY <1>1, <1>2, <2>2, <2>6
      <3>2. walk[j - 1][0] = <<>>
        BY <1>4, <2>4, PagesFacts
      <3>3. <<s[i]>> \o <<>> = <<s[i]>>
        <4>1. <<s[i]>> \in Seq(Pages)
          BY <3>1
        <4>2. QED
          BY <4>1, ConcatEmptySeq
      <3>4. QED
        BY <1>3, <2>2, <2>3, <2>5, <2>6, <3>1, <3>2, <3>3
    <2>7. CASE i # n
      <3>1. i < n /\ i + 1 \in 1 .. n /\ m - 1 \in 0 .. n - 1 /\ ~(m <= m - 1)
            /\ n - (i + 1) + 1 <= j - 1
        <4>0. i \in 1 .. n /\ n \in Nat
          BY <1>1, <2>2
        <4>1. i < n /\ i + 1 \in 1 .. n
          BY <4>0, <2>7
        <4>2. m - 1 \in 0 .. n - 1 /\ ~(m <= m - 1)
          BY <1>1, <2>2, <2>7 DEF i
        <4>3. i \in Int /\ j \in Int /\ n - i + 1 <= j
          BY <1>1, <2>2, <2>3
        <4>4. n - (i + 1) + 1 <= j - 1
          BY <1>1, <4>3
        <4>5. QED
          BY <4>1, <4>2, <4>4
      <3>2. At(n - (m - 1))
        BY <2>1, <3>1
      <3>3. walk[j - 1][s[i + 1]] = Suffix(s, i + 1)
        BY <2>2, <2>4, <3>1, <3>2
      <3>4. row_page_next(db, s[i]) = s[i + 1]
        BY <1>2, <2>2, <3>1
      <3>5. QED
        BY <1>3, <2>2, <2>3, <2>5, <3>1, <3>3, <3>4
    <2>8. QED
      BY <2>6, <2>7
  <1>8. At(k)
    <2>1. n - k \in 0 .. n - 1 /\ n - (n - k) = k
      BY <1>1, <1>5
    <2>2. n - k \notin T
      BY <1>7
    <2>3. At(n - (n - k))
      BY <2>1, <2>2
    <2>4. QED
      BY <2>1, <2>3
  <1>9. walk[BitmapBits][s[k]] = Suffix(s, k)
    <2>1. n - k + 1 <= BitmapBits /\ BitmapBits \in 0 .. BitmapBits
      BY <1>1, <1>5
    <2>2. QED
      BY <1>8, <2>1
  <1>10. QED
    BY <1>4, <1>9

-----------------------------------------------------------------------------
(* The rows and the index entries of a chain.                                *)

LEMMA PageRows ==
  ASSUME NEW d, DiskTyped(d), NEW s \in Seq(Pages)
  PROVE  /\ [i \in 1 .. Len(s) |-> d[s[i]].rows] \in Seq(Seq(Rows))
         /\ Len([i \in 1 .. Len(s) |-> d[s[i]].rows]) = Len(s)
         /\ RowsOf(d, s) \in Seq(Rows)
  <1> DEFINE n == Len(s)
             U == Seq(Rows)
             ss == [i \in 1 .. n |-> d[s[i]].rows]
  <1>1. n \in Nat /\ \A i \in 1 .. n : d[s[i]].rows \in U
    BY DEF DiskTyped
  <1> HIDE DEF n, U
  <1>2. ss \in Seq(U) /\ Len(ss) = n
    BY <1>1
  <1>3. FlattenSeq(ss) \in Seq(Rows)
    <2> HIDE DEF ss
    <2>1. ss \in Seq(Seq(Rows))
      BY <1>2 DEF U
    <2>2. QED
      BY <2>1, FlattenType
  <1>4. QED
    BY <1>2, <1>3 DEF RowsOf, n, U

LEMMA RowsSame ==
  ASSUME NEW d, NEW e, NEW s, \A i \in 1 .. Len(s) : e[s[i]].rows = d[s[i]].rows
  PROVE  RowsOf(e, s) = RowsOf(d, s)
  <1>1. [i \in 1 .. Len(s) |-> e[s[i]].rows] = [i \in 1 .. Len(s) |-> d[s[i]].rows]
    OBVIOUS
  <1>2. QED
    BY <1>1 DEF RowsOf

LEMMA RowsOfNone ==
  ASSUME NEW d
  PROVE  RowsOf(d, <<>>) = <<>>
  <1>1. [i \in 1 .. Len(<<>>) |-> d[<<>>[i]].rows] = <<>>
    OBVIOUS
  <1>2. QED
    BY <1>1, FlattenEmpty DEF RowsOf

\* A page more at the end of a chain.
LEMMA RowsPushed ==
  ASSUME NEW d, NEW e, DiskTyped(d), DiskTyped(e), NEW s \in Seq(Pages), NEW q \in Pages,
         \A i \in 1 .. Len(s) : e[s[i]].rows = d[s[i]].rows
  PROVE  RowsOf(e, Append(s, q)) = RowsOf(d, s) \o e[q].rows
  <1> DEFINE n == Len(s)
             r == Append(s, q)
             U == Seq(Rows)
             ss == [i \in 1 .. n |-> d[s[i]].rows]
             tt == [i \in 1 .. Len(r) |-> e[r[i]].rows]
             last == e[q].rows
  <1>1. /\ r \in Seq(Pages) /\ Len(r) = n + 1 /\ r[n + 1] = q /\ n \in Nat
        /\ \A i \in 1 .. n : r[i] = s[i]
    BY AppendProperties
  <1>2. ss \in Seq(U) /\ Len(ss) = n /\ last \in U
    BY PageRows DEF DiskTyped
  <1>3. \A i \in 1 .. n : ss[i] = e[s[i]].rows
    OBVIOUS
  <1> HIDE DEF n, r, U, ss
  <1>4. tt = Append(ss, last)
    <2> DEFINE uu == Append(ss, last)
    <2>1. /\ uu \in Seq(U) /\ Len(uu) = n + 1 /\ uu[n + 1] = last
          /\ \A i \in 1 .. n : uu[i] = ss[i]
      BY <1>2, AppendProperties
    <2> HIDE DEF uu
    <2>2. \A i \in 1 .. n + 1 : uu[i] = e[r[i]].rows
      <3>1. SUFFICES ASSUME NEW i \in 1 .. n + 1 PROVE uu[i] = e[r[i]].rows
        OBVIOUS
      <3>2. i = n + 1 \/ i \in 1 .. n
        BY <1>1
      <3>3. QED
        BY <1>1, <1>3, <2>1, <3>2
    <2>3. uu = [i \in 1 .. n + 1 |-> uu[i]]
      BY <2>1
    <2>4. [i \in 1 .. n + 1 |-> uu[i]] = [i \in 1 .. n + 1 |-> e[r[i]].rows]
      BY <2>2
    <2>5. QED
      BY <1>1, <2>3, <2>4 DEF uu
  <1>5. FlattenSeq(Append(ss, last)) = FlattenSeq(ss) \o last
    <2>1. ss \in Seq(Seq(Rows)) /\ last \in Seq(Rows)
      BY <1>2 DEF U
    <2> HIDE DEF last
    <2>2. QED
      BY <2>1, FlattenAppend
  <1>6. QED
    BY <1>4, <1>5 DEF RowsOf, r, ss, n

LEMMA FrontOf ==
  ASSUME NEW S, NEW s \in Seq(S), s # <<>>
  PROVE  LET f == SubSeq(s, 1, Len(s) - 1)
         IN  /\ f \in Seq(S) /\ Len(f) = Len(s) - 1 /\ Len(s) \in Nat /\ Len(s) # 0
             /\ s[Len(s)] \in S
             /\ s = Append(f, s[Len(s)])
             /\ \A i \in 1 .. Len(f) : f[i] = s[i] /\ i \in 1 .. Len(s) /\ i < Len(s)
  <1> DEFINE n == Len(s)
             m == n - 1
             f == SubSeq(s, 1, m)
             g == Append(f, s[n])
  <1>1. n \in Nat /\ n # 0 /\ m \in Nat /\ m + 1 = n /\ n \in 1 .. n /\ 1 \in Int /\ m \in Int
        /\ m - 1 + 1 = m /\ \A i \in 1 .. m : 1 + i - 1 = i /\ i \in 1 .. n /\ i < n
    OBVIOUS
  <1>2. \A i \in 1 .. n : s[i] \in S
    OBVIOUS
  <1>3. \A i \in 1 .. m : s[i] \in S
    BY <1>1, <1>2
  <1> HIDE DEF n, m
  <1>4. /\ f \in Seq(S) /\ Len(f) = (IF 1 <= m THEN m - 1 + 1 ELSE 0)
        /\ \A i \in 1 .. m - 1 + 1 : f[i] = s[1 + i - 1]
    BY <1>1, <1>3, SubSeqProperties
  <1>5. Len(f) = m
    BY <1>1, <1>4
  <1>6. \A i \in 1 .. m : f[i] = s[i]
    BY <1>1, <1>4
  <1> HIDE DEF f
  <1>7. s[n] \in S
    BY <1>1, <1>2
  <1>8. /\ g \in Seq(S) /\ Len(g) = m + 1 /\ g[m + 1] = s[n] /\ \A i \in 1 .. m : g[i] = f[i]
    BY <1>4, <1>5, <1>7, AppendProperties
  <1> HIDE DEF g
  <1>9. \A i \in 1 .. n : g[i] = s[i]
    <2>1. SUFFICES ASSUME NEW i \in 1 .. n PROVE g[i] = s[i]
      OBVIOUS
    <2>2. i = n \/ i \in 1 .. m
      BY <1>1
    <2>3. QED
      BY <1>1, <1>6, <1>8, <2>2
  <1>10. g = s
    BY <1>1, <1>8, <1>9, SeqEqual DEF n
  <1>11. QED
    BY <1>1, <1>4, <1>5, <1>6, <1>7, <1>10 DEF n, m, f, g

\* A row more at the end of the last page.
LEMMA RowsGrow ==
  ASSUME NEW d, NEW e, DiskTyped(d), DiskTyped(e), NEW s \in Seq(Pages), s # <<>>,
         NEW row \in Rows,
         \A i \in 1 .. Len(s) : i < Len(s) => e[s[i]].rows = d[s[i]].rows,
         e[s[Len(s)]].rows = Append(d[s[Len(s)]].rows, row)
  PROVE  RowsOf(e, s) = Append(RowsOf(d, s), row)
  <1> DEFINE n == Len(s)
             f == SubSeq(s, 1, n - 1)
             q == s[n]
             old == d[q].rows
  <1>1. /\ f \in Seq(Pages) /\ q \in Pages /\ s = Append(f, q)
        /\ \A i \in 1 .. Len(f) : f[i] = s[i] /\ i \in 1 .. Len(s) /\ i < Len(s)
    BY FrontOf
  <1> HIDE DEF f
  <1>2. \A i \in 1 .. Len(f) : e[f[i]].rows = d[f[i]].rows
    BY <1>1
  <1> HIDE DEF n
  <1>3. old \in Seq(Rows) /\ e[q].rows = Append(old, row)
    BY <1>1 DEF DiskTyped, n
  <1> HIDE DEF q
  <1>4. RowsOf(e, Append(f, q)) = RowsOf(d, f) \o e[q].rows
    BY <1>1, <1>2, RowsPushed
  <1>5. RowsOf(d, Append(f, q)) = RowsOf(d, f) \o old
    BY <1>1, RowsPushed
  <1>6. RowsOf(d, f) \in Seq(Rows)
    BY <1>1, PageRows
  <1> HIDE DEF old
  <1>7. RowsOf(d, f) \o Append(old, row) = Append(RowsOf(d, f) \o old, row)
    <2> DEFINE a == RowsOf(d, f)
    <2>1. a \in Seq(Rows) /\ old \in Seq(Rows)
      BY <1>3, <1>6
    <2> HIDE DEF a
    <2>2. /\ Append(old, row) = old \o <<row>> /\ <<row>> \in Seq(Rows)
          /\ a \o old \in Seq(Rows)
      BY <2>1, ConcatProperties
    <2>3. Append(a \o old, row) = (a \o old) \o <<row>>
      BY <2>2
    <2>4. (a \o old) \o <<row>> = a \o (old \o <<row>>)
      BY <2>1, <2>2, ConcatAssociative
    <2>5. QED
      BY <2>2, <2>3, <2>4 DEF a
  <1>8. QED
    BY <1>1, <1>3, <1>4, <1>5, <1>7

EntryIn(d, s, x) ==
    \E j \in 1 .. Len(s) : \E i \in DOMAIN d[s[j]].rows :
       x = <<d[s[j]].rows[i], <<s[j], i>>>>

LEMMA EntriesIn ==
  ASSUME NEW d, NEW s, DOMAIN s = 1 .. Len(s), NEW x
  PROVE  x \in EntriesOf(d, s) <=> EntryIn(d, s, x)
  <1>1. x \in EntriesOf(d, s) <=>
           \E p \in ToSet(s) : \E i \in DOMAIN d[p].rows : x = <<d[p].rows[i], <<p, i>>>>
    BY DEF EntriesOf
  <1>2. \A p : p \in ToSet(s) <=> \E j \in 1 .. Len(s) : p = s[j]
    BY DEF ToSet
  <1>3. QED
    BY <1>1, <1>2 DEF EntryIn

LEMMA EntriesSame ==
  ASSUME NEW d, NEW e, NEW s, DOMAIN s = 1 .. Len(s),
         \A i \in 1 .. Len(s) : e[s[i]].rows = d[s[i]].rows
  PROVE  EntriesOf(e, s) = EntriesOf(d, s)
  <1>1. \A x : x \in EntriesOf(e, s) <=> x \in EntriesOf(d, s)
    BY EntriesIn DEF EntryIn
  <1>2. QED
    BY <1>1

LEMMA EntriesOfNone ==
  ASSUME NEW d
  PROVE  EntriesOf(d, <<>>) = {}
  BY DEF EntriesOf, ToSet

\* The pages of s hold in e what they hold in d; page q holds one row.
SameRows(d, e, s) == \A i \in 1 .. Len(s) : e[s[i]].rows = d[s[i]].rows
HoldsRow(e, q, row) == e[q].rows = <<row>>

LEMMA EntriesPushed ==
  ASSUME NEW d, NEW e, NEW s \in Seq(Pages), NEW q \in Pages, NEW row,
         SameRows(d, e, s), HoldsRow(e, q, row)
  PROVE  EntriesOf(e, Append(s, q)) = EntriesOf(d, s) \cup {<<row, <<q, 1>>>>}
  <1> DEFINE n == Len(s)
             r == Append(s, q)
             new == <<row, <<q, 1>>>>
  <1>1. /\ r \in Seq(Pages) /\ Len(r) = n + 1 /\ r[n + 1] = q /\ n \in Nat
        /\ DOMAIN r = 1 .. Len(r) /\ DOMAIN s = 1 .. n
        /\ \A i \in 1 .. n : r[i] = s[i] /\ i \in 1 .. n + 1
    BY AppendProperties
  <1>2. DOMAIN e[q].rows = {1} /\ e[q].rows[1] = row
    BY DEF HoldsRow
  <1>3. \A i \in 1 .. n : e[s[i]].rows = d[s[i]].rows
    BY DEF SameRows
  <1>4. ASSUME NEW x
        PROVE  x \in EntriesOf(d, s) <=>
                 \E j \in 1 .. n : \E i \in DOMAIN d[s[j]].rows :
                   x = <<d[s[j]].rows[i], <<s[j], i>>>>
    BY <1>1, EntriesIn DEF EntryIn
  <1>5. ASSUME NEW x
        PROVE  x \in EntriesOf(e, r) <=>
                 \E j \in 1 .. n + 1 : \E i \in DOMAIN e[r[j]].rows :
                   x = <<e[r[j]].rows[i], <<r[j], i>>>>
    <2> HIDE DEF r
    <2>1. DOMAIN r = 1 .. Len(r)
      BY <1>1
    <2>2. x \in EntriesOf(e, r) <=> EntryIn(e, r, x)
      BY <2>1, EntriesIn
    <2>3. QED
      BY <1>1, <2>2 DEF EntryIn
  <1> HIDE DEF n, r
  <1>6. ASSUME NEW x \in EntriesOf(e, r) PROVE x \in EntriesOf(d, s) \/ x = new
    <2>1. PICK j \in 1 .. n + 1 : \E i \in DOMAIN e[r[j]].rows :
                                    x = <<e[r[j]].rows[i], <<r[j], i>>>>
      BY <1>5
    <2>2. PICK i \in DOMAIN e[r[j]].rows : x = <<e[r[j]].rows[i], <<r[j], i>>>>
      BY <2>1
    <2>3. CASE j = n + 1
      <3>1. i = 1 /\ r[j] = q
        BY <1>1, <1>2, <2>2, <2>3
      <3>2. QED
        BY <1>2, <2>2, <3>1
    <2>4. CASE j # n + 1
      <3>1. j \in 1 .. n
        BY <1>1, <2>4
      <3>2. e[r[j]].rows = d[s[j]].rows /\ r[j] = s[j]
        BY <1>1, <1>3, <3>1
      <3>3. QED
        BY <1>4, <2>2, <3>1, <3>2
    <2>5. QED
      BY <2>3, <2>4
  <1>7. ASSUME NEW x \in EntriesOf(d, s) PROVE x \in EntriesOf(e, r)
    <2>1. PICK j \in 1 .. n : \E i \in DOMAIN d[s[j]].rows :
                                    x = <<d[s[j]].rows[i], <<s[j], i>>>>
      BY <1>4
    <2>2. e[r[j]].rows = d[s[j]].rows /\ r[j] = s[j] /\ j \in 1 .. n + 1
      BY <1>1, <1>3
    <2>3. QED
      BY <1>5, <2>1, <2>2
  <1>8. new \in EntriesOf(e, r)
    <2>1. n + 1 \in 1 .. n + 1
      BY <1>1
    <2>2. QED
      BY <1>1, <1>2, <1>5, <2>1
  <1>9. EntriesOf(e, r) = EntriesOf(d, s) \cup {new}
    BY <1>6, <1>7, <1>8
  <1>10. QED
    BY <1>9 DEF r

LEMMA EntriesGrow ==
  ASSUME NEW d, NEW e, DiskTyped(d), NEW s \in Seq(Pages), s # <<>>, NEW row \in Rows,
         \A i \in 1 .. Len(s) : i < Len(s) => e[s[i]].rows = d[s[i]].rows,
         e[s[Len(s)]].rows = Append(d[s[Len(s)]].rows, row)
  PROVE  EntriesOf(e, s) =
            EntriesOf(d, s) \cup {<<row, <<s[Len(s)], Len(d[s[Len(s)]].rows) + 1>>>>}
  <1> DEFINE n == Len(s)
             q == s[n]
             old == d[q].rows
             m == Len(old)
             new == <<row, <<q, m + 1>>>>
  <1>1. n \in Nat /\ n \in 1 .. n /\ DOMAIN s = 1 .. n /\ q \in Pages
    <2>1. n # 0 /\ n \in Nat
      OBVIOUS
    <2>2. QED
      BY <2>1
  <1>2. old \in Seq(Rows)
    BY <1>1 DEF DiskTyped
  <1>2a. \A i \in 1 .. n : i < n => e[s[i]].rows = d[s[i]].rows
    OBVIOUS
  <1>2b. e[q].rows = Append(old, row)
    OBVIOUS
  <1> HIDE DEF old
  <1>3. /\ DOMAIN old = 1 .. m /\ m \in Nat
        /\ DOMAIN e[q].rows = 1 .. m + 1 /\ e[q].rows[m + 1] = row
        /\ \A i \in 1 .. m : e[q].rows[i] = old[i] /\ i \in 1 .. m + 1
    <2> DEFINE r == Append(old, row)
    <2>1. /\ r \in Seq(Rows) /\ Len(r) = m + 1 /\ r[m + 1] = row
          /\ \A i \in 1 .. m : r[i] = old[i]
      BY <1>2, AppendProperties
    <2> HIDE DEF r
    <2>2. DOMAIN r = 1 .. m + 1 /\ DOMAIN old = 1 .. m /\ m \in Nat
      BY <1>2, <2>1
    <2>3. QED
      BY <1>2b, <2>1, <2>2 DEF r
  <1>4. ASSUME NEW x
        PROVE  /\ x \in EntriesOf(d, s) <=>
                    \E j \in 1 .. n : \E i \in DOMAIN d[s[j]].rows :
                       x = <<d[s[j]].rows[i], <<s[j], i>>>>
               /\ x \in EntriesOf(e, s) <=>
                    \E j \in 1 .. n : \E i \in DOMAIN e[s[j]].rows :
                       x = <<e[s[j]].rows[i], <<s[j], i>>>>
    <2>1. DOMAIN s = 1 .. Len(s)
      BY <1>1
    <2>2. (x \in EntriesOf(d, s) <=> EntryIn(d, s, x)) /\ (x \in EntriesOf(e, s) <=> EntryIn(e, s, x))
      BY <2>1, EntriesIn
    <2>3. QED
      BY <2>2 DEF EntryIn
  <1> HIDE DEF n, m
  <1>5. \A i \in 1 .. n : i # n => e[s[i]].rows = d[s[i]].rows
    <2>1. \A i \in 1 .. n : i # n => i < n
      BY <1>1
    <2>2. QED
      BY <1>2a, <2>1
  <1>5a. d[q].rows = old
    BY DEF old
  <1>6. ASSUME NEW x \in EntriesOf(e, s) PROVE x \in EntriesOf(d, s) \/ x = new
    <2>1. PICK j \in 1 .. n : \E i \in DOMAIN e[s[j]].rows :
                                    x = <<e[s[j]].rows[i], <<s[j], i>>>>
      BY <1>4
    <2>2. PICK i \in DOMAIN e[s[j]].rows : x = <<e[s[j]].rows[i], <<s[j], i>>>>
      BY <2>1
    <2>3. CASE j = n
      <3>1. i \in 1 .. m + 1 /\ s[j] = q
        BY <1>3, <2>2, <2>3
      <3>2. i = m + 1 \/ i \in 1 .. m
        BY <1>3, <3>1
      <3>3. QED
        BY <1>1, <1>3, <1>4, <1>5a, <2>2, <2>3, <3>2
    <2>4. CASE j # n
      <3>1. e[s[j]].rows = d[s[j]].rows
        BY <1>5, <2>4
      <3>2. QED
        BY <1>4, <2>2, <3>1
    <2>5. QED
      BY <2>3, <2>4
  <1>7. ASSUME NEW x \in EntriesOf(d, s) PROVE x \in EntriesOf(e, s)
    <2>1. PICK j \in 1 .. n : \E i \in DOMAIN d[s[j]].rows :
                                    x = <<d[s[j]].rows[i], <<s[j], i>>>>
      BY <1>4
    <2>2. PICK i \in DOMAIN d[s[j]].rows : x = <<d[s[j]].rows[i], <<s[j], i>>>>
      BY <2>1
    <2>3. CASE j = n
      <3>1. i \in 1 .. m /\ s[j] = q
        BY <1>3, <1>5a, <2>2, <2>3
      <3>2. i \in DOMAIN e[q].rows /\ e[q].rows[i] = d[q].rows[i]
        BY <1>3, <1>5a, <3>1
      <3>3. QED
        BY <1>4, <2>2, <3>1, <3>2
    <2>4. CASE j # n
      <3>1. e[s[j]].rows = d[s[j]].rows
        BY <1>5, <2>4
      <3>2. QED
        BY <1>4, <2>2, <3>1
    <2>5. QED
      BY <2>3, <2>4
  <1>8. new \in EntriesOf(e, s)
    <2>1. m + 1 \in DOMAIN e[q].rows /\ e[q].rows[m + 1] = row
      BY <1>3
    <2>2. QED
      BY <1>1, <1>4, <2>1
  <1>9. EntriesOf(e, s) = EntriesOf(d, s) \cup {new}
    BY <1>6, <1>7, <1>8
  <1>10. QED
    BY <1>9 DEF n, m, old

LEMMA GoodReads ==
  ASSUME NEW db, NEW c, NEW own, Good(db, c, own), NEW t \in DOMAIN db.catalog
  PROVE  /\ t \in Tables
         /\ Chain(db, db.catalog[t].first) = c[t]
         /\ db.catalog[t].last = 0 <=> c[t] = <<>>
         /\ db.catalog[t].first = IF c[t] = <<>> THEN 0 ELSE c[t][1]
         /\ c[t] # <<>> => /\ Len(c[t]) \in 1 .. Len(c[t])
                           /\ TailOf(db, t) = c[t][Len(c[t])]
         /\ db.catalog[t].root # 0 => /\ db.catalog[t].root \in InUse(db.pg)
                                      /\ own[db.catalog[t].root] = <<t, 0>>
  <1> DEFINE s == c[t]
             n == Len(s)
             e == db.catalog[t]
             used == InUse(db.pg)
  <1>1. Typed(db) /\ Entered(e, used, s, t, own) /\ t \in Tables
    BY DEF Good, Typed, CatalogTyped
  <1>2. s \in Seq(Pages) /\ n \in Nat /\ \A i \in 1 .. n : s[i] # 0
    BY <1>1, GoodChain
  <1>3. e.root # 0 => e.root \in used /\ own[e.root] = <<t, 0>>
    BY <1>1 DEF Entered
  <1>4. CASE s = <<>>
    <2>1. e.first = 0 /\ e.last = 0
      BY <1>1, <1>4 DEF Entered
    <2>2. Chain(db, 0) = <<>>
      BY <1>1, ChainWalks, PagesFacts
    <2>3. Chain(db, e.first) = s
      BY <1>4, <2>1, <2>2
    <2> HIDE DEF s, e, used
    <2>4. QED
      BY <1>1, <1>3, <1>4, <2>1, <2>3 DEF s, e, used
  <1>5. CASE s # <<>>
    <2>1. e.first = s[1] /\ \E k \in 1 .. n : e.last = s[k]
      BY <1>1, <1>5 DEF Entered
    <2>2. 1 \in 1 .. n /\ n \in 1 .. n
      BY <1>2, <1>5
    <2>3. Chain(db, s[1]) = s
      <3>1. Chain(db, s[1]) = Suffix(s, 1)
        BY <1>1, <2>2, ChainIs
      <3> HIDE DEF s
      <3>2. Suffix(s, 1) = s
        BY <1>2, <2>2, SuffixFacts
      <3>3. QED
        BY <3>1, <3>2
    <2>4. PICK k \in 1 .. n : e.last = s[k]
      BY <2>1
    <2>5. Chain(db, e.last) = Suffix(s, k)
      BY <1>1, <2>4, ChainIs
    <2>6. Last(Suffix(s, k)) = s[n]
      BY <1>2, <2>4, SuffixFacts
    <2>7. TailOf(db, t) = s[n]
      BY <2>5, <2>6 DEF TailOf
    <2>8. e.last # 0
      BY <1>2, <2>4
    <2>9. QED
      BY <1>1, <1>3, <1>5, <2>1, <2>2, <2>3, <2>7, <2>8
  <1>6. QED
    BY <1>4, <1>5

LEMMA GoodRows ==
  ASSUME NEW db, NEW c, NEW own, Good(db, c, own), NEW t \in DOMAIN db.catalog
  PROVE  /\ read_all_rows(db, t) = RowsOf(db.disk, c[t])
         /\ RowEntries(db, t) = EntriesOf(db.disk, c[t])
         /\ db.catalog[t].root # 0 => Read(db, db.catalog[t].root) = db.disk[db.catalog[t].root]
  <1> DEFINE s == c[t]
             n == Len(s)
             e == db.catalog[t]
  <1>1. /\ t \in Tables /\ Chain(db, e.first) = s
        /\ e.root # 0 => e.root \in InUse(db.pg)
    BY GoodReads
  <1>2. /\ DOMAIN s = 1 .. n
        /\ \A i \in 1 .. n : Read(db, s[i]) = db.disk[s[i]]
    BY <1>1, GoodChain
  <1>3. read_all_rows(db, t) = RowsOf(db.disk, s)
    <2>1. read_all_rows(db, t) = FlattenSeq([i \in 1 .. n |-> Read(db, s[i]).rows])
      BY <1>1 DEF read_all_rows
    <2>2. [i \in 1 .. n |-> Read(db, s[i]).rows] = [i \in 1 .. n |-> db.disk[s[i]].rows]
      BY <1>2
    <2>3. QED
      BY <2>1, <2>2 DEF RowsOf
  <1>4. RowEntries(db, t) = EntriesOf(db.disk, s)
    <2>1. \A p \in ToSet(s) : Read(db, p) = db.disk[p]
      BY <1>2 DEF ToSet
    <2>2. QED
      BY <1>1, <2>1 DEF RowEntries, EntriesOf
  <1>5. Typed(db) /\ Sound(db.pg)
    BY DEF Good
  <1>6. e.root # 0 => Read(db, e.root) = db.disk[e.root]
    BY <1>1, <1>5, InUseFacts
  <1>7. QED
    BY <1>3, <1>4, <1>6

-----------------------------------------------------------------------------
(* A statement on table t leaves the pages of the other tables alone.        *)

Spares(db, own, b, own2, t) ==
    /\ \A p \in InUse(db.pg) : own[p][1] # t =>
          p \in InUse(b.pg) /\ own2[p] = own[p] /\ b.disk[p] = db.disk[p]
    /\ \A p \in InUse(b.pg) : own2[p][1] # t => p \in InUse(db.pg) /\ own2[p] = own[p]
    /\ \A u \in Tables \ {t} : /\ u \in DOMAIN b.catalog <=> u \in DOMAIN db.catalog
                               /\ u \in DOMAIN db.catalog => b.catalog[u] = db.catalog[u]

\* The chain and the index of table t, as Good wants them.
Kept(db, s, t, own) ==
    /\ Linked(db.disk, InUse(db.pg), s, t, own)
    /\ t \in DOMAIN db.catalog => Entered(db.catalog[t], InUse(db.pg), s, t, own)
    /\ t \notin DOMAIN db.catalog => s = <<>>
    /\ \A p \in InUse(db.pg) : own[p][1] = t => OwnedBy(db, s, t, p)

\* The rows and index entries of the other tables.
Others(db, c, b, c2, t) ==
    \A u \in Tables \ {t} : /\ c2[u] = c[u]
                            /\ RowsOf(b.disk, c[u]) = RowsOf(db.disk, c[u])
                            /\ Indexed(db, c, u) => Indexed(b, c2, u)

LEMMA OtherTable ==
  ASSUME NEW db, NEW c, NEW own, Good(db, c, own), NEW b, NEW own2, NEW t \in Tables,
         Spares(db, own, b, own2, t), NEW u \in Tables \ {t}
  PROVE  /\ Linked(b.disk, InUse(b.pg), c[u], u, own2)
         /\ u \in DOMAIN b.catalog => Entered(b.catalog[u], InUse(b.pg), c[u], u, own2)
         /\ u \notin DOMAIN b.catalog => c[u] = <<>>
         /\ RowsOf(b.disk, c[u]) = RowsOf(db.disk, c[u])
         /\ EntriesOf(b.disk, c[u]) = EntriesOf(db.disk, c[u])
         /\ u \in DOMAIN b.catalog /\ b.catalog[u].root # 0 =>
              /\ u \in DOMAIN db.catalog /\ b.catalog[u].root = db.catalog[u].root
              /\ b.disk[b.catalog[u].root] = db.disk[b.catalog[u].root]
  <1> DEFINE s == c[u]
             n == Len(s)
             used == InUse(db.pg)
             now == InUse(b.pg)
  <1>1. /\ DOMAIN s = 1 .. n
        /\ \A i \in 1 .. n : /\ s[i] \in used /\ own[s[i]] = <<u, i>>
                             /\ db.disk[s[i]].next = IF i < n THEN s[i + 1] ELSE 0
    BY GoodChain
  <1>2. u # t /\ \A p \in used : own[p][1] # t =>
                    p \in now /\ own2[p] = own[p] /\ b.disk[p] = db.disk[p]
    BY DEF Spares
  <1>3. /\ u \in DOMAIN b.catalog <=> u \in DOMAIN db.catalog
        /\ u \in DOMAIN db.catalog => b.catalog[u] = db.catalog[u]
    BY DEF Spares
  <1>4. u \in DOMAIN db.catalog =>
          /\ Entered(db.catalog[u], used, s, u, own)
          /\ db.catalog[u].root # 0 => db.catalog[u].root \in used
                                       /\ own[db.catalog[u].root] = <<u, 0>>
    BY GoodReads DEF Good
  <1>5. u \notin DOMAIN db.catalog => s = <<>>
    BY DEF Good
  <1> HIDE DEF s, n, used, now
  <1>0. SUFFICES
         /\ Linked(b.disk, now, s, u, own2)
         /\ u \in DOMAIN b.catalog => Entered(b.catalog[u], now, s, u, own2)
         /\ u \notin DOMAIN b.catalog => s = <<>>
         /\ RowsOf(b.disk, s) = RowsOf(db.disk, s)
         /\ EntriesOf(b.disk, s) = EntriesOf(db.disk, s)
         /\ u \in DOMAIN b.catalog /\ b.catalog[u].root # 0 =>
              /\ u \in DOMAIN db.catalog /\ b.catalog[u].root = db.catalog[u].root
              /\ b.disk[b.catalog[u].root] = db.disk[b.catalog[u].root]
    BY DEF s, now
  <1>6. \A i \in 1 .. n : s[i] \in now /\ own2[s[i]] = <<u, i>> /\ b.disk[s[i]] = db.disk[s[i]]
    <2>1. SUFFICES ASSUME NEW i \in 1 .. n
                   PROVE  s[i] \in now /\ own2[s[i]] = <<u, i>> /\ b.disk[s[i]] = db.disk[s[i]]
      OBVIOUS
    <2>2. own[s[i]][1] = u
      BY <1>1
    <2>3. QED
      BY <1>1, <1>2, <2>2
  <1>7. Linked(b.disk, now, s, u, own2)
    BY <1>1, <1>6 DEF Linked, n
  <1>8. ASSUME u \in DOMAIN db.catalog, db.catalog[u].root # 0
        PROVE  /\ db.catalog[u].root \in now /\ own2[db.catalog[u].root] = <<u, 0>>
               /\ b.disk[db.catalog[u].root] = db.disk[db.catalog[u].root]
    <2>1. own[db.catalog[u].root][1] = u
      BY <1>4, <1>8
    <2>2. QED
      BY <1>2, <1>4, <1>8, <2>1
  <1>9. u \in DOMAIN b.catalog => Entered(b.catalog[u], now, s, u, own2)
    BY <1>3, <1>4, <1>8 DEF Entered
  <1>10. RowsOf(b.disk, s) = RowsOf(db.disk, s)
    BY <1>6, RowsSame DEF n
  <1>11. EntriesOf(b.disk, s) = EntriesOf(db.disk, s)
    BY <1>1, <1>6, EntriesSame DEF n
  <1>12. QED
    BY <1>3, <1>5, <1>7, <1>8, <1>9, <1>10, <1>11

LEMMA OwnerOf ==
  ASSUME NEW db, NEW c, NEW own, Good(db, c, own), NEW p \in InUse(db.pg)
  PROVE  \E u \in Tables : own[p][1] = u /\ OwnedBy(db, c[u], u, p)
  <1>1. PICK u \in Tables : OwnedBy(db, c[u], u, p)
    BY DEF Good
  <1>2. p # 0
    BY DEF InUse
  <1>3. CASE \E i \in 1 .. Len(c[u]) : c[u][i] = p
    <2>1. PICK i \in 1 .. Len(c[u]) : c[u][i] = p
      BY <1>3
    <2>2. Linked(db.disk, InUse(db.pg), c[u], u, own)
      BY DEF Good
    <2>3. own[c[u][i]] = <<u, i>>
      BY <2>2 DEF Linked
    <2>4. own[p][1] = u
      BY <2>1, <2>3
    <2>5. QED
      BY <1>1, <2>4
  <1>4. CASE u \in DOMAIN db.catalog /\ db.catalog[u].root = p
    <2>1. Entered(db.catalog[u], InUse(db.pg), c[u], u, own)
      BY <1>4 DEF Good
    <2>2. own[p] = <<u, 0>>
      BY <1>2, <1>4, <2>1 DEF Entered
    <2>3. own[p][1] = u
      BY <2>2
    <2>4. QED
      BY <1>1, <2>3
  <1>5. QED
    BY <1>1, <1>3, <1>4 DEF OwnedBy

LEMMA OrderKept ==
  ASSUME NEW db, NEW c, NEW own, Good(db, c, own), NEW b, NEW s, NEW own2, NEW t \in Tables,
         Typed(b), Sound(b.pg), s \in Seq(Pages), DOMAIN own2 = Pages,
         Spares(db, own, b, own2, t), Kept(b, s, t, own2)
  PROVE  LET c2 == [c EXCEPT ![t] = s]
         IN  Good(b, c2, own2) /\ Others(db, c, b, c2, t) /\ c2[t] = s
  <1> DEFINE c2 == [c EXCEPT ![t] = s]
             used == InUse(db.pg)
             now == InUse(b.pg)
  <1>1. c \in [Tables -> Seq(Pages)]
    BY DEF Good
  <1>2. /\ c2 \in [Tables -> Seq(Pages)] /\ c2[t] = s
        /\ \A u \in Tables \ {t} : c2[u] = c[u]
    BY <1>1
  <1> HIDE DEF c2
  <1>3. \A u \in Tables \ {t} :
          /\ Linked(b.disk, now, c[u], u, own2)
          /\ u \in DOMAIN b.catalog => Entered(b.catalog[u], now, c[u], u, own2)
          /\ u \notin DOMAIN b.catalog => c[u] = <<>>
          /\ RowsOf(b.disk, c[u]) = RowsOf(db.disk, c[u])
          /\ EntriesOf(b.disk, c[u]) = EntriesOf(db.disk, c[u])
          /\ u \in DOMAIN b.catalog /\ b.catalog[u].root # 0 =>
              /\ u \in DOMAIN db.catalog /\ b.catalog[u].root = db.catalog[u].root
              /\ b.disk[b.catalog[u].root] = db.disk[b.catalog[u].root]
    BY OtherTable
  <1>4. /\ Linked(b.disk, now, s, t, own2)
        /\ t \in DOMAIN b.catalog => Entered(b.catalog[t], now, s, t, own2)
        /\ t \notin DOMAIN b.catalog => s = <<>>
        /\ \A p \in now : own2[p][1] = t => OwnedBy(b, s, t, p)
    BY DEF Kept
  <1>5. DOMAIN b.catalog \subseteq Tables
    BY DEF Typed, CatalogTyped
  <1>6. ASSUME NEW p \in now PROVE \E u \in Tables : OwnedBy(b, c2[u], u, p)
    <2>1. CASE own2[p][1] = t
      BY <1>2, <1>4, <2>1
    <2>2. CASE own2[p][1] # t
      <3>1. p \in used /\ own2[p] = own[p]
        BY <2>2 DEF Spares
      <3>2. PICK u \in Tables : own[p][1] = u /\ OwnedBy(db, c[u], u, p)
        BY <3>1, OwnerOf
      <3>5. u # t
        BY <2>2, <3>1, <3>2
      <3>6. /\ u \in DOMAIN b.catalog <=> u \in DOMAIN db.catalog
            /\ u \in DOMAIN db.catalog => b.catalog[u] = db.catalog[u]
        BY <3>5 DEF Spares
      <3>7. OwnedBy(b, c2[u], u, p)
        BY <1>2, <3>2, <3>5, <3>6 DEF OwnedBy
      <3>8. QED
        BY <3>7
    <2>3. QED
      BY <2>1, <2>2
  <1>7. Good(b, c2, own2)
    <2>1. \A u \in Tables : Linked(b.disk, now, c2[u], u, own2)
      BY <1>2, <1>3, <1>4
    <2>2. \A u \in DOMAIN b.catalog : Entered(b.catalog[u], now, c2[u], u, own2)
      BY <1>2, <1>3, <1>4, <1>5
    <2>3. \A u \in Tables \ DOMAIN b.catalog : c2[u] = <<>>
      BY <1>2, <1>3, <1>4
    <2> HIDE DEF now
    <2>4. Typed(b) /\ Sound(b.pg) /\ DOMAIN own2 = Pages
      OBVIOUS
    <2>5. QED
      BY <1>2, <1>6, <2>1, <2>2, <2>3, <2>4 DEF Good, now
  <1>8. Others(db, c, b, c2, t)
    <2>1. SUFFICES ASSUME NEW u \in Tables \ {t}
                   PROVE  /\ c2[u] = c[u]
                          /\ RowsOf(b.disk, c[u]) = RowsOf(db.disk, c[u])
                          /\ Indexed(db, c, u) => Indexed(b, c2, u)
      BY DEF Others
    <2>2. QED
      BY <1>2, <1>3 DEF Indexed
  <1>9. QED
    BY <1>2, <1>7, <1>8 DEF c2

-----------------------------------------------------------------------------
(* Each operation keeps a database in order.                                 *)

LEMMA FreedSound ==
  ASSUME NEW a \in Pagers, Sound(a), NEW freed, freed \subseteq InUse(a), NEW b,
         b = [bitmap |-> a.bitmap \ freed, page_count |-> a.page_count]
  PROVE  Sound(b) /\ InUse(b) = InUse(a) \ freed
  BY DEF Sound, InUse

LEMMA FreeRowsGood ==
  ASSUME NEW db, NEW c, NEW own, Good(db, c, own), NEW t \in DOMAIN db.catalog
  PROVE  LET b  == free_row_pages(db, t)
             c2 == [c EXCEPT ![t] = <<>>]
         IN  /\ Good(b, c2, own) /\ Others(db, c, b, c2, t) /\ c2[t] = <<>>
             /\ DOMAIN b.catalog = DOMAIN db.catalog
  <1> DEFINE b  == free_row_pages(db, t)
             s  == c[t]
             c2 == [c EXCEPT ![t] = <<>>]
             e  == Entry(0, 0, db.catalog[t].root)
             cat == [db.catalog EXCEPT ![t] = e]
             used == InUse(db.pg)
             freed == ToSet(s)
  <1>1. /\ t \in Tables /\ Chain(db, db.catalog[t].first) = s
        /\ db.catalog[t].root # 0 => db.catalog[t].root \in used
                                     /\ own[db.catalog[t].root] = <<t, 0>>
    BY GoodReads
  <1>2. /\ Typed(db) /\ Sound(db.pg) /\ db.pg \in Pagers /\ CatalogTyped(db.catalog)
        /\ DOMAIN own = Pages /\ db.catalog[t].root \in Pages
    BY DEF Good, Typed, CatalogTyped, Entries
  <1>3. Is(b, [bitmap |-> db.pg.bitmap \ ToSet(Chain(db, db.catalog[t].first)),
               page_count |-> db.pg.page_count], db.disk, cat, db.page1)
    BY <1>2, FreeRowsFields
  <1>4. /\ b.pg = [bitmap |-> db.pg.bitmap \ freed, page_count |-> db.pg.page_count]
        /\ b.disk = db.disk /\ b.catalog = cat
    BY <1>1, <1>3 DEF Is
  <1>5. Typed(b)
    BY <1>2, FreeRowsKeeps
  <1>6. /\ DOMAIN s = 1 .. Len(s)
        /\ \A i \in 1 .. Len(s) : s[i] \in used /\ own[s[i]] = <<t, i>>
    BY <1>1, GoodChain
  <1>7. /\ e.root = db.catalog[t].root /\ e.first = 0 /\ e.last = 0
        /\ DOMAIN cat = DOMAIN db.catalog /\ cat[t] = e
        /\ \A u \in DOMAIN db.catalog : u # t => cat[u] = db.catalog[u]
    BY DEF Entry
  <1>8. \A p \in freed : p \in used /\ own[p][1] = t /\ own[p][2] # 0
    <2>1. SUFFICES ASSUME NEW i \in 1 .. Len(s)
                   PROVE  s[i] \in used /\ own[s[i]][1] = t /\ own[s[i]][2] # 0
      BY <1>6 DEF ToSet
    <2>2. QED
      BY <1>6
  <1>9. \A p \in used : own[p][1] = t => p \in freed \/ p = db.catalog[t].root
    <2>1. SUFFICES ASSUME NEW p \in used, own[p][1] = t, p \notin freed
                   PROVE  p = db.catalog[t].root
      OBVIOUS
    <2>2. PICK u \in Tables : own[p][1] = u /\ OwnedBy(db, c[u], u, p)
      BY OwnerOf
    <2>3. OwnedBy(db, s, t, p)
      BY <2>1, <2>2
    <2>4. QED
      BY <1>6, <2>1, <2>3 DEF OwnedBy, ToSet
  <1> HIDE DEF b, freed, e, cat
  <1>10. Sound(b.pg) /\ InUse(b.pg) = used \ freed
    BY <1>2, <1>4, <1>8, FreedSound
  <1>11. Spares(db, own, b, own, t)
    <2>1. \A p \in used : own[p][1] # t => p \in InUse(b.pg) /\ b.disk[p] = db.disk[p]
      BY <1>4, <1>8, <1>10
    <2>2. InUse(b.pg) \subseteq used
      BY <1>10
    <2>3. \A u \in Tables \ {t} : /\ u \in DOMAIN b.catalog <=> u \in DOMAIN db.catalog
                                  /\ u \in DOMAIN db.catalog => b.catalog[u] = db.catalog[u]
      BY <1>4, <1>7
    <2>4. QED
      BY <2>1, <2>2, <2>3 DEF Spares
  <1>12. e.root # 0 => e.root \in InUse(b.pg) /\ own[e.root] = <<t, 0>>
    <2>1. SUFFICES ASSUME e.root # 0 PROVE e.root \in InUse(b.pg) /\ own[e.root] = <<t, 0>>
      OBVIOUS
    <2>2. e.root \in used /\ own[e.root] = <<t, 0>>
      BY <1>1, <1>7, <2>1
    <2>3. own[e.root][2] = 0
      BY <2>2
    <2>4. QED
      BY <1>8, <1>10, <2>2, <2>3
  <1>13. Kept(b, <<>>, t, own)
    <2>1. Linked(b.disk, InUse(b.pg), <<>>, t, own)
      BY DEF Linked
    <2>2. Entered(b.catalog[t], InUse(b.pg), <<>>, t, own)
      BY <1>4, <1>7, <1>12 DEF Entered
    <2>3. t \in DOMAIN b.catalog
      BY <1>4, <1>7
    <2>4. \A p \in InUse(b.pg) : own[p][1] = t => OwnedBy(b, <<>>, t, p)
      BY <1>4, <1>7, <1>9, <1>10, <2>3 DEF OwnedBy
    <2>5. QED
      <3> DEFINE none == <<>>
      <3>1. /\ Linked(b.disk, InUse(b.pg), none, t, own)
            /\ Entered(b.catalog[t], InUse(b.pg), none, t, own)
            /\ t \in DOMAIN b.catalog
            /\ \A p \in InUse(b.pg) : own[p][1] = t => OwnedBy(b, none, t, p)
        BY <2>1, <2>2, <2>3, <2>4
      <3> HIDE DEF none
      <3>2. Kept(b, none, t, own)
        BY <3>1 DEF Kept
      <3>3. QED
        BY <3>2 DEF none
  <1>14. <<>> \in Seq(Pages)
    OBVIOUS
  <1>15. Good(b, c2, own) /\ Others(db, c, b, c2, t) /\ c2[t] = <<>>
    <2> DEFINE none == <<>>
               now == [c EXCEPT ![t] = none]
    <2>1. none \in Seq(Pages) /\ Kept(b, none, t, own)
      BY <1>13, <1>14
    <2> HIDE DEF none
    <2>2. Good(b, now, own) /\ Others(db, c, b, now, t) /\ now[t] = none
      BY <1>1, <1>2, <1>5, <1>10, <1>11, <2>1, OrderKept
    <2>3. QED
      BY <2>2 DEF none
  <1>16. QED
    BY <1>4, <1>7, <1>15 DEF b

\* c[t] as it is.
LEMMA SameChains ==
  ASSUME NEW db, NEW c, NEW own, Good(db, c, own), NEW t \in Tables
  PROVE  [c EXCEPT ![t] = c[t]] = c /\ c[t] \in Seq(Pages)
  BY DEF Good

LEMMA FreeIndexGood ==
  ASSUME NEW db, NEW c, NEW own, Good(db, c, own), NEW t \in DOMAIN db.catalog
  PROVE  LET b == FreeIndex(db, t)
         IN  /\ Good(b, c, own) /\ Others(db, c, b, c, t) /\ b.disk = db.disk
             /\ DOMAIN b.catalog = DOMAIN db.catalog
             /\ b.catalog[t].root = 0
             /\ db.catalog[t].root = 0 => b = db
  <1> DEFINE b  == FreeIndex(db, t)
             s  == c[t]
             r  == db.catalog[t].root
             e  == Entry(db.catalog[t].first, db.catalog[t].last, 0)
             cat == [db.catalog EXCEPT ![t] = e]
             used == InUse(db.pg)
             a == [bitmap |-> db.pg.bitmap \ {r}, page_count |-> db.pg.page_count]
  <1>1. /\ t \in Tables
        /\ r # 0 => r \in used /\ own[r] = <<t, 0>>
    BY GoodReads
  <1>2. /\ Typed(db) /\ Sound(db.pg) /\ db.pg \in Pagers /\ CatalogTyped(db.catalog)
        /\ DOMAIN own = Pages
        /\ Linked(db.disk, used, s, t, own) /\ Entered(db.catalog[t], used, s, t, own)
    BY <1>1 DEF Good, Typed
  <1>3. (r = 0 => b = db) /\ (r # 0 => Is(b, a, db.disk, cat, db.page1))
    BY <1>2, FreeIndexFields
  <1>4. Typed(b)
    BY <1>2, FreeIndexKeeps
  <1>5. /\ e.root = 0 /\ e.first = db.catalog[t].first /\ e.last = db.catalog[t].last
        /\ DOMAIN cat = DOMAIN db.catalog /\ cat[t] = e
        /\ \A u \in DOMAIN db.catalog : u # t => cat[u] = db.catalog[u]
    BY DEF Entry
  <1>6. [c EXCEPT ![t] = s] = c /\ s \in Seq(Pages)
    BY <1>1, SameChains
  <1> HIDE DEF b, e, cat, a, r, s
  <1>0. SUFFICES /\ Good(b, c, own) /\ Others(db, c, b, c, t) /\ b.disk = db.disk
                 /\ DOMAIN b.catalog = DOMAIN db.catalog
                 /\ b.catalog[t].root = 0
                 /\ r = 0 => b = db
    BY DEF b, r
  <1>7. CASE r = 0
    <2>1. Others(db, c, db, c, t)
      BY DEF Others
    <2>2. QED
      BY <1>3, <1>7, <2>1 DEF r
  <1>8. CASE r # 0
    <2>1. b.pg = a /\ b.disk = db.disk /\ b.catalog = cat
      BY <1>3, <1>8 DEF Is
    <2>2. Sound(b.pg) /\ InUse(b.pg) = used \ {r}
      <3>1. {r} \subseteq used
        BY <1>1, <1>8
      <3>2. QED
        BY <1>2, <2>1, <3>1, FreedSound DEF a
    <2>3. own[r][1] = t /\ own[r][2] = 0
      BY <1>1, <1>8
    <2>4. Spares(db, own, b, own, t)
      <3>1. \A p \in used : own[p][1] # t => p \in InUse(b.pg) /\ b.disk[p] = db.disk[p]
        BY <2>1, <2>2, <2>3
      <3>2. InUse(b.pg) \subseteq used
        BY <2>2
      <3>3. \A u \in Tables \ {t} : /\ u \in DOMAIN b.catalog <=> u \in DOMAIN db.catalog
                                    /\ u \in DOMAIN db.catalog => b.catalog[u] = db.catalog[u]
        BY <1>5, <2>1
      <3>4. QED
        BY <3>1, <3>2, <3>3 DEF Spares
    <2>5. \A i \in 1 .. Len(s) : s[i] \in used /\ s[i] # r
      <3>1. SUFFICES ASSUME NEW i \in 1 .. Len(s) PROVE s[i] \in used /\ s[i] # r
        OBVIOUS
      <3>2. s[i] \in used /\ own[s[i]] = <<t, i>>
        BY <1>2 DEF Linked
      <3>3. own[s[i]][2] # 0
        BY <3>2
      <3>4. QED
        BY <2>3, <3>2, <3>3
    <2>6. Kept(b, s, t, own)
      <3>1. Linked(b.disk, InUse(b.pg), s, t, own)
        BY <1>2, <2>1, <2>2, <2>5 DEF Linked
      <3>2. Entered(b.catalog[t], InUse(b.pg), s, t, own)
        BY <1>2, <1>5, <2>1 DEF Entered
      <3>3. t \in DOMAIN b.catalog
        BY <1>5, <2>1
      <3>4. ASSUME NEW p \in InUse(b.pg), own[p][1] = t PROVE OwnedBy(b, s, t, p)
        <4>1. p \in used /\ p # r
          BY <2>2
        <4>2. PICK u \in Tables : own[p][1] = u /\ OwnedBy(db, c[u], u, p)
          BY <4>1, OwnerOf
        <4>3. OwnedBy(db, s, t, p)
          BY <3>4, <4>2 DEF s
        <4>4. QED
          BY <4>1, <4>3 DEF OwnedBy, r
      <3>5. QED
        BY <3>1, <3>2, <3>3, <3>4 DEF Kept
    <2>7. Good(b, c, own) /\ Others(db, c, b, c, t)
      BY <1>1, <1>2, <1>4, <1>6, <2>2, <2>4, <2>6, OrderKept
    <2>8. QED
      BY <1>5, <1>8, <2>1, <2>7
  <1>9. QED
    BY <1>7, <1>8

LEMMA AllocatedInUse ==
  ASSUME NEW a \in Pagers, Sound(a), AllocatedPage(a) >= 0
  PROVE  LET q == AllocatedPage(a)
             n == MarkAllocated(a)
         IN  /\ q \in Pages /\ q # 0 /\ q \notin InUse(a)
             /\ n \in Pagers /\ Sound(n) /\ InUse(n) = InUse(a) \cup {q}
             /\ \A p \in InUse(n) : MarkWritten(n, p) = n
  <1> DEFINE q == AllocatedPage(a)
             n == MarkAllocated(a)
  <1>1. /\ n \in Pagers /\ Sound(n) /\ q \in 2 .. BitmapBits - 1 /\ q \notin a.bitmap
    BY AllocateFacts
  <1>2. n.bitmap = a.bitmap \cup {q}
    <2>1. ~(q < 0)
      BY <1>1, BitmapAssumption
    <2> HIDE DEF q
    <2>2. QED
      BY <2>1 DEF MarkAllocated, q
  <1> HIDE DEF n, q
  <1>3. q \in Pages /\ q # 0 /\ q # 1
    BY <1>1, BitmapAssumption DEF Pages
  <1>4. InUse(n) = InUse(a) \cup {q} /\ q \notin InUse(a)
    BY <1>1, <1>2, <1>3 DEF InUse
  <1>5. \A p \in InUse(n) : MarkWritten(n, p) = n
    BY <1>1 DEF InUse, Sound, MarkWritten
  <1>6. QED
    BY <1>1, <1>3, <1>4, <1>5 DEF n, q

LEMMA NewIndexGood ==
  ASSUME NEW db, NEW c, NEW own, Good(db, c, own), NEW t \in DOMAIN db.catalog,
         db.catalog[t].root = 0, NEW entries
  PROVE  LET b == NewIndex(db, t, entries)
         IN  /\ \E own2 : Good(b, c, own2)
             /\ Others(db, c, b, c, t)
             /\ DOMAIN b.catalog = DOMAIN db.catalog
             /\ RowsOf(b.disk, c[t]) = RowsOf(db.disk, c[t])
             /\ entries = EntriesOf(db.disk, c[t]) => Indexed(b, c, t)
  <1> DEFINE b  == NewIndex(db, t, entries)
             s  == c[t]
             q  == AllocatedPage(db.pg)
             e  == Entry(db.catalog[t].first, db.catalog[t].last, q)
             cat == [db.catalog EXCEPT ![t] = e]
             used == InUse(db.pg)
             a == MarkAllocated(db.pg)
             page == IndexPage(entries)
             d == [db.disk EXCEPT ![q] = page]
             own2 == [own EXCEPT ![q] = <<t, 0>>]
  <1>1. t \in Tables /\ db.catalog[t].root = 0
    BY GoodReads
  <1>2. /\ Typed(db) /\ Sound(db.pg) /\ db.pg \in Pagers /\ CatalogTyped(db.catalog)
        /\ DiskTyped(db.disk) /\ DOMAIN own = Pages
        /\ Linked(db.disk, used, s, t, own) /\ Entered(db.catalog[t], used, s, t, own)
    BY <1>1 DEF Good, Typed
  <1>3. (q < 0 => b = db) /\ (~(q < 0) => q >= 0 /\ Is(b, a, d, cat, db.page1))
    BY <1>2, NewIndexFields
  <1>4. Typed(b)
    BY <1>2, NewIndexKeeps
  <1>5. /\ e.root = q /\ e.first = db.catalog[t].first /\ e.last = db.catalog[t].last
    BY DEF Entry
  <1>6. [c EXCEPT ![t] = s] = c /\ s \in Seq(Pages)
    BY <1>1, SameChains
  <1>7. page.entries = entries
    BY DEF IndexPage
  <1> HIDE DEF b, e, s, page, used
  <1>0. SUFFICES /\ \E own3 : Good(b, c, own3)
                 /\ Others(db, c, b, c, t)
                 /\ DOMAIN b.catalog = DOMAIN db.catalog
                 /\ RowsOf(b.disk, s) = RowsOf(db.disk, s)
                 /\ entries = EntriesOf(db.disk, s) => Indexed(b, c, t)
    BY DEF b, s
  <1>8. CASE q < 0
    <2>1. Others(db, c, db, c, t) /\ Indexed(db, c, t)
      BY <1>1 DEF Others, Indexed
    <2>2. QED
      BY <1>3, <1>8, <2>1
  <1>9. CASE ~(q < 0)
    <2>1. q >= 0 /\ b.pg = a /\ b.disk = d /\ b.catalog = cat
      BY <1>3, <1>9 DEF Is
    <2>2. /\ q \in Pages /\ q # 0 /\ q \notin used
          /\ Sound(a) /\ InUse(a) = used \cup {q}
      BY <1>2, <2>1, AllocatedInUse DEF used
    <2> HIDE DEF q, a
    <2>3. d[q] = page /\ \A p \in Pages : p # q => d[p] = db.disk[p]
      BY <1>2, <2>2 DEF DiskTyped
    <2>4. /\ DOMAIN cat = DOMAIN db.catalog /\ cat[t] = e
          /\ \A u \in DOMAIN db.catalog : u # t => cat[u] = db.catalog[u]
      OBVIOUS
    <2>5. /\ DOMAIN own2 = Pages /\ own2[q] = <<t, 0>> /\ own2[q][1] = t
          /\ \A p \in Pages : p # q => own2[p] = own[p]
      BY <1>2, <2>2
    <2>6. used \subseteq Pages
      BY <1>2 DEF Pagers, InUse, used
    <2> HIDE DEF d, cat, own2
    <2>7. Spares(db, own, b, own2, t)
      <3>1. \A p \in used : p \in InUse(b.pg) /\ own2[p] = own[p] /\ b.disk[p] = db.disk[p]
        BY <2>1, <2>2, <2>3, <2>5, <2>6
      <3>2. \A p \in InUse(b.pg) : own2[p][1] # t => p \in used /\ own2[p] = own[p]
        BY <2>1, <2>2, <2>5, <2>6
      <3>3. \A u \in Tables \ {t} : /\ u \in DOMAIN b.catalog <=> u \in DOMAIN db.catalog
                                    /\ u \in DOMAIN db.catalog => b.catalog[u] = db.catalog[u]
        BY <2>1, <2>4
      <3>4. QED
        BY <3>1, <3>2, <3>3 DEF Spares, used
    <2>8. \A i \in 1 .. Len(s) : /\ s[i] \in used /\ own[s[i]] = <<t, i>>
                                 /\ db.disk[s[i]].next = IF i < Len(s) THEN s[i + 1] ELSE 0
      BY <1>2 DEF Linked
    <2>9. \A i \in 1 .. Len(s) : /\ s[i] \in InUse(b.pg) /\ own2[s[i]] = <<t, i>>
                                 /\ b.disk[s[i]] = db.disk[s[i]]
      BY <2>1, <2>2, <2>3, <2>5, <2>6, <2>8
    <2>10. Kept(b, s, t, own2)
      <3>1. Linked(b.disk, InUse(b.pg), s, t, own2)
        BY <2>8, <2>9 DEF Linked
      <3>2. Entered(b.catalog[t], InUse(b.pg), s, t, own2)
        <4>1. q \in InUse(b.pg) /\ b.catalog[t] = e
          BY <2>1, <2>2, <2>4
        <4>2. QED
          BY <1>2, <1>5, <2>5, <4>1 DEF Entered
      <3>3. t \in DOMAIN b.catalog
        BY <2>1, <2>4
      <3>4. ASSUME NEW p \in InUse(b.pg), own2[p][1] = t PROVE OwnedBy(b, s, t, p)
        <4>1. CASE p = q
          BY <1>5, <2>1, <2>4, <4>1 DEF OwnedBy
        <4>2. CASE p # q
          <5>1. p \in used /\ own[p][1] = t /\ p # 0
            BY <2>1, <2>2, <2>5, <2>6, <3>4, <4>2 DEF used, InUse
          <5>2. PICK u \in Tables : own[p][1] = u /\ OwnedBy(db, c[u], u, p)
            BY <5>1, OwnerOf DEF used
          <5>3. OwnedBy(db, s, t, p)
            BY <5>1, <5>2 DEF s
          <5>4. QED
            BY <1>1, <5>1, <5>3 DEF OwnedBy
        <4>3. QED
          BY <4>1, <4>2
      <3>5. QED
        BY <3>1, <3>2, <3>3, <3>4 DEF Kept
    <2>11. Good(b, c, own2) /\ Others(db, c, b, c, t)
      <3>1. Typed(b) /\ Sound(b.pg) /\ DOMAIN own2 = Pages /\ s \in Seq(Pages)
        BY <1>4, <1>6, <2>1, <2>2, <2>5
      <3> DEFINE now == [c EXCEPT ![t] = s]
      <3>2. Good(b, now, own2) /\ Others(db, c, b, now, t)
        BY <1>1, <2>7, <2>10, <3>1, OrderKept
      <3>3. now = c
        BY <1>6
      <3>4. QED
        BY <3>2, <3>3
    <2>12. RowsOf(b.disk, s) = RowsOf(db.disk, s)
      BY <2>9, RowsSame
    <2>13. EntriesOf(b.disk, s) = EntriesOf(db.disk, s)
      <3>1. DOMAIN s = 1 .. Len(s)
        BY <1>6
      <3>2. QED
        BY <2>9, <3>1, EntriesSame
    <2>14. entries = EntriesOf(db.disk, s) => Indexed(b, c, t)
      <3>1. b.catalog[t].root = q /\ b.disk[q].entries = entries
        BY <1>5, <1>7, <2>1, <2>3, <2>4
      <3>2. QED
        BY <2>13, <3>1 DEF Indexed, s
    <2>15. QED
      BY <2>1, <2>4, <2>11, <2>12, <2>14
  <1>10. QED
    BY <1>8, <1>9

LEMMA AddRowGood ==
  ASSUME NEW db, NEW c, NEW own, Good(db, c, own), NEW t \in DOMAIN db.catalog,
         NEW row, NEW loc
  PROVE  LET b == indexes_add_row(db, t, row, loc)
         IN  /\ Good(b, c, own) /\ Others(db, c, b, c, t)
             /\ b.catalog = db.catalog
             /\ RowsOf(b.disk, c[t]) = RowsOf(db.disk, c[t])
             /\ (/\ db.catalog[t].root # 0
                 /\ EntriesOf(db.disk, c[t]) =
                      db.disk[db.catalog[t].root].entries \cup {<<row, loc>>}) => Indexed(b, c, t)
  <1> DEFINE b  == indexes_add_row(db, t, row, loc)
             s  == c[t]
             r  == db.catalog[t].root
             used == InUse(db.pg)
             page == IndexPage(Read(db, r).entries \cup {<<row, loc>>})
             d == [db.disk EXCEPT ![r] = page]
  <1>1. /\ t \in Tables
        /\ r # 0 => r \in used /\ own[r] = <<t, 0>>
    BY GoodReads
  <1>2. /\ Typed(db) /\ Sound(db.pg) /\ db.pg \in Pagers
        /\ DiskTyped(db.disk) /\ DOMAIN own = Pages
        /\ Linked(db.disk, used, s, t, own) /\ Entered(db.catalog[t], used, s, t, own)
    BY <1>1 DEF Good, Typed
  <1>3. (r = 0 => b = db) /\ (r # 0 => Is(b, MarkWritten(db.pg, r), d, db.catalog, db.page1))
    BY <1>2, AddRowFields
  <1>4. Typed(b)
    BY <1>2, AddRowKeeps
  <1>5. r # 0 => MarkWritten(db.pg, r) = db.pg /\ r \in Pages
    BY <1>1, <1>2, InUseFacts
  <1>6. [c EXCEPT ![t] = s] = c /\ s \in Seq(Pages)
    BY <1>1, SameChains
  <1>7. r # 0 => page.entries = db.disk[r].entries \cup {<<row, loc>>}
    <2>1. r # 0 => Read(db, r) = db.disk[r]
      BY GoodRows
    <2>2. QED
      BY <2>1 DEF IndexPage
  <1> HIDE DEF b, s, page, used, r
  <1>0. SUFFICES /\ Good(b, c, own) /\ Others(db, c, b, c, t)
                 /\ b.catalog = db.catalog
                 /\ RowsOf(b.disk, s) = RowsOf(db.disk, s)
                 /\ (/\ r # 0
                     /\ EntriesOf(db.disk, s) = db.disk[r].entries \cup {<<row, loc>>})
                    => Indexed(b, c, t)
    BY DEF b, s, r
  <1>8. CASE r = 0
    <2>1. Others(db, c, db, c, t)
      BY DEF Others
    <2>2. QED
      BY <1>3, <1>8, <2>1
  <1>9. CASE r # 0
    <2>1. b.pg = db.pg /\ b.disk = d /\ b.catalog = db.catalog
      BY <1>3, <1>5, <1>9 DEF Is
    <2>2. d[r] = page /\ \A p \in Pages : p # r => d[p] = db.disk[p]
      BY <1>2, <1>5, <1>9 DEF DiskTyped
    <2>3. used \subseteq Pages /\ own[r][1] = t /\ own[r][2] = 0
      BY <1>1, <1>2, <1>9 DEF Pagers, InUse, used
    <2> HIDE DEF d
    <2>4. Spares(db, own, b, own, t)
      BY <2>1, <2>2, <2>3 DEF Spares, used
    <2>5. \A i \in 1 .. Len(s) : /\ s[i] \in used /\ own[s[i]] = <<t, i>>
                                 /\ db.disk[s[i]].next = IF i < Len(s) THEN s[i + 1] ELSE 0
      BY <1>2 DEF Linked
    <2>6. \A i \in 1 .. Len(s) : b.disk[s[i]] = db.disk[s[i]]
      <3>1. SUFFICES ASSUME NEW i \in 1 .. Len(s) PROVE b.disk[s[i]] = db.disk[s[i]]
        OBVIOUS
      <3>2. own[s[i]] = <<t, i>> /\ s[i] \in Pages
        BY <2>3, <2>5
      <3>3. own[s[i]][2] # 0
        BY <3>2
      <3>4. QED
        BY <2>1, <2>2, <2>3, <3>2, <3>3
    <2>7. Kept(b, s, t, own)
      <3>1. Linked(b.disk, InUse(b.pg), s, t, own)
        BY <2>1, <2>5, <2>6 DEF Linked, used
      <3>2. Entered(b.catalog[t], InUse(b.pg), s, t, own)
        BY <1>2, <2>1 DEF used
      <3>3. t \in DOMAIN b.catalog
        BY <2>1
      <3>4. ASSUME NEW p \in InUse(b.pg), own[p][1] = t PROVE OwnedBy(b, s, t, p)
        <4>1. PICK u \in Tables : own[p][1] = u /\ OwnedBy(db, c[u], u, p)
          BY <2>1, OwnerOf
        <4>2. OwnedBy(db, s, t, p)
          BY <3>4, <4>1 DEF s
        <4>3. QED
          BY <2>1, <4>2 DEF OwnedBy
      <3>5. QED
        BY <3>1, <3>2, <3>3, <3>4 DEF Kept
    <2>8. Good(b, c, own) /\ Others(db, c, b, c, t)
      BY <1>1, <1>2, <1>4, <1>6, <2>1, <2>4, <2>7, OrderKept
    <2>9. RowsOf(b.disk, s) = RowsOf(db.disk, s)
      BY <2>6, RowsSame
    <2>10. EntriesOf(b.disk, s) = EntriesOf(db.disk, s)
      <3>1. DOMAIN s = 1 .. Len(s)
        BY <1>6
      <3>2. QED
        BY <2>6, <3>1, EntriesSame
    <2>11. EntriesOf(db.disk, s) = db.disk[r].entries \cup {<<row, loc>>} => Indexed(b, c, t)
      <3>1. b.catalog[t].root = r /\ b.disk[r].entries = page.entries
        BY <2>1, <2>2 DEF r
      <3>2. QED
        BY <1>7, <1>9, <2>10, <3>1 DEF Indexed, s
    <2>12. QED
      BY <2>1, <2>8, <2>9, <2>11
  <1>10. QED
    BY <1>8, <1>9

-----------------------------------------------------------------------------
(* A row is appended to a table, or the file is full.                        *)

\* No row of table t is lost or stored, and its index stays right or wrong.
Unchanged(db, c, b, c2, t) ==
    /\ AllocatedPage(db.pg) < 0
    /\ c2[t] = c[t]
    /\ RowsOf(b.disk, c2[t]) = RowsOf(db.disk, c[t])
    /\ EntriesOf(b.disk, c2[t]) = EntriesOf(db.disk, c[t])

Added(db, c, b, c2, t, row, loc) ==
    /\ Len(c2[t]) <= Len(c[t]) + 1
    /\ RowsOf(b.disk, c2[t]) = Append(RowsOf(db.disk, c[t]), row)
    /\ EntriesOf(b.disk, c2[t]) = EntriesOf(db.disk, c[t]) \cup {<<row, loc>>}

\* The index page of table t as an append leaves it.
SameIndex(db, b, t) ==
    /\ b.catalog[t].root = db.catalog[t].root
    /\ db.catalog[t].root # 0 => b.disk[db.catalog[t].root] = db.disk[db.catalog[t].root]

Appended(db, c, r, c2, t, row) ==
    /\ \E own2 : Good(r.db, c2, own2)
    /\ Others(db, c, r.db, c2, t)
    /\ DOMAIN r.db.catalog = DOMAIN db.catalog
    /\ SameIndex(db, r.db, t)
    /\ \/ ~r.ok /\ Unchanged(db, c, r.db, c2, t)
       \/ r.ok /\ Added(db, c, r.db, c2, t, row, r.loc)

\* The pages of a chain hold on both disks the same rows.
LEMMA PushedRow ==
  ASSUME NEW d, NEW e, DiskTyped(d), DiskTyped(e), NEW s \in Seq(Pages), NEW q \in Pages,
         NEW row \in Rows, SameRows(d, e, s), e[q].rows = <<row>>
  PROVE  /\ RowsOf(e, Append(s, q)) = Append(RowsOf(d, s), row)
         /\ EntriesOf(e, Append(s, q)) = EntriesOf(d, s) \cup {<<row, <<q, 1>>>>}
  <1>1. \A i \in 1 .. Len(s) : e[s[i]].rows = d[s[i]].rows
    BY DEF SameRows
  <1>2. RowsOf(e, Append(s, q)) = RowsOf(d, s) \o e[q].rows
    BY <1>1, RowsPushed
  <1> DEFINE a == RowsOf(d, s)
  <1>3. a \in Seq(Rows)
    BY PageRows
  <1> HIDE DEF a
  <1>4. a \o <<row>> = Append(a, row)
    BY <1>3
  <1>5. RowsOf(e, Append(s, q)) = Append(RowsOf(d, s), row)
    BY <1>2, <1>4 DEF a
  <1>6. EntriesOf(e, Append(s, q)) = EntriesOf(d, s) \cup {<<row, <<q, 1>>>>}
    <2>1. HoldsRow(e, q, row)
      BY DEF HoldsRow
    <2>2. QED
      BY <2>1, EntriesPushed
  <1>7. QED
    BY <1>5, <1>6

\* A row goes to a new page q at the end of chain s of table t.
Pushed(db, b, s, t, row) ==
    LET q     == AllocatedPage(db.pg)
        tail  == TailOf(db, t)
        entry == db.catalog[t]
    IN  /\ q >= 0
        /\ b.pg = MarkAllocated(db.pg)
        /\ b.disk[q] = RowPage(0, <<row>>)
        /\ s # <<>> => b.disk[tail] = RowPage(q, db.disk[tail].rows)
        /\ \A p \in Pages : p # q /\ (s # <<>> => p # tail) => b.disk[p] = db.disk[p]
        /\ b.catalog = [db.catalog EXCEPT ![t] =
                          Entry(IF s = <<>> THEN q ELSE entry.first, q, entry.root)]

LEMMA PushGood ==
  ASSUME NEW db, NEW c, NEW own, Good(db, c, own), NEW t \in DOMAIN db.catalog,
         NEW row \in Rows, NEW r, Typed(r.db), Pushed(db, r.db, c[t], t, row),
         r.ok, r.loc = <<AllocatedPage(db.pg), 1>>
  PROVE  \E c2 : Appended(db, c, r, c2, t, row)
  <1> DEFINE b  == r.db
             s  == c[t]
             n  == Len(s)
             q  == AllocatedPage(db.pg)
             s2 == Append(s, q)
             c2 == [c EXCEPT ![t] = s2]
             tail == TailOf(db, t)
             root == db.catalog[t].root
             e  == Entry(IF s = <<>> THEN q ELSE db.catalog[t].first, q, root)
             cat == [db.catalog EXCEPT ![t] = e]
             used == InUse(db.pg)
             own2 == [own EXCEPT ![q] = <<t, n + 1>>]
  <1>1. /\ t \in Tables
        /\ s # <<>> => n \in 1 .. n /\ tail = s[n]
        /\ db.catalog[t].first = IF s = <<>> THEN 0 ELSE s[1]
        /\ root # 0 => root \in used /\ own[root] = <<t, 0>>
    BY GoodReads
  <1>2. /\ Typed(db) /\ Sound(db.pg) /\ db.pg \in Pagers
        /\ DiskTyped(db.disk) /\ DiskTyped(b.disk) /\ DOMAIN own = Pages /\ used \subseteq Pages
    BY <1>1 DEF Good, Typed, InUse, Pagers
  <1>3. /\ s \in Seq(Pages) /\ n \in Nat /\ DOMAIN s = 1 .. n
        /\ \A i \in 1 .. n : /\ s[i] \in used /\ own[s[i]] = <<t, i>>
                             /\ db.disk[s[i]].next = IF i < n THEN s[i + 1] ELSE 0
        /\ \A i, j \in 1 .. n : s[i] = s[j] => i = j
    <2>1. t \in Tables
      BY <1>1
    <2>2. QED
      BY <2>1, GoodChain
  <1>4. /\ q \in Pages /\ q # 0 /\ q \notin used
        /\ Sound(b.pg) /\ InUse(b.pg) = used \cup {q}
    <2>1. q >= 0 /\ b.pg = MarkAllocated(db.pg)
      BY DEF Pushed
    <2>2. QED
      BY <1>2, <2>1, AllocatedInUse
  <1>5. e.root = root /\ e.last = q /\ e.first = IF s = <<>> THEN q ELSE s[1]
    BY <1>1 DEF Entry
  <1>6. /\ DOMAIN b.catalog = DOMAIN db.catalog /\ b.catalog[t] = e
        /\ \A u \in DOMAIN db.catalog : u # t => b.catalog[u] = db.catalog[u]
    BY DEF Pushed
  <1>7. /\ s2 \in Seq(Pages) /\ Len(s2) = n + 1 /\ s2[n + 1] = q
        /\ \A i \in 1 .. n : s2[i] = s[i]
    BY <1>3, <1>4, AppendProperties
  <1>8. /\ b.disk[q].next = 0 /\ b.disk[q].rows = <<row>>
        /\ s # <<>> => b.disk[tail].next = q /\ b.disk[tail].rows = db.disk[tail].rows
    BY DEF Pushed, RowPage
  <1>9. \A p \in Pages : p # q /\ (s # <<>> => p # tail) => b.disk[p] = db.disk[p]
    BY DEF Pushed
  <1>10. /\ DOMAIN own2 = Pages /\ own2[q] = <<t, n + 1>>
         /\ \A p \in Pages : p # q => own2[p] = own[p]
    BY <1>2, <1>4
  <1>0. Typed(b) /\ r.ok /\ r.loc = <<q, 1>>
    OBVIOUS
  <1> HIDE DEF b, s, n, q, s2, tail, root, e, used, own2
  <1>11. s # <<>> => own[tail][1] = t /\ own[tail][2] # 0 /\ tail \in used
    <2>1. SUFFICES ASSUME s # <<>> PROVE own[tail][1] = t /\ own[tail][2] # 0 /\ tail \in used
      OBVIOUS
    <2>2. own[tail] = <<t, n>> /\ n # 0 /\ tail \in used
      BY <1>1, <1>3, <2>1
    <2>3. QED
      BY <2>2
  <1>12. own2[q][1] = t
    BY <1>10
  <1>13. root # 0 => b.disk[root] = db.disk[root] /\ own2[root] = <<t, 0>> /\ root \in InUse(b.pg)
    <2>1. SUFFICES ASSUME root # 0
                   PROVE  b.disk[root] = db.disk[root] /\ own2[root] = <<t, 0>> /\ root \in InUse(b.pg)
      OBVIOUS
    <2>2. own[root] = <<t, 0>> /\ root \in used /\ root \in Pages /\ root # q
      BY <1>1, <1>2, <1>4, <2>1
    <2>3. own[root][2] = 0
      BY <2>2
    <2>4. b.disk[root] = db.disk[root]
      BY <1>9, <1>11, <2>2, <2>3
    <2>5. QED
      BY <1>4, <1>10, <2>2, <2>4
  <1>14. Spares(db, own, b, own2, t)
    <2>1. ASSUME NEW p \in used, own[p][1] # t
          PROVE  p \in InUse(b.pg) /\ own2[p] = own[p] /\ b.disk[p] = db.disk[p]
      <3>1. p \in Pages /\ p # q
        BY <1>2, <1>4
      <3>2. QED
        BY <1>4, <1>9, <1>10, <1>11, <2>1, <3>1
    <2>2. ASSUME NEW p \in InUse(b.pg), own2[p][1] # t PROVE p \in used /\ own2[p] = own[p]
      <3>1. p # q
        BY <1>12, <2>2
      <3>2. QED
        BY <1>2, <1>4, <1>10, <3>1
    <2>3. \A u \in Tables \ {t} : /\ u \in DOMAIN b.catalog <=> u \in DOMAIN db.catalog
                                  /\ u \in DOMAIN db.catalog => b.catalog[u] = db.catalog[u]
      BY <1>6
    <2>4. QED
      BY <2>1, <2>2, <2>3 DEF Spares, used
  <1>15. \A i \in 1 .. n : b.disk[s[i]].rows = db.disk[s[i]].rows
    <2>1. SUFFICES ASSUME NEW i \in 1 .. n PROVE b.disk[s[i]].rows = db.disk[s[i]].rows
      OBVIOUS
    <2>2. s[i] \in Pages /\ s[i] # q
      BY <1>2, <1>3, <1>4
    <2>3. QED
      BY <1>8, <1>9, <2>2
  <1>16. Linked(b.disk, InUse(b.pg), s2, t, own2)
    <2>1. SUFFICES ASSUME NEW i \in 1 .. n + 1
                   PROVE  /\ s2[i] \in InUse(b.pg) /\ own2[s2[i]] = <<t, i>>
                          /\ b.disk[s2[i]].next = IF i < n + 1 THEN s2[i + 1] ELSE 0
      BY <1>7 DEF Linked
    <2>2. CASE i = n + 1
      BY <1>3, <1>4, <1>7, <1>8, <1>10, <2>2
    <2>3. CASE i \in 1 .. n
      <3>1. s2[i] = s[i] /\ s[i] \in used /\ s[i] \in Pages /\ s[i] # q /\ own[s[i]] = <<t, i>>
        BY <1>2, <1>3, <1>4, <1>7, <2>3
      <3>2. own2[s[i]] = <<t, i>> /\ s[i] \in InUse(b.pg)
        BY <1>4, <1>10, <3>1
      <3>3. CASE i = n
        <4>1. s # <<>> /\ s[i] = tail
          BY <1>1, <1>3, <2>3, <3>3 DEF n
        <4>2. b.disk[s[i]].next = q /\ i < n + 1 /\ s2[i + 1] = q
          BY <1>3, <1>7, <1>8, <3>3, <4>1
        <4>3. QED
          BY <3>1, <3>2, <4>2
      <3>4. CASE i # n
        <4>1. i < n /\ i + 1 \in 1 .. n /\ i < n + 1 /\ n \in 1 .. n
          BY <1>3, <2>3, <3>4
        <4>2. s # <<>> => s[i] # tail
          BY <1>1, <1>3, <2>3, <3>4, <4>1
        <4>3. b.disk[s[i]] = db.disk[s[i]]
          BY <1>9, <3>1, <4>2
        <4>4. s2[i + 1] = s[i + 1] /\ db.disk[s[i]].next = s[i + 1]
          BY <1>3, <1>7, <2>3, <4>1
        <4>5. QED
          BY <3>1, <3>2, <4>1, <4>3, <4>4
      <3>5. QED
        BY <3>3, <3>4
    <2>4. QED
      BY <1>3, <2>2, <2>3
  <1>17. Entered(b.catalog[t], InUse(b.pg), s2, t, own2)
    <2>1. s2 # <<>> /\ n + 1 \in 1 .. Len(s2) /\ e.last = s2[n + 1]
      BY <1>3, <1>5, <1>7
    <2>2. e.first = s2[1]
      <3>1. CASE s = <<>>
        <4>1. n = 0
          BY <3>1 DEF n
        <4>2. QED
          BY <1>5, <1>7, <3>1, <4>1
      <3>2. CASE s # <<>>
        <4>1. 1 \in 1 .. n
          BY <1>1, <1>3, <3>2
        <4>2. QED
          BY <1>5, <1>7, <3>2, <4>1
      <3>3. QED
        BY <3>1, <3>2
    <2>3. e.root # 0 => e.root \in InUse(b.pg) /\ own2[e.root] = <<t, 0>>
      BY <1>5, <1>13
    <2>4. QED
      BY <1>6, <2>1, <2>2, <2>3 DEF Entered
  <1>18. ASSUME NEW p \in InUse(b.pg), own2[p][1] = t PROVE OwnedBy(b, s2, t, p)
    <2>1. CASE p = q
      <3>1. n + 1 \in 1 .. Len(s2) /\ s2[n + 1] = p
        BY <1>3, <1>7, <2>1
      <3>2. QED
        BY <3>1 DEF OwnedBy
    <2>2. CASE p # q
      <3>1. p \in used /\ own[p][1] = t
        BY <1>2, <1>4, <1>10, <1>18, <2>2
      <3>2. PICK u \in Tables : own[p][1] = u /\ OwnedBy(db, c[u], u, p)
        BY <3>1, OwnerOf DEF used
      <3>3. OwnedBy(db, s, t, p)
        BY <3>1, <3>2 DEF s
      <3>4. CASE \E i \in 1 .. n : s[i] = p
        <4>1. PICK i \in 1 .. n : s[i] = p
          BY <3>4
        <4>2. i \in 1 .. Len(s2) /\ s2[i] = p
          BY <1>3, <1>7, <4>1
        <4>3. QED
          BY <4>2 DEF OwnedBy
      <3>5. CASE db.catalog[t].root = p
        BY <1>5, <1>6, <3>5 DEF OwnedBy, root
      <3>6. QED
        BY <3>3, <3>4, <3>5 DEF OwnedBy, n
    <2>3. QED
      BY <2>1, <2>2
  <1>19. Kept(b, s2, t, own2)
    BY <1>6, <1>16, <1>17, <1>18 DEF Kept
  <1>20. Good(b, c2, own2) /\ Others(db, c, b, c2, t) /\ c2[t] = s2
    BY <1>0, <1>1, <1>4, <1>7, <1>10, <1>14, <1>19, OrderKept
  <1>21. SameRows(db.disk, b.disk, s)
    BY <1>15 DEF SameRows, n
  <1>22. /\ RowsOf(b.disk, s2) = Append(RowsOf(db.disk, s), row)
         /\ EntriesOf(b.disk, s2) = EntriesOf(db.disk, s) \cup {<<row, <<q, 1>>>>}
    BY <1>2, <1>3, <1>4, <1>8, <1>21, PushedRow DEF s2
  <1> HIDE DEF c2
  <1>23. b.catalog[t].root = root
    BY <1>5, <1>6
  <1>24. SameIndex(db, b, t)
    BY <1>13, <1>23 DEF SameIndex, root
  <1>25. Added(db, c, b, c2, t, row, r.loc)
    <2>1. n + 1 <= n + 1
      BY <1>3
    <2>2. QED
      BY <1>7, <1>20, <1>22, <1>0, <2>1 DEF Added, s, n
  <1>26. Appended(db, c, r, c2, t, row)
    BY <1>6, <1>20, <1>24, <1>25, <1>0 DEF Appended, b
  <1>27. QED
    BY <1>26

\* Table t's last page is found again, and may have been written: its chain
\* and its index stay where they are.
TailMoved(db, b, t) ==
    /\ b.pg = db.pg
    /\ b.disk[TailOf(db, t)].next = 0
    /\ \A p \in Pages : p # TailOf(db, t) => b.disk[p] = db.disk[p]
    /\ b.catalog = [db.catalog EXCEPT ![t] =
                       Entry(db.catalog[t].first, TailOf(db, t), db.catalog[t].root)]

LEMMA TailGood ==
  ASSUME NEW db, NEW c, NEW own, Good(db, c, own), NEW t \in DOMAIN db.catalog,
         NEW b, Typed(b), c[t] # <<>>, TailMoved(db, b, t)
  PROVE  /\ Good(b, c, own) /\ Others(db, c, b, c, t)
         /\ DOMAIN b.catalog = DOMAIN db.catalog
         /\ b.catalog[t].root = db.catalog[t].root
         /\ db.catalog[t].root # 0 =>
              b.disk[db.catalog[t].root] = db.disk[db.catalog[t].root]
  <1> DEFINE s  == c[t]
             n  == Len(s)
             tail == TailOf(db, t)
             r == db.catalog[t].root
             e  == Entry(db.catalog[t].first, tail, r)
             used == InUse(db.pg)
  <1>1. /\ t \in Tables
        /\ n \in 1 .. n /\ tail = s[n]
        /\ db.catalog[t].first = s[1]
        /\ r # 0 => r \in used /\ own[r] = <<t, 0>>
    BY GoodReads
  <1>2. /\ Typed(db) /\ Sound(db.pg) /\ db.pg \in Pagers
        /\ DOMAIN own = Pages /\ used \subseteq Pages
    BY <1>1 DEF Good, Typed, InUse, Pagers
  <1>3. /\ s \in Seq(Pages) /\ n \in Nat /\ DOMAIN s = 1 .. n
        /\ \A i \in 1 .. n : /\ s[i] \in used /\ own[s[i]] = <<t, i>>
                             /\ db.disk[s[i]].next = IF i < n THEN s[i + 1] ELSE 0
        /\ \A i, j \in 1 .. n : s[i] = s[j] => i = j
    BY <1>1, GoodChain
  <1>4. [c EXCEPT ![t] = s] = c
    BY <1>1, SameChains
  <1>5. e.root = r /\ e.last = tail /\ e.first = s[1]
    BY <1>1 DEF Entry
  <1>6. /\ DOMAIN b.catalog = DOMAIN db.catalog /\ b.catalog[t] = e
        /\ \A u \in DOMAIN db.catalog : u # t => b.catalog[u] = db.catalog[u]
    BY DEF TailMoved
  <1>7. /\ b.disk[tail].next = 0 /\ s # <<>> /\ b.pg = db.pg
        /\ \A p \in Pages : p # tail => b.disk[p] = db.disk[p]
    BY DEF TailMoved
  <1> HIDE DEF s, n, tail, r, e, used
  <1>0. SUFFICES
             /\ Good(b, c, own) /\ Others(db, c, b, c, t)
             /\ DOMAIN b.catalog = DOMAIN db.catalog
             /\ b.catalog[t].root = r
             /\ r # 0 => b.disk[r] = db.disk[r]
    BY DEF r
  <1>8. own[tail] = <<t, n>> /\ own[tail][1] = t /\ own[tail][2] # 0
    <2>1. own[tail] = <<t, n>> /\ n # 0
      BY <1>1, <1>3
    <2>2. QED
      BY <2>1
  <1>9. r # 0 => b.disk[r] = db.disk[r] /\ own[r] = <<t, 0>> /\ r \in used
    <2>1. SUFFICES ASSUME r # 0
                   PROVE  b.disk[r] = db.disk[r] /\ own[r] = <<t, 0>> /\ r \in used
      OBVIOUS
    <2>2. own[r] = <<t, 0>> /\ r \in used /\ r \in Pages
      BY <1>1, <1>2, <2>1
    <2>3. own[r][2] = 0
      BY <2>2
    <2>4. QED
      BY <1>7, <1>8, <2>2, <2>3
  <1>10. Spares(db, own, b, own, t)
    <2>1. \A p \in used : own[p][1] # t => b.disk[p] = db.disk[p]
      BY <1>2, <1>7, <1>8
    <2>2. InUse(b.pg) = used
      BY <1>7 DEF used
    <2>3. \A u \in Tables \ {t} : /\ u \in DOMAIN b.catalog <=> u \in DOMAIN db.catalog
                                  /\ u \in DOMAIN db.catalog => b.catalog[u] = db.catalog[u]
      BY <1>6
    <2>4. QED
      BY <2>1, <2>2, <2>3 DEF Spares, used
  <1>11. Linked(b.disk, InUse(b.pg), s, t, own)
    <2>1. SUFFICES ASSUME NEW i \in 1 .. n
                   PROVE  b.disk[s[i]].next = IF i < n THEN s[i + 1] ELSE 0
      BY <1>3, <1>7 DEF Linked, used, n
    <2>2. CASE i = n
      BY <1>1, <1>3, <1>7, <2>2
    <2>3. CASE i # n
      <3>1. s[i] # tail /\ s[i] \in Pages
        BY <1>1, <1>2, <1>3, <2>3
      <3>2. QED
        BY <1>3, <1>7, <3>1
    <2>4. QED
      BY <2>2, <2>3
  <1>12. Entered(b.catalog[t], InUse(b.pg), s, t, own)
    <2>1. s # <<>> /\ n \in 1 .. n /\ e.last = s[n] /\ e.first = s[1]
      BY <1>1, <1>5, <1>7
    <2>2. e.root # 0 => e.root \in InUse(b.pg) /\ own[e.root] = <<t, 0>>
      BY <1>5, <1>7, <1>9 DEF used
    <2>3. QED
      BY <1>6, <2>1, <2>2 DEF Entered, n
  <1>13. ASSUME NEW p \in InUse(b.pg), own[p][1] = t PROVE OwnedBy(b, s, t, p)
    <2>1. PICK u \in Tables : own[p][1] = u /\ OwnedBy(db, c[u], u, p)
      BY <1>7, OwnerOf
    <2>2. OwnedBy(db, s, t, p)
      BY <1>13, <2>1 DEF s
    <2>3. QED
      BY <1>5, <1>6, <2>2 DEF OwnedBy, r
  <1>14. Kept(b, s, t, own)
    BY <1>6, <1>11, <1>12, <1>13 DEF Kept
  <1>15. Good(b, c, own) /\ Others(db, c, b, c, t)
    <2> DEFINE now == [c EXCEPT ![t] = s]
    <2>1. Good(b, now, own) /\ Others(db, c, b, now, t)
      BY <1>1, <1>2, <1>3, <1>7, <1>10, <1>14, OrderKept
    <2>2. now = c
      BY <1>4
    <2>3. QED
      BY <2>1, <2>2
  <1>16. QED
    BY <1>5, <1>6, <1>9, <1>15

LEMMA FailsGood ==
  ASSUME NEW db, NEW c, NEW own, Good(db, c, own), NEW t \in DOMAIN db.catalog,
         NEW row \in Rows, NEW r, Typed(r.db), AppendFails(db, t, r)
  PROVE  Appended(db, c, r, c, t, row)
  <1>1. AllocatedPage(db.pg) < 0 /\ ~r.ok
    BY DEF AppendFails
  <1>2. CASE r.db = db
    <2>1. Others(db, c, r.db, c, t)
      BY <1>2 DEF Others
    <2>2. QED
      BY <1>1, <1>2, <2>1 DEF Appended, SameIndex, Unchanged
  <1>3. CASE r.db # db
    <2> DEFINE b == r.db
               tail == TailOf(db, t)
               s == c[t]
               n == Len(s)
    <2>1. /\ db.catalog[t].last # 0 /\ b.pg = db.pg /\ b.disk = db.disk
          /\ b.catalog = [db.catalog EXCEPT ![t] =
                            Entry(db.catalog[t].first, tail, db.catalog[t].root)]
      BY <1>3 DEF AppendFails, Is
    <2>2. t \in Tables /\ s # <<>> /\ n \in 1 .. n /\ tail = s[n]
      BY <2>1, GoodReads
    <2>3. db.disk[tail].next = 0
      BY <2>2, GoodChain
    <2> HIDE DEF b, tail, s
    <2>4. /\ Good(b, c, own) /\ Others(db, c, b, c, t)
          /\ DOMAIN b.catalog = DOMAIN db.catalog
          /\ b.catalog[t].root = db.catalog[t].root
      <3>1. Typed(b)
        BY DEF b
      <3>2. TailMoved(db, b, t)
        BY <2>1, <2>3 DEF tail, TailMoved
      <3>3. QED
        BY <2>2, <3>1, <3>2, TailGood DEF s
    <2>5. QED
      BY <1>1, <2>1, <2>4 DEF Appended, SameIndex, Unchanged, b
  <1>4. QED
    BY <1>2, <1>3

\* The last page of a chain gets a row more.
EndGrows(d, e, s, row) ==
    /\ \A i \in 1 .. Len(s) : i < Len(s) => e[s[i]].rows = d[s[i]].rows
    /\ e[s[Len(s)]].rows = Append(d[s[Len(s)]].rows, row)

LEMMA GrownRow ==
  ASSUME NEW d, NEW e, DiskTyped(d), DiskTyped(e), NEW s \in Seq(Pages), s # <<>>,
         NEW row \in Rows, EndGrows(d, e, s, row)
  PROVE  /\ RowsOf(e, s) = Append(RowsOf(d, s), row)
         /\ EntriesOf(e, s) =
              EntriesOf(d, s) \cup {<<row, <<s[Len(s)], Len(d[s[Len(s)]].rows) + 1>>>>}
  BY RowsGrow, EntriesGrow DEF EndGrows

LEMMA FitsGood ==
  ASSUME NEW db, NEW c, NEW own, Good(db, c, own), NEW t \in DOMAIN db.catalog,
         NEW row \in Rows, NEW r, Typed(r.db), AppendFits(db, t, row, r)
  PROVE  Appended(db, c, r, c, t, row)
  <1> DEFINE b == r.db
             tail == TailOf(db, t)
             s == c[t]
             n == Len(s)
             page == RowPage(0, Append(db.disk[tail].rows, row))
  <1>1. t \in Tables /\ s # <<>> /\ n \in 1 .. n /\ tail = s[n]
    BY GoodReads DEF AppendFits
  <1>2. /\ Typed(db) /\ Sound(db.pg) /\ DiskTyped(db.disk) /\ DiskTyped(b.disk)
        /\ tail \in InUse(db.pg) /\ s \in Seq(Pages) /\ tail \in Pages
    <2>1. Typed(db) /\ Sound(db.pg)
      BY DEF Good
    <2>2. DiskTyped(db.disk) /\ DiskTyped(b.disk)
      BY <2>1 DEF Typed
    <2>3. s[n] \in InUse(db.pg) /\ s[n] \in Pages /\ s \in Seq(Pages)
      BY <1>1, GoodChain
    <2> HIDE DEF b, tail
    <2>4. QED
      BY <1>1, <2>1, <2>2, <2>3
  <1>3. Read(db, tail) = db.disk[tail] /\ MarkWritten(db.pg, tail) = db.pg
    BY <1>2, InUseFacts
  <1>4. /\ r.ok /\ r.loc = <<tail, Len(db.disk[tail].rows) + 1>>
        /\ b.pg = db.pg /\ b.disk = [db.disk EXCEPT ![tail] = page]
        /\ b.catalog = [db.catalog EXCEPT ![t] =
                          Entry(db.catalog[t].first, tail, db.catalog[t].root)]
    BY <1>3 DEF AppendFits, Is
  <1>5. page.next = 0 /\ page.rows = Append(db.disk[tail].rows, row)
    BY DEF RowPage
  <1> HIDE DEF page, tail
  <1>6. b.disk[tail] = page /\ \A p \in Pages : p # tail => b.disk[p] = db.disk[p]
    BY <1>2, <1>4 DEF DiskTyped
  <1>7. /\ Good(b, c, own) /\ Others(db, c, b, c, t)
        /\ DOMAIN b.catalog = DOMAIN db.catalog
        /\ SameIndex(db, b, t)
    <2> HIDE DEF b, s
    <2>1. Typed(b)
      BY DEF b
    <2>2. TailMoved(db, b, t)
      BY <1>4, <1>5, <1>6 DEF tail, TailMoved
    <2>3. /\ Good(b, c, own) /\ Others(db, c, b, c, t)
          /\ DOMAIN b.catalog = DOMAIN db.catalog
          /\ b.catalog[t].root = db.catalog[t].root
          /\ db.catalog[t].root # 0 =>
               b.disk[db.catalog[t].root] = db.disk[db.catalog[t].root]
      BY <1>1, <2>1, <2>2, TailGood DEF s
    <2>4. QED
      BY <2>3 DEF SameIndex
  <1>8. \A i \in 1 .. n : s[i] \in Pages /\ (i < n => s[i] # s[n])
    BY <1>1, GoodChain
  <1>9. \A i \in 1 .. n : i < n => b.disk[s[i]].rows = db.disk[s[i]].rows
    BY <1>1, <1>6, <1>8
  <1>10. b.disk[s[n]].rows = Append(db.disk[s[n]].rows, row)
    BY <1>1, <1>5, <1>6
  <1>11. EndGrows(db.disk, b.disk, s, row)
    BY <1>9, <1>10 DEF EndGrows
  <1>12. /\ RowsOf(b.disk, s) = Append(RowsOf(db.disk, s), row)
         /\ EntriesOf(b.disk, s) = EntriesOf(db.disk, s) \cup {<<row, r.loc>>}
    <2> HIDE DEF b, s
    <2>1. /\ RowsOf(b.disk, s) = Append(RowsOf(db.disk, s), row)
          /\ EntriesOf(b.disk, s) =
               EntriesOf(db.disk, s) \cup {<<row, <<s[n], Len(db.disk[s[n]].rows) + 1>>>>}
      BY <1>1, <1>2, <1>11, GrownRow
    <2>2. r.loc = <<s[n], Len(db.disk[s[n]].rows) + 1>>
      BY <1>1, <1>4
    <2>3. QED
      BY <2>1, <2>2
  <1>13. Len(s) <= Len(s) + 1
    BY <1>1
  <1>14. Added(db, c, b, c, t, row, r.loc)
    BY <1>12, <1>13 DEF Added
  <1>15. QED
    BY <1>4, <1>7, <1>14 DEF Appended

LEMMA FirstGood ==
  ASSUME NEW db, NEW c, NEW own, Good(db, c, own), NEW t \in DOMAIN db.catalog,
         NEW row \in Rows, NEW r, Typed(r.db), AppendFirst(db, t, row, r)
  PROVE  \E c2 : Appended(db, c, r, c2, t, row)
  <1> DEFINE b == r.db
             q == AllocatedPage(db.pg)
             page == RowPage(0, <<row>>)
  <1>1. c[t] = <<>> /\ q >= 0 /\ r.ok /\ r.loc = <<q, 1>>
    BY GoodReads DEF AppendFirst
  <1>2. /\ b.pg = MarkAllocated(db.pg) /\ b.disk = [db.disk EXCEPT ![q] = page]
        /\ b.catalog = [db.catalog EXCEPT ![t] = Entry(q, q, db.catalog[t].root)]
    BY DEF AppendFirst, Is
  <1>3. db.pg \in Pagers /\ DiskTyped(db.disk)
    BY DEF Good, Typed
  <1>4. q \in Pages
    BY <1>1, <1>3, AllocatedIsWritten
  <1> HIDE DEF b, q, page
  <1>5. b.disk[q] = page /\ \A p \in Pages : p # q => b.disk[p] = db.disk[p]
    BY <1>2, <1>3, <1>4 DEF DiskTyped
  <1>6. Pushed(db, b, <<>>, t, row)
    BY <1>1, <1>2, <1>5 DEF Pushed, q, page
  <1>7. Pushed(db, b, c[t], t, row)
    BY <1>1, <1>6
  <1>8. QED
    BY <1>1, <1>7, PushGood DEF b, q

LEMMA NextGood ==
  ASSUME NEW db, NEW c, NEW own, Good(db, c, own), NEW t \in DOMAIN db.catalog,
         NEW row \in Rows, NEW r, Typed(r.db), AppendNext(db, t, row, r)
  PROVE  \E c2 : Appended(db, c, r, c2, t, row)
  <1> DEFINE b == r.db
             q == AllocatedPage(db.pg)
             s == c[t]
             n == Len(s)
             tail == TailOf(db, t)
             a == MarkAllocated(db.pg)
             page == RowPage(0, <<row>>)
             full == RowPage(q, db.disk[tail].rows)
             d == [db.disk EXCEPT ![tail] = full]
             e == Entry(db.catalog[t].first, q, db.catalog[t].root)
  <1>1. /\ t \in Tables /\ s # <<>> /\ n \in 1 .. n /\ tail = s[n]
        /\ q >= 0 /\ r.ok /\ r.loc = <<q, 1>>
    BY GoodReads DEF AppendNext
  <1>2. /\ db.pg \in Pagers /\ DiskTyped(db.disk) /\ Typed(db) /\ Sound(db.pg)
    BY DEF Good, Typed
  <1>3. tail \in InUse(db.pg) /\ tail \in Pages
    <2>1. s[n] \in InUse(db.pg) /\ s[n] \in Pages
      BY <1>1, GoodChain
    <2>2. QED
      BY <1>1, <2>1
  <1>4. /\ q \in Pages /\ q \notin InUse(db.pg) /\ InUse(a) = InUse(db.pg) \cup {q}
        /\ MarkWritten(a, q) = a /\ MarkWritten(a, tail) = a
    <2>1. /\ q \in Pages /\ q \notin InUse(db.pg) /\ InUse(a) = InUse(db.pg) \cup {q}
          /\ \A p \in InUse(a) : MarkWritten(a, p) = a
      BY <1>1, <1>2, AllocatedInUse
    <2> HIDE DEF q, a, tail
    <2>2. QED
      BY <1>3, <2>1
  <1>5. Read(db, tail) = db.disk[tail]
    BY <1>2, <1>3, InUseFacts
  <1>6. /\ b.pg = MarkWritten(MarkWritten(a, tail), q)
        /\ b.disk = [d EXCEPT ![q] = page]
        /\ b.catalog = [db.catalog EXCEPT ![t] = e]
    BY <1>5 DEF AppendNext, Is
  <1> HIDE DEF b, q, s, tail, a, page, full, e
  <1>7. b.pg = a
    BY <1>4, <1>6
  <1>8. DOMAIN d = Pages /\ d[tail] = full /\ \A p \in Pages : p # tail => d[p] = db.disk[p]
    BY <1>2, <1>3 DEF DiskTyped
  <1> HIDE DEF d
  <1>9. tail # q
    BY <1>3, <1>4
  <1>10. /\ b.disk[q] = page /\ b.disk[tail] = full
         /\ \A p \in Pages : p # q /\ p # tail => b.disk[p] = db.disk[p]
    BY <1>3, <1>4, <1>6, <1>8, <1>9
  <1>11. Pushed(db, b, s, t, row)
    BY <1>1, <1>6, <1>7, <1>10 DEF Pushed, q, a, tail, page, full, e
  <1>12. QED
    BY <1>1, <1>11, PushGood DEF b, q, s

LEMMA AppendGood ==
  ASSUME NEW db, NEW c, NEW own, Good(db, c, own), NEW t \in DOMAIN db.catalog,
         NEW row \in Rows
  PROVE  \E c2 : Appended(db, c, row_page_append(db, t, row), c2, t, row)
  <1> DEFINE r == row_page_append(db, t, row)
  <1>1. Typed(db)
    BY DEF Good
  <1>2. Typed(r.db)
    BY <1>1, AppendKeeps
  <1>3. \/ AppendFails(db, t, r)
        \/ AppendFirst(db, t, row, r)
        \/ AppendFits(db, t, row, r)
        \/ AppendNext(db, t, row, r)
    BY <1>1, AppendOutcome
  <1> HIDE DEF r
  <1>4. \E c2 : Appended(db, c, r, c2, t, row)
    BY <1>2, <1>3, FailsGood, FirstGood, FitsGood, NextGood
  <1>5. QED
    BY <1>4 DEF r

\* catalog_insert: the row is stored and indexed, or the file is full and
\* nothing changes.
Inserted(db, c, b, c2, t, row) ==
    /\ \E own2 : Good(b, c2, own2)
    /\ Others(db, c, b, c2, t)
    /\ DOMAIN b.catalog = DOMAIN db.catalog
    /\ Indexed(db, c, t) => Indexed(b, c2, t)
    /\ \/ /\ AllocatedPage(db.pg) < 0
          /\ c2[t] = c[t]
          /\ RowsOf(b.disk, c2[t]) = RowsOf(db.disk, c[t])
       \/ /\ Len(c2[t]) <= Len(c[t]) + 1
          /\ RowsOf(b.disk, c2[t]) = Append(RowsOf(db.disk, c[t]), row)

LEMMA OthersTrans ==
  ASSUME NEW db, NEW c, NEW b, NEW c2, NEW t, NEW a, NEW c3,
         Others(db, c, b, c2, t), Others(b, c2, a, c3, t)
  PROVE  Others(db, c, a, c3, t)
  <1>1. SUFFICES ASSUME NEW u \in Tables \ {t}
                 PROVE  /\ c3[u] = c[u]
                        /\ RowsOf(a.disk, c[u]) = RowsOf(db.disk, c[u])
                        /\ Indexed(db, c, u) => Indexed(a, c3, u)
    BY DEF Others
  <1>2. /\ c2[u] = c[u]
        /\ RowsOf(b.disk, c[u]) = RowsOf(db.disk, c[u])
        /\ Indexed(db, c, u) => Indexed(b, c2, u)
    BY DEF Others
  <1>3. /\ c3[u] = c2[u]
        /\ RowsOf(a.disk, c2[u]) = RowsOf(b.disk, c2[u])
        /\ Indexed(b, c2, u) => Indexed(a, c3, u)
    BY DEF Others
  <1>4. QED
    BY <1>2, <1>3

LEMMA InsertGood ==
  ASSUME NEW db, NEW c, NEW own, Good(db, c, own), NEW t \in DOMAIN db.catalog,
         NEW row \in Rows
  PROVE  \E c2 : Inserted(db, c, catalog_insert(db, t, row), c2, t, row)
  <1> DEFINE r == row_page_append(db, t, row)
             w == indexes_add_row(r.db, t, row, r.loc)
             b == catalog_insert(db, t, row)
  <1>1. b = IF r.ok THEN w ELSE r.db
    BY DEF catalog_insert
  <1>2. PICK c2 : Appended(db, c, r, c2, t, row)
    BY AppendGood
  <1> HIDE DEF r, b
  <1>3. PICK own2 : Good(r.db, c2, own2)
    BY <1>2 DEF Appended
  <1>4. /\ Others(db, c, r.db, c2, t) /\ DOMAIN r.db.catalog = DOMAIN db.catalog
        /\ SameIndex(db, r.db, t)
        /\ \/ ~r.ok /\ Unchanged(db, c, r.db, c2, t)
           \/ r.ok /\ Added(db, c, r.db, c2, t, row, r.loc)
    BY <1>2 DEF Appended
  <1>5. CASE ~r.ok
    <2>1. b = r.db /\ Unchanged(db, c, b, c2, t)
      BY <1>1, <1>4, <1>5
    <2>2. Indexed(db, c, t) => Indexed(b, c2, t)
      BY <1>4, <2>1 DEF Indexed, Unchanged, SameIndex
    <2>3. Inserted(db, c, b, c2, t, row)
      BY <1>3, <1>4, <2>1, <2>2 DEF Inserted, Unchanged
    <2>4. QED
      BY <2>3 DEF b
  <1>6. CASE r.ok
    <2>1. b = w /\ Added(db, c, r.db, c2, t, row, r.loc)
      BY <1>1, <1>4, <1>6
    <2>2. t \in DOMAIN r.db.catalog
      BY <1>4
    <2>3. /\ Good(w, c2, own2) /\ Others(r.db, c2, w, c2, t)
          /\ w.catalog = r.db.catalog
          /\ RowsOf(w.disk, c2[t]) = RowsOf(r.db.disk, c2[t])
          /\ (/\ r.db.catalog[t].root # 0
              /\ EntriesOf(r.db.disk, c2[t]) =
                   r.db.disk[r.db.catalog[t].root].entries \cup {<<row, r.loc>>})
             => Indexed(w, c2, t)
      BY <1>3, <2>2, AddRowGood
    <2> HIDE DEF w
    <2>4. Others(db, c, w, c2, t)
      BY <1>4, <2>3, OthersTrans
    <2>5. Indexed(db, c, t) => Indexed(w, c2, t)
      <3>1. SUFFICES ASSUME Indexed(db, c, t) PROVE Indexed(w, c2, t)
        OBVIOUS
      <3>2. CASE r.db.catalog[t].root = 0
        BY <2>3, <3>2 DEF Indexed
      <3>3. CASE r.db.catalog[t].root # 0
        <4>1. /\ r.db.catalog[t].root = db.catalog[t].root
              /\ r.db.disk[db.catalog[t].root] = db.disk[db.catalog[t].root]
          BY <1>4, <3>3 DEF SameIndex
        <4>2. db.disk[db.catalog[t].root].entries = EntriesOf(db.disk, c[t])
          BY <3>1, <3>3, <4>1 DEF Indexed
        <4>3. EntriesOf(r.db.disk, c2[t]) = EntriesOf(db.disk, c[t]) \cup {<<row, r.loc>>}
          BY <2>1 DEF Added
        <4>4. QED
          BY <2>3, <3>3, <4>1, <4>2, <4>3
      <3>4. QED
        BY <3>2, <3>3
    <2>6. /\ Len(c2[t]) <= Len(c[t]) + 1
          /\ RowsOf(w.disk, c2[t]) = Append(RowsOf(db.disk, c[t]), row)
      BY <2>1, <2>3 DEF Added
    <2>7. Inserted(db, c, w, c2, t, row)
      BY <1>4, <2>3, <2>4, <2>5, <2>6 DEF Inserted
    <2>8. QED
      BY <2>1, <2>7 DEF b
  <1>7. QED
    BY <1>5, <1>6

-----------------------------------------------------------------------------
(* What the tables of a database in order show: their rows.                  *)

InOrder(db, c) ==
    /\ \E own : Good(db, c, own)
    /\ Counted(db, c)
    /\ \A t \in Tables : Indexed(db, c, t)

Shows(db, rows) ==
    /\ rows \in [Tables -> Seq(Rows)]
    /\ \E c : InOrder(db, c) /\ \A t \in Tables : rows[t] = RowsOf(db.disk, c[t])

LEMMA ShowsParts ==
  ASSUME NEW db, NEW rows, Shows(db, rows)
  PROVE  \E c, own : /\ Good(db, c, own) /\ Counted(db, c)
                     /\ \A t \in Tables : Indexed(db, c, t)
                     /\ \A t \in Tables : rows[t] = RowsOf(db.disk, c[t])
  BY DEF Shows, InOrder

LEMMA ShowsReads ==
  ASSUME NEW db, NEW rows, Shows(db, rows)
  PROVE  /\ Typed(db)
         /\ \A t \in DOMAIN db.catalog : t \in Tables /\ read_all_rows(db, t) = rows[t]
         /\ \A t \in Tables \ DOMAIN db.catalog : rows[t] = <<>>
  <1>1. PICK c, own : /\ Good(db, c, own) /\ Counted(db, c)
                      /\ \A t \in Tables : Indexed(db, c, t)
                      /\ \A t \in Tables : rows[t] = RowsOf(db.disk, c[t])
    BY ShowsParts
  <1>2. \A t \in DOMAIN db.catalog : t \in Tables /\ read_all_rows(db, t) = rows[t]
    BY <1>1, GoodReads, GoodRows
  <1>3. \A t \in Tables \ DOMAIN db.catalog : c[t] = <<>>
    BY <1>1 DEF Good
  <1>4. \A t \in Tables \ DOMAIN db.catalog : rows[t] = <<>>
    BY <1>1, <1>3, RowsOfNone
  <1>5. QED
    BY <1>1, <1>2, <1>4 DEF Good

LEMMA ShowsSame ==
  ASSUME NEW db, NEW rows, Shows(db, rows), NEW b, Typed(b),
         b.pg = db.pg, b.disk = db.disk, b.catalog = db.catalog
  PROVE  Shows(b, rows)
  <1>1. PICK c, own : /\ Good(db, c, own) /\ Counted(db, c)
                      /\ \A t \in Tables : Indexed(db, c, t)
                      /\ \A t \in Tables : rows[t] = RowsOf(db.disk, c[t])
    BY ShowsParts
  <1>2. Good(b, c, own)
    BY <1>1 DEF Good, OwnedBy
  <1>3. Counted(b, c) /\ \A t \in Tables : Indexed(b, c, t)
    BY <1>1 DEF Counted, Indexed
  <1>4. \A t \in Tables : rows[t] = RowsOf(b.disk, c[t])
    BY <1>1
  <1>5. QED
    BY <1>2, <1>3, <1>4 DEF Shows, InOrder

\* A statement on t that keeps the other tables.
LEMMA ShowsChange ==
  ASSUME NEW db, NEW rows, rows \in [Tables -> Seq(Rows)],
         NEW c, Counted(db, c), \A u \in Tables : Indexed(db, c, u),
         \A u \in Tables : rows[u] = RowsOf(db.disk, c[u]),
         NEW b, NEW c2, NEW own2, Good(b, c2, own2), NEW t \in Tables,
         Others(db, c, b, c2, t), Indexed(b, c2, t),
         Len(c2[t]) <= Len(RowsOf(b.disk, c2[t]))
  PROVE  Shows(b, [rows EXCEPT ![t] = RowsOf(b.disk, c2[t])])
  <1> DEFINE new == RowsOf(b.disk, c2[t])
             rows2 == [rows EXCEPT ![t] = new]
  <1>1. new \in Seq(Rows)
    <2>1. DiskTyped(b.disk) /\ c2[t] \in Seq(Pages)
      BY DEF Good, Typed
    <2>2. QED
      BY <2>1, PageRows
  <1>2. \A u \in Tables \ {t} : /\ c2[u] = c[u]
                                /\ RowsOf(b.disk, c[u]) = RowsOf(db.disk, c[u])
                                /\ Indexed(db, c, u) => Indexed(b, c2, u)
    BY DEF Others
  <1>3. Counted(b, c2)
    <2>1. SUFFICES ASSUME NEW u \in Tables PROVE Len(c2[u]) <= Len(RowsOf(b.disk, c2[u]))
      BY DEF Counted
    <2>2. CASE u = t
      BY <2>2
    <2>3. CASE u # t
      <3>1. Len(c[u]) <= Len(RowsOf(db.disk, c[u]))
        BY DEF Counted
      <3>2. QED
        BY <1>2, <2>3, <3>1
    <2>4. QED
      BY <2>2, <2>3
  <1>4. \A u \in Tables : Indexed(b, c2, u)
    BY <1>2
  <1> HIDE DEF new
  <1>5. rows2 \in [Tables -> Seq(Rows)] /\ rows2[t] = new
        /\ \A u \in Tables \ {t} : rows2[u] = rows[u]
    BY <1>1
  <1> HIDE DEF rows2
  <1>6. \A u \in Tables : rows2[u] = RowsOf(b.disk, c2[u])
    BY <1>2, <1>5 DEF new
  <1>7. Shows(b, rows2)
    BY <1>3, <1>4, <1>5, <1>6 DEF Shows, InOrder
  <1>8. QED
    BY <1>7 DEF rows2, new

LEMMA CountedRows ==
  ASSUME NEW db, NEW c, NEW own, Good(db, c, own), Counted(db, c), NEW t \in Tables
  PROVE  /\ RowsOf(db.disk, c[t]) \in Seq(Rows)
         /\ Len(c[t]) \in Nat /\ Len(RowsOf(db.disk, c[t])) \in Nat
         /\ Len(c[t]) <= Len(RowsOf(db.disk, c[t]))
  <1>1. DiskTyped(db.disk) /\ c[t] \in Seq(Pages)
    BY DEF Good, Typed
  <1>2. RowsOf(db.disk, c[t]) \in Seq(Rows)
    BY <1>1, PageRows
  <1>3. QED
    BY <1>1, <1>2 DEF Counted

LEMMA ShowsInsert ==
  ASSUME NEW db, NEW rows, Shows(db, rows), NEW t \in DOMAIN db.catalog, NEW row \in Rows
  PROVE  LET b == catalog_insert(db, t, row)
         IN  /\ DOMAIN b.catalog = DOMAIN db.catalog
             /\ \/ AllocatedPage(db.pg) < 0 /\ Shows(b, rows)
                \/ Shows(b, [rows EXCEPT ![t] = Append(rows[t], row)])
  <1> DEFINE b == catalog_insert(db, t, row)
  <1>1. PICK c, own : /\ Good(db, c, own) /\ Counted(db, c)
                      /\ \A u \in Tables : Indexed(db, c, u)
                      /\ \A u \in Tables : rows[u] = RowsOf(db.disk, c[u])
    BY ShowsParts
  <1>2. PICK c2 : Inserted(db, c, b, c2, t, row)
    BY <1>1, InsertGood
  <1> HIDE DEF b
  <1>0. SUFFICES /\ DOMAIN b.catalog = DOMAIN db.catalog
                 /\ \/ AllocatedPage(db.pg) < 0 /\ Shows(b, rows)
                    \/ Shows(b, [rows EXCEPT ![t] = Append(rows[t], row)])
    BY DEF b
  <1>3. PICK own2 : Good(b, c2, own2)
    BY <1>2 DEF Inserted
  <1>4. t \in Tables /\ rows \in [Tables -> Seq(Rows)]
    BY <1>1, GoodReads DEF Shows
  <1>5. /\ Others(db, c, b, c2, t)
        /\ DOMAIN b.catalog = DOMAIN db.catalog
        /\ Indexed(b, c2, t)
        /\ \/ /\ AllocatedPage(db.pg) < 0
              /\ c2[t] = c[t]
              /\ RowsOf(b.disk, c2[t]) = RowsOf(db.disk, c[t])
           \/ /\ Len(c2[t]) <= Len(c[t]) + 1
              /\ RowsOf(b.disk, c2[t]) = Append(RowsOf(db.disk, c[t]), row)
    BY <1>1, <1>2, <1>4 DEF Inserted
  <1>6. rows[t] = RowsOf(db.disk, c[t])
    BY <1>1, <1>4
  <1>7. /\ rows[t] \in Seq(Rows) /\ Len(c[t]) \in Nat /\ Len(rows[t]) \in Nat
        /\ Len(c[t]) <= Len(rows[t])
    BY <1>1, <1>4, <1>6, CountedRows
  <1>8. Len(c2[t]) \in Nat
    BY <1>3, <1>4, GoodChain
  <1>9. CASE /\ AllocatedPage(db.pg) < 0 /\ c2[t] = c[t]
             /\ RowsOf(b.disk, c2[t]) = RowsOf(db.disk, c[t])
    <2>1. Len(c2[t]) <= Len(RowsOf(b.disk, c2[t]))
      BY <1>6, <1>7, <1>9
    <2>2. Shows(b, [rows EXCEPT ![t] = RowsOf(b.disk, c2[t])])
      BY <1>1, <1>3, <1>4, <1>5, <2>1, ShowsChange
    <2>3. [rows EXCEPT ![t] = rows[t]] = rows
      BY <1>4
    <2>4. RowsOf(b.disk, c2[t]) = rows[t]
      BY <1>6, <1>9
    <2>5. Shows(b, rows)
      BY <2>2, <2>3, <2>4
    <2>6. QED
      BY <1>5, <1>9, <2>5
  <1>10. CASE /\ Len(c2[t]) <= Len(c[t]) + 1
              /\ RowsOf(b.disk, c2[t]) = Append(RowsOf(db.disk, c[t]), row)
    <2> DEFINE more == Append(rows[t], row)
    <2>1. RowsOf(b.disk, c2[t]) = more
      BY <1>6, <1>10
    <2>2. Len(more) = Len(rows[t]) + 1
      BY <1>7
    <2> HIDE DEF more
    <2>3. Len(c2[t]) <= Len(RowsOf(b.disk, c2[t]))
      BY <1>7, <1>8, <1>10, <2>1, <2>2
    <2>4. Shows(b, [rows EXCEPT ![t] = RowsOf(b.disk, c2[t])])
      BY <1>1, <1>3, <1>4, <1>5, <2>3, ShowsChange
    <2>5. Shows(b, [rows EXCEPT ![t] = more])
      BY <2>1, <2>4
    <2>6. QED
      BY <1>5, <2>5 DEF more
  <1>11. QED
    BY <1>5, <1>9, <1>10

\* An empty table without an index enters or leaves the catalog.
LEMMA RetableGood ==
  ASSUME NEW db, NEW c, NEW own, Good(db, c, own), NEW t \in Tables, c[t] = <<>>,
         t \in DOMAIN db.catalog => db.catalog[t].root = 0,
         NEW b, Typed(b), b.pg = db.pg, b.disk = db.disk,
         t \in DOMAIN b.catalog => b.catalog[t] = Entry(0, 0, 0),
         \A u \in Tables \ {t} : /\ u \in DOMAIN b.catalog <=> u \in DOMAIN db.catalog
                                 /\ u \in DOMAIN db.catalog => b.catalog[u] = db.catalog[u]
  PROVE  Good(b, c, own) /\ Others(db, c, b, c, t) /\ Indexed(b, c, t)
  <1> DEFINE s == c[t]
  <1>1. Sound(b.pg) /\ DOMAIN own = Pages /\ [c EXCEPT ![t] = s] = c /\ s \in Seq(Pages)
    BY SameChains DEF Good
  <1>2. Spares(db, own, b, own, t)
    BY DEF Spares
  <1>3. Entry(0, 0, 0).root = 0 /\ Entry(0, 0, 0).first = 0 /\ Entry(0, 0, 0).last = 0
    BY DEF Entry
  <1>4. ASSUME NEW p \in InUse(b.pg), own[p][1] = t PROVE FALSE
    <2>1. PICK u \in Tables : own[p][1] = u /\ OwnedBy(db, c[u], u, p)
      BY OwnerOf
    <2>2. OwnedBy(db, <<>>, t, p)
      BY <1>4, <2>1
    <2>3. t \in DOMAIN db.catalog /\ db.catalog[t].root = p
      BY <2>2 DEF OwnedBy
    <2>4. p # 0
      BY DEF InUse
    <2>5. QED
      BY <2>3, <2>4
  <1>5. s = <<>>
    OBVIOUS
  <1> HIDE DEF s
  <1>6. Linked(b.disk, InUse(b.pg), s, t, own)
    <2>1. Len(s) = 0
      BY <1>5
    <2> HIDE DEF s
    <2>2. \A i \in 1 .. Len(s) : FALSE
      BY <2>1
    <2>3. QED
      BY <2>2 DEF Linked
  <1>7. t \in DOMAIN b.catalog => Entered(b.catalog[t], InUse(b.pg), s, t, own)
    BY <1>3, <1>5 DEF Entered
  <1>8. Kept(b, s, t, own)
    BY <1>4, <1>5, <1>6, <1>7 DEF Kept
  <1>9. Good(b, c, own) /\ Others(db, c, b, c, t)
    <2> DEFINE now == [c EXCEPT ![t] = s]
    <2>1. Good(b, now, own) /\ Others(db, c, b, now, t)
      BY <1>1, <1>2, <1>8, OrderKept
    <2>2. now = c
      BY <1>1
    <2>3. QED
      BY <2>1, <2>2
  <1>10. Indexed(b, c, t)
    BY <1>3 DEF Indexed
  <1>11. QED
    BY <1>9, <1>10

\* The chain of a table is empty now.
LEMMA ShowsEmptied ==
  ASSUME NEW db, NEW rows, rows \in [Tables -> Seq(Rows)],
         NEW c, Counted(db, c), \A u \in Tables : Indexed(db, c, u),
         \A u \in Tables : rows[u] = RowsOf(db.disk, c[u]),
         NEW b, NEW c2, NEW own2, Good(b, c2, own2), NEW t \in Tables,
         Others(db, c, b, c2, t), Indexed(b, c2, t), c2[t] = <<>>
  PROVE  Shows(b, [rows EXCEPT ![t] = <<>>])
  <1>1. RowsOf(b.disk, c2[t]) = <<>>
    BY RowsOfNone
  <1>2. Len(c2[t]) <= Len(RowsOf(b.disk, c2[t]))
    <2>1. Len(c2[t]) = 0 /\ Len(RowsOf(b.disk, c2[t])) = 0
      BY <1>1
    <2>2. QED
      BY <2>1
  <1>3. Shows(b, [rows EXCEPT ![t] = RowsOf(b.disk, c2[t])])
    BY <1>2, ShowsChange
  <1>4. QED
    BY <1>1, <1>3

LEMMA ShowsRewrite ==
  ASSUME NEW db, NEW rows, Shows(db, rows), NEW t \in DOMAIN db.catalog
  PROVE  LET b == indexes_reset(free_row_pages(db, t), t)
         IN  /\ DOMAIN b.catalog = DOMAIN db.catalog
             /\ Shows(b, [rows EXCEPT ![t] = <<>>])
  <1> DEFINE w == free_row_pages(db, t)
             c2(c) == [c EXCEPT ![t] = <<>>]
  <1>1. PICK c, own : /\ Good(db, c, own) /\ Counted(db, c)
                      /\ \A u \in Tables : Indexed(db, c, u)
                      /\ \A u \in Tables : rows[u] = RowsOf(db.disk, c[u])
    BY ShowsParts
  <1>2. t \in Tables /\ rows \in [Tables -> Seq(Rows)]
    BY <1>1, GoodReads DEF Shows
  <1> DEFINE e == [c EXCEPT ![t] = <<>>]
  <1>3. /\ Good(w, e, own) /\ Others(db, c, w, e, t) /\ e[t] = <<>>
        /\ DOMAIN w.catalog = DOMAIN db.catalog
    BY <1>1, FreeRowsGood
  <1> HIDE DEF w, e
  <1> DEFINE v == FreeIndex(w, t)
  <1>4. /\ Good(v, e, own) /\ Others(w, e, v, e, t)
        /\ DOMAIN v.catalog = DOMAIN w.catalog
        /\ v.catalog[t].root = 0
    BY <1>3, FreeIndexGood
  <1> HIDE DEF v
  <1> DEFINE n == NewIndex(v, t, {})
  <1>5. /\ \E own2 : Good(n, e, own2)
        /\ Others(v, e, n, e, t)
        /\ DOMAIN n.catalog = DOMAIN v.catalog
        /\ {} = EntriesOf(v.disk, e[t]) => Indexed(n, e, t)
    BY <1>3, <1>4, NewIndexGood
  <1>6. indexes_reset(w, t) = IF w.catalog[t].root = 0 THEN w ELSE n
    BY DEF indexes_reset, v
  <1> HIDE DEF n
  <1>7. Indexed(n, e, t) /\ Others(db, c, n, e, t)
    <2>1. Others(db, c, v, e, t)
      BY <1>3, <1>4, OthersTrans
    <2>2. Others(db, c, n, e, t)
      BY <1>5, <2>1, OthersTrans
    <2>3. QED
      BY <1>3, <1>5, <2>2, EntriesOfNone
  <1>8. Shows(n, [rows EXCEPT ![t] = <<>>])
    <2>1. PICK own2 : Good(n, e, own2)
      BY <1>5
    <2>2. QED
      BY <1>1, <1>2, <1>3, <1>7, <2>1, ShowsEmptied
  <1>9. w.catalog[t].root = 0 => Shows(w, [rows EXCEPT ![t] = <<>>])
    <2>1. SUFFICES ASSUME w.catalog[t].root = 0 PROVE Shows(w, [rows EXCEPT ![t] = <<>>])
      OBVIOUS
    <2>2. Indexed(w, e, t)
      BY <2>1 DEF Indexed
    <2>3. QED
      BY <1>1, <1>2, <1>3, <2>2, ShowsEmptied
  <1>10. QED
    BY <1>3, <1>4, <1>5, <1>6, <1>8, <1>9 DEF w

LEMMA ShowsDrop ==
  ASSUME NEW db, NEW rows, Shows(db, rows), NEW t \in DOMAIN db.catalog, NEW b, Typed(b),
         LET v == FreeIndex(free_row_pages(db, t), t)
         IN  b.pg = v.pg /\ b.disk = v.disk,
         b.catalog = [u \in DOMAIN db.catalog \ {t} |-> db.catalog[u]]
  PROVE  Shows(b, [rows EXCEPT ![t] = <<>>])
  <1> DEFINE w == free_row_pages(db, t)
  <1>1. PICK c, own : /\ Good(db, c, own) /\ Counted(db, c)
                      /\ \A u \in Tables : Indexed(db, c, u)
                      /\ \A u \in Tables : rows[u] = RowsOf(db.disk, c[u])
    BY ShowsParts
  <1>2. t \in Tables /\ rows \in [Tables -> Seq(Rows)] /\ Typed(db)
    BY <1>1, GoodReads DEF Shows, Good
  <1> DEFINE e == [c EXCEPT ![t] = <<>>]
  <1>3. /\ Good(w, e, own) /\ Others(db, c, w, e, t) /\ e[t] = <<>>
        /\ DOMAIN w.catalog = DOMAIN db.catalog
    BY <1>1, FreeRowsGood
  <1>4. w.catalog = [db.catalog EXCEPT ![t] = Entry(0, 0, db.catalog[t].root)]
    BY <1>2, FreeRowsFields DEF Is
  <1> HIDE DEF w, e
  <1> DEFINE v == FreeIndex(w, t)
  <1>5. /\ Good(v, e, own) /\ Others(w, e, v, e, t)
        /\ DOMAIN v.catalog = DOMAIN w.catalog
        /\ v.catalog[t].root = 0
    BY <1>3, FreeIndexGood
  <1>6. \/ v = w
        \/ v.catalog = [w.catalog EXCEPT ![t] = Entry(w.catalog[t].first, w.catalog[t].last, 0)]
    <2>1. Typed(w) /\ t \in DOMAIN w.catalog
      BY <1>3 DEF Good
    <2>2. QED
      BY <2>1, FreeIndexFields DEF Is
  <1>7. b.pg = v.pg /\ b.disk = v.disk
    BY DEF v, w
  <1> HIDE DEF v
  <1>8. \A u \in DOMAIN db.catalog \ {t} : v.catalog[u] = db.catalog[u]
    BY <1>3, <1>4, <1>6
  <1>9. /\ t \notin DOMAIN b.catalog
        /\ \A u \in Tables \ {t} : /\ u \in DOMAIN b.catalog <=> u \in DOMAIN v.catalog
                                   /\ u \in DOMAIN v.catalog => b.catalog[u] = v.catalog[u]
    BY <1>3, <1>5, <1>8
  <1>10. Good(b, e, own) /\ Others(v, e, b, e, t) /\ Indexed(b, e, t)
    BY <1>2, <1>3, <1>5, <1>7, <1>9, RetableGood
  <1>11. Others(db, c, b, e, t)
    <2>1. Others(db, c, v, e, t)
      BY <1>3, <1>5, OthersTrans
    <2>2. QED
      BY <1>10, <2>1, OthersTrans
  <1>12. QED
    BY <1>1, <1>2, <1>3, <1>10, <1>11, ShowsEmptied

LEMMA ShowsCreate ==
  ASSUME NEW db, NEW rows, Shows(db, rows), NEW t \in Tables \ DOMAIN db.catalog, NEW b, Typed(b),
         b.pg = db.pg, b.disk = db.disk,
         b.catalog = [u \in DOMAIN db.catalog \cup {t} |->
                        IF u = t THEN Entry(0, 0, 0) ELSE db.catalog[u]]
  PROVE  Shows(b, [rows EXCEPT ![t] = <<>>])
  <1>1. PICK c, own : /\ Good(db, c, own) /\ Counted(db, c)
                      /\ \A u \in Tables : Indexed(db, c, u)
                      /\ \A u \in Tables : rows[u] = RowsOf(db.disk, c[u])
    BY ShowsParts
  <1>2. rows \in [Tables -> Seq(Rows)] /\ c[t] = <<>>
    BY <1>1 DEF Shows, Good
  <1>3. /\ b.catalog[t] = Entry(0, 0, 0)
        /\ \A u \in Tables \ {t} : /\ u \in DOMAIN b.catalog <=> u \in DOMAIN db.catalog
                                   /\ u \in DOMAIN db.catalog => b.catalog[u] = db.catalog[u]
    OBVIOUS
  <1>4. Good(b, c, own) /\ Others(db, c, b, c, t) /\ Indexed(b, c, t)
    BY <1>1, <1>2, <1>3, RetableGood
  <1>5. QED
    BY <1>1, <1>2, <1>4, ShowsEmptied

\* An index comes or goes, and the rows stay.
LEMMA ShowsIndexed ==
  ASSUME NEW db, NEW rows, rows \in [Tables -> Seq(Rows)],
         NEW c, NEW own, Good(db, c, own), Counted(db, c), \A u \in Tables : Indexed(db, c, u),
         \A u \in Tables : rows[u] = RowsOf(db.disk, c[u]),
         NEW b, NEW own2, Good(b, c, own2), NEW t \in Tables,
         Others(db, c, b, c, t), Indexed(b, c, t), RowsOf(b.disk, c[t]) = RowsOf(db.disk, c[t])
  PROVE  Shows(b, rows)
  <1>1. Len(c[t]) <= Len(RowsOf(b.disk, c[t]))
    BY DEF Counted
  <1>2. Shows(b, [rows EXCEPT ![t] = RowsOf(b.disk, c[t])])
    BY <1>1, ShowsChange
  <1>3. RowsOf(b.disk, c[t]) = rows[t]
    OBVIOUS
  <1>4. [rows EXCEPT ![t] = rows[t]] = rows
    OBVIOUS
  <1>5. QED
    BY <1>2, <1>3, <1>4

LEMMA ShowsCreateIndex ==
  ASSUME NEW db, NEW rows, Shows(db, rows), NEW t \in DOMAIN db.catalog,
         db.catalog[t].root = 0
  PROVE  /\ Shows(NewIndex(db, t, RowEntries(db, t)), rows)
         /\ DOMAIN NewIndex(db, t, RowEntries(db, t)).catalog = DOMAIN db.catalog
  <1> DEFINE entries == RowEntries(db, t)
             b == NewIndex(db, t, entries)
  <1>1. PICK c, own : /\ Good(db, c, own) /\ Counted(db, c)
                      /\ \A u \in Tables : Indexed(db, c, u)
                      /\ \A u \in Tables : rows[u] = RowsOf(db.disk, c[u])
    BY ShowsParts
  <1>2. t \in Tables /\ rows \in [Tables -> Seq(Rows)]
    BY <1>1, GoodReads DEF Shows
  <1>3. entries = EntriesOf(db.disk, c[t])
    BY <1>1, GoodRows
  <1> HIDE DEF entries
  <1>4. /\ \E own2 : Good(b, c, own2)
        /\ Others(db, c, b, c, t)
        /\ DOMAIN b.catalog = DOMAIN db.catalog
        /\ RowsOf(b.disk, c[t]) = RowsOf(db.disk, c[t])
        /\ entries = EntriesOf(db.disk, c[t]) => Indexed(b, c, t)
    BY <1>1, NewIndexGood
  <1> HIDE DEF b
  <1>5. PICK own2 : Good(b, c, own2)
    BY <1>4
  <1>6. Shows(b, rows)
    BY <1>1, <1>2, <1>3, <1>4, <1>5, ShowsIndexed
  <1>7. QED
    BY <1>4, <1>6 DEF b, entries

LEMMA ShowsDropIndex ==
  ASSUME NEW db, NEW rows, Shows(db, rows), NEW t \in DOMAIN db.catalog
  PROVE  /\ Shows(FreeIndex(db, t), rows)
         /\ DOMAIN FreeIndex(db, t).catalog = DOMAIN db.catalog
  <1> DEFINE b == FreeIndex(db, t)
  <1>1. PICK c, own : /\ Good(db, c, own) /\ Counted(db, c)
                      /\ \A u \in Tables : Indexed(db, c, u)
                      /\ \A u \in Tables : rows[u] = RowsOf(db.disk, c[u])
    BY ShowsParts
  <1>2. t \in Tables /\ rows \in [Tables -> Seq(Rows)]
    BY <1>1, GoodReads DEF Shows
  <1>3. /\ Good(b, c, own) /\ Others(db, c, b, c, t) /\ b.disk = db.disk
        /\ DOMAIN b.catalog = DOMAIN db.catalog
        /\ b.catalog[t].root = 0
    BY <1>1, FreeIndexGood
  <1> HIDE DEF b
  <1>4. Indexed(b, c, t) /\ RowsOf(b.disk, c[t]) = RowsOf(db.disk, c[t])
    BY <1>3 DEF Indexed
  <1>5. Shows(b, rows)
    BY <1>1, <1>2, <1>3, <1>4, ShowsIndexed
  <1>6. QED
    BY <1>3, <1>5 DEF b

\* Closed and opened again, a table's chain is known by its first page only.
LEMMA ShowsReopened ==
  ASSUME NEW db, NEW rows, Shows(db, rows), NEW b, Typed(b), b.pg = db.pg, b.disk = db.disk,
         b.catalog = catalog_read_page(Saved(db.catalog))
  PROVE  Shows(b, rows) /\ DOMAIN b.catalog = DOMAIN db.catalog
  <1>1. PICK c, own : /\ Good(db, c, own) /\ Counted(db, c)
                      /\ \A t \in Tables : Indexed(db, c, t)
                      /\ \A t \in Tables : rows[t] = RowsOf(db.disk, c[t])
    BY ShowsParts
  <1>2. /\ DOMAIN b.catalog = DOMAIN db.catalog
        /\ \A t \in DOMAIN db.catalog :
             /\ b.catalog[t].first = db.catalog[t].first
             /\ b.catalog[t].last = db.catalog[t].first
             /\ b.catalog[t].root = db.catalog[t].root
    <2> DEFINE f == Saved(db.catalog)
    <2>1. /\ DOMAIN f = DOMAIN db.catalog
          /\ \A t \in DOMAIN db.catalog : /\ f[t].first = db.catalog[t].first
                                         /\ f[t].root = db.catalog[t].root
      BY DEF Saved
    <2> HIDE DEF f
    <2>2. b.catalog = [t \in DOMAIN f |-> Entry(f[t].first, f[t].first, f[t].root)]
      BY DEF catalog_read_page, f
    <2>3. \A t \in DOMAIN f : b.catalog[t] = Entry(f[t].first, f[t].first, f[t].root)
      BY <2>2
    <2>4. \A t \in DOMAIN f : /\ b.catalog[t].first = f[t].first
                             /\ b.catalog[t].last = f[t].first
                             /\ b.catalog[t].root = f[t].root
      <3>1. \A x, y, z : Entry(x, y, z).first = x /\ Entry(x, y, z).last = y
                          /\ Entry(x, y, z).root = z
        BY DEF Entry
      <3>2. QED
        BY <2>3, <3>1
    <2>5. DOMAIN b.catalog = DOMAIN f
      BY <2>2
    <2>6. QED
      BY <2>1, <2>4, <2>5
  <1>3. \A t \in DOMAIN b.catalog : Entered(b.catalog[t], InUse(b.pg), c[t], t, own)
    <2>1. SUFFICES ASSUME NEW t \in DOMAIN b.catalog
                   PROVE  Entered(b.catalog[t], InUse(b.pg), c[t], t, own)
      OBVIOUS
    <2>2. Entered(db.catalog[t], InUse(db.pg), c[t], t, own) /\ t \in DOMAIN db.catalog
      BY <1>1, <1>2 DEF Good
    <2>3. t \in Tables /\ c[t] # <<>> => Len(c[t]) \in 1 .. Len(c[t])
      BY <1>1, <2>2, GoodReads
    <2>4. c[t] # <<>> => 1 \in 1 .. Len(c[t])
      BY <2>3
    <2>5. QED
      BY <1>2, <2>2, <2>4 DEF Entered
  <1>4. Good(b, c, own)
    <2>1. \A p \in InUse(b.pg) : \E t \in Tables : OwnedBy(b, c[t], t, p)
      BY <1>1, <1>2 DEF Good, OwnedBy
    <2>2. /\ Sound(b.pg) /\ c \in [Tables -> Seq(Pages)] /\ DOMAIN own = Pages
          /\ \A t \in Tables : Linked(b.disk, InUse(b.pg), c[t], t, own)
          /\ \A t \in Tables \ DOMAIN b.catalog : c[t] = <<>>
      BY <1>1, <1>2 DEF Good
    <2>3. QED
      BY <1>3, <2>1, <2>2 DEF Good
  <1>5. Counted(b, c) /\ \A t \in Tables : Indexed(b, c, t)
    BY <1>1, <1>2 DEF Counted, Indexed
  <1>6. \A t \in Tables : rows[t] = RowsOf(b.disk, c[t])
    BY <1>1
  <1>7. QED
    BY <1>2, <1>4, <1>5, <1>6 DEF Shows, InOrder

-----------------------------------------------------------------------------
(* A file that holds a page for every row and every index never runs out of  *)
(* pages: no page of a chain is empty.                                       *)

Places == {x \in Tables \X Nat : x[2] <= MaxRows[x[1]]}

Roomy == IsFiniteSet(Places) /\ Cardinality(Places) + 2 <= BitmapBits

\* The page that has a place.
PageAt(db, c, u, i, p) ==
    \/ i \in 1 .. Len(c[u]) /\ c[u][i] = p
    \/ i = 0 /\ u \in DOMAIN db.catalog /\ db.catalog[u].root = p

LEMMA PlaceOf ==
  ASSUME NEW db, NEW c, NEW own, Good(db, c, own), NEW p \in InUse(db.pg)
  PROVE  \E u \in Tables, i \in Nat : own[p] = <<u, i>> /\ PageAt(db, c, u, i, p)
  <1>1. PICK u \in Tables : OwnedBy(db, c[u], u, p)
    BY DEF Good
  <1>2. p # 0
    BY DEF InUse
  <1>3. CASE \E i \in 1 .. Len(c[u]) : c[u][i] = p
    <2>1. PICK i \in 1 .. Len(c[u]) : c[u][i] = p
      BY <1>3
    <2>2. Linked(db.disk, InUse(db.pg), c[u], u, own)
      BY DEF Good
    <2>3. own[c[u][i]] = <<u, i>>
      BY <2>2 DEF Linked
    <2>4. i \in Nat
      BY <2>1, GoodChain
    <2>5. QED
      BY <1>1, <2>1, <2>3, <2>4 DEF PageAt
  <1>4. CASE u \in DOMAIN db.catalog /\ db.catalog[u].root = p
    <2>1. Entered(db.catalog[u], InUse(db.pg), c[u], u, own)
      BY <1>4 DEF Good
    <2>2. own[p] = <<u, 0>>
      BY <1>2, <1>4, <2>1 DEF Entered
    <2>3. QED
      BY <1>1, <1>4, <2>2 DEF PageAt
  <1>5. QED
    BY <1>1, <1>3, <1>4 DEF OwnedBy

LEMMA RoomForRow ==
  ASSUME Roomy, MaxRows \in [Tables -> Nat], NEW db, NEW rows, Shows(db, rows),
         \A u \in Tables : Len(rows[u]) <= MaxRows[u],
         NEW t \in Tables, Len(rows[t]) < MaxRows[t]
  PROVE  ~(AllocatedPage(db.pg) < 0)
  <1> SUFFICES ASSUME AllocatedPage(db.pg) < 0 PROVE FALSE
    OBVIOUS
  <1> DEFINE S == 2 .. BitmapBits - 1
             full == <<t, MaxRows[t]>>
             R == Places \ {full}
  <1>1. PICK c, own : /\ Good(db, c, own) /\ Counted(db, c)
                      /\ \A u \in Tables : Indexed(db, c, u)
                      /\ \A u \in Tables : rows[u] = RowsOf(db.disk, c[u])
    BY ShowsParts
  <1>2. S \subseteq InUse(db.pg)
    <2>1. db.pg \in Pagers
      BY <1>1 DEF Good, Typed
    <2>2. FreePages(db.pg) = {}
      <3>1. AllocatedPage(db.pg) >= 0 \/ FreePages(db.pg) = {}
        <4>1. CASE FreePages(db.pg) # {}
          <5>1. AllocatedPage(db.pg) = LowestFree(db.pg)
            BY <4>1 DEF AllocatedPage
          <5>2. FreePages(db.pg) \in SUBSET Nat
            BY BitmapAssumption DEF FreePages
          <5>3. LowestFree(db.pg) \in FreePages(db.pg)
            <6>1. \E i \in FreePages(db.pg) : \A j \in FreePages(db.pg) : i <= j
              BY <4>1, <5>2, LeastElement
            <6>2. QED
              BY <6>1 DEF LowestFree
          <5>4. QED
            BY <5>1, <5>2, <5>3
        <4>2. QED
          BY <4>1
      <3>2. ~(AllocatedPage(db.pg) >= 0)
        <4>1. AllocatedPage(db.pg) \in Int
          BY <2>1, AllocatedFacts, BitmapAssumption
        <4>2. QED
          BY <4>1
      <3>3. QED
        BY <3>1, <3>2
    <2>3. \A p \in S : p \in 1 .. BitmapBits - 1 /\ p # 0 /\ p # 1
      BY BitmapAssumption
    <2>4. QED
      BY <2>2, <2>3 DEF FreePages, InUse
  <1>3. \A p \in S : \E u \in Tables, i \in Nat : own[p] = <<u, i>> /\ PageAt(db, c, u, i, p)
    BY <1>1, <1>2, PlaceOf
  <1>4. ASSUME NEW u \in Tables, NEW i \in Nat, NEW p, PageAt(db, c, u, i, p)
        PROVE  <<u, i>> \in R
    <2>1. /\ Len(c[u]) \in Nat /\ Len(rows[u]) \in Nat /\ Len(c[u]) <= Len(rows[u])
      BY <1>1, CountedRows
    <2>2. Len(rows[u]) <= MaxRows[u] /\ MaxRows[u] \in Nat
      OBVIOUS
    <2>3. i <= Len(rows[u])
      BY <1>4, <2>1 DEF PageAt
    <2>4. i <= MaxRows[u] /\ (u = t => i # MaxRows[t])
      BY <2>1, <2>2, <2>3
    <2>5. <<u, i>> \in Places
      BY <2>4 DEF Places
    <2>6. <<u, i>> # full
      BY <2>4
    <2>7. QED
      BY <2>5, <2>6
  <1> DEFINE f == [p \in S |-> own[p]]
  <1>5. f \in [S -> R]
    <2> HIDE DEF S, R
    <2>1. \A p \in S : own[p] \in R
      BY <1>3, <1>4
    <2>2. QED
      BY <2>1
  <1>6. ASSUME NEW p \in S, NEW q \in S, f[p] = f[q] PROVE p = q
    <2>1. PICK u \in Tables : \E i \in Nat : own[p] = <<u, i>> /\ PageAt(db, c, u, i, p)
      BY <1>3
    <2>2. PICK i \in Nat : own[p] = <<u, i>> /\ PageAt(db, c, u, i, p)
      BY <2>1
    <2>3. PICK v \in Tables : \E j \in Nat : own[q] = <<v, j>> /\ PageAt(db, c, v, j, q)
      BY <1>3
    <2>4. PICK j \in Nat : own[q] = <<v, j>> /\ PageAt(db, c, v, j, q)
      BY <2>3
    <2>5. <<u, i>> = <<v, j>>
      BY <1>6, <2>2, <2>4
    <2>6. u = v /\ i = j
      BY <2>5
    <2>7. QED
      BY <2>2, <2>4, <2>6 DEF PageAt
  <1>7. full \in Places
    <2>1. MaxRows[t] \in Nat /\ MaxRows[t] <= MaxRows[t]
      OBVIOUS
    <2>2. QED
      BY <2>1 DEF Places
  <1>8. IsFiniteSet(R) /\ Cardinality(R) = Cardinality(Places) - 1
    <2>1. IsFiniteSet(Places)
      BY DEF Roomy
    <2>2. full \in Places
      BY <1>7
    <2> HIDE DEF full
    <2>3. QED
      BY <2>1, <2>2, FS_RemoveElement
  <1>9. IsFiniteSet(S) /\ Cardinality(S) = BitmapBits - 2
    <2>1. BitmapBits \in Nat /\ BitmapBits >= 2
      BY BitmapAssumption
    <2> DEFINE n == BitmapBits - 1
    <2>2. n \in Int /\ 2 \in Int
      BY <2>1
    <2>3. S = 2 .. n
      OBVIOUS
    <2> HIDE DEF n, S
    <2>4. IsFiniteSet(S) /\ Cardinality(S) = IF 2 > n THEN 0 ELSE n - 2 + 1
      BY <2>2, <2>3, FS_Interval
    <2>5. QED
      BY <2>1, <2>4 DEF n
  <1> HIDE DEF S, R, f
  <1>10. Cardinality(R) < Cardinality(S)
    <2>1. Cardinality(Places) \in Nat /\ Cardinality(Places) + 2 <= BitmapBits
      BY FS_CardinalityType DEF Roomy
    <2>2. QED
      BY <1>8, <1>9, <2>1, BitmapAssumption
  <1>11. QED
    BY <1>5, <1>6, <1>8, <1>9, <1>10, FS_PigeonHole

-----------------------------------------------------------------------------
(* Sequences of rows without a repeated value.                               *)

LEMMA NoDupNone == NoDup(<<>>)
  <1>1. Len(<<>>) = 0
    OBVIOUS
  <1>2. QED
    BY <1>1 DEF NoDup

LEMMA NoDupAppend ==
  ASSUME NEW s \in Seq(Rows), NEW row \in Rows, NoDup(s), row = Null \/ row \notin ToSet(s)
  PROVE  NoDup(Append(s, row))
  <1> DEFINE n == Len(s)
             r == Append(s, row)
  <1>1. /\ n \in Nat /\ Len(r) = n + 1 /\ r[n + 1] = row
        /\ \A i \in 1 .. n : r[i] = s[i]
    BY AppendProperties
  <1>2. \A i \in 1 .. n : s[i] = row => row = Null
    BY DEF ToSet
  <1>3. \A i, j \in 1 .. n : s[i] = s[j] /\ s[i] # Null => i = j
    BY DEF NoDup
  <1> HIDE DEF n, r
  <1>4. ASSUME NEW i \in 1 .. n + 1, NEW j \in 1 .. n + 1, r[i] = r[j], r[i] # Null
        PROVE  i = j
    <2>1. (i = n + 1 \/ i \in 1 .. n) /\ (j = n + 1 \/ j \in 1 .. n)
      BY <1>1
    <2>2. QED
      BY <1>1, <1>2, <1>3, <1>4, <2>1
  <1>5. QED
    BY <1>1, <1>4 DEF NoDup, r

LEMMA NoDupParts ==
  ASSUME NEW a \in Seq(Rows), NEW b \in Seq(Rows), NoDup(a \o b)
  PROVE  NoDup(a) /\ (b # <<>> => NoDup(a \o Tail(b)))
  <1> DEFINE m == Len(a)
             n == Len(b)
             r == a \o b
  <1>1. /\ m \in Nat /\ n \in Nat /\ Len(r) = m + n
        /\ \A i \in 1 .. m + n : r[i] = IF i <= m THEN a[i] ELSE b[i - m]
    BY ConcatProperties
  <1> HIDE DEF m, n, r
  <1>2. \A i, j \in 1 .. m + n : r[i] = r[j] /\ r[i] # Null => i = j
    BY <1>1 DEF NoDup, r
  <1>3. NoDup(a)
    <2>1. SUFFICES ASSUME NEW i \in 1 .. m, NEW j \in 1 .. m, a[i] = a[j], a[i] # Null
                   PROVE  i = j
      BY DEF NoDup, m
    <2>2. /\ i \in 1 .. m + n /\ j \in 1 .. m + n /\ i <= m /\ j <= m
      BY <1>1
    <2>3. r[i] = a[i] /\ r[j] = a[j]
      BY <1>1, <2>2
    <2>4. QED
      BY <1>2, <2>1, <2>2, <2>3
  <1>4. ASSUME b # <<>> PROVE NoDup(a \o Tail(b))
    <2> DEFINE c == Tail(b)
               k == Len(c)
               q == a \o c
    <2>1. c \in Seq(Rows) /\ k \in Nat /\ k + 1 = n /\ \A i \in 1 .. k : c[i] = b[i + 1]
      BY <1>4, HeadTailProperties DEF n
    <2> HIDE DEF c
    <2>2. Len(q) = m + k /\ \A i \in 1 .. m + k : q[i] = IF i <= m THEN a[i] ELSE c[i - m]
      BY <2>1, ConcatProperties DEF m
    <2> HIDE DEF k, q
    <2> DEFINE f(i) == IF i <= m THEN i ELSE i + 1
    <2>3. ASSUME NEW i \in 1 .. m + k
          PROVE  f(i) \in 1 .. m + n /\ q[i] = r[f(i)]
      <3>1. CASE i <= m
        <4>1. f(i) = i /\ i \in 1 .. m + n
          BY <1>1, <2>1, <3>1
        <4>2. QED
          BY <1>1, <2>2, <3>1, <4>1
      <3>2. CASE ~(i <= m)
        <4>1. /\ f(i) = i + 1 /\ i + 1 \in 1 .. m + n /\ ~(i + 1 <= m)
              /\ i - m \in 1 .. k /\ (i - m) + 1 = (i + 1) - m
          BY <1>1, <2>1, <3>2
        <4>2. q[i] = c[i - m]
          BY <2>2, <3>2
        <4>3. c[i - m] = b[(i - m) + 1]
          BY <2>1, <4>1
        <4>4. r[i + 1] = b[(i + 1) - m]
          BY <1>1, <4>1
        <4>5. QED
          BY <4>1, <4>2, <4>3, <4>4
      <3>3. QED
        BY <3>1, <3>2
    <2>4. \A i, j \in 1 .. m + k : f(i) = f(j) => i = j
      BY <1>1, <2>1
    <2> HIDE DEF f
    <2>5. \A i, j \in 1 .. m + k : q[i] = q[j] /\ q[i] # Null => i = j
      BY <1>2, <2>3, <2>4
    <2>6. QED
      BY <2>2, <2>5 DEF NoDup, q, c
  <1>5. QED
    BY <1>3, <1>4

LEMMA MovedRow ==
  ASSUME NEW a \in Seq(Rows), NEW b \in Seq(Rows), b # <<>>
  PROVE  Append(a, Head(b)) \o Tail(b) = a \o b
  <1> DEFINE x == Head(b)
             c == Tail(b)
             m == Len(a)
             k == Len(c)
             p == Append(a, x)
             q == p \o c
             r == a \o b
  <1>1. /\ x \in Rows /\ c \in Seq(Rows) /\ k \in Nat /\ Len(b) = k + 1 /\ m \in Nat
        /\ x = b[1] /\ \A i \in 1 .. k : c[i] = b[i + 1]
    <2>1. Len(b) \in Nat /\ m \in Nat /\ x = b[1]
      OBVIOUS
    <2>2. /\ x \in Rows /\ c \in Seq(Rows) /\ k = Len(b) - 1
          /\ \A i \in 1 .. k : c[i] = b[i + 1]
      BY HeadTailProperties
    <2>3. k \in Nat
      <3> HIDE DEF c
      <3>1. QED
        BY <2>2
    <2> HIDE DEF x, c, k, m
    <2>4. QED
      BY <2>1, <2>2, <2>3
  <1> HIDE DEF x, c
  <1>2. /\ p \in Seq(Rows) /\ Len(p) = m + 1 /\ p[m + 1] = x
        /\ \A i \in 1 .. m : p[i] = a[i]
    BY <1>1, AppendProperties
  <1>3. /\ r \in Seq(Rows) /\ Len(r) = m + (k + 1)
        /\ \A i \in 1 .. m + (k + 1) : r[i] = IF i <= m THEN a[i] ELSE b[i - m]
    <2> DEFINE n == Len(b)
    <2>1. /\ r \in Seq(Rows) /\ Len(r) = m + n
          /\ \A i \in 1 .. m + n : r[i] = IF i <= m THEN a[i] ELSE b[i - m]
      BY ConcatProperties
    <2>2. n = k + 1
      BY <1>1
    <2> HIDE DEF n
    <2>3. QED
      BY <2>1, <2>2
  <1> HIDE DEF p
  <1>4. /\ q \in Seq(Rows) /\ Len(q) = (m + 1) + k
        /\ \A i \in 1 .. (m + 1) + k : q[i] = IF i <= m + 1 THEN p[i] ELSE c[i - (m + 1)]
    <2> DEFINE n == Len(p)
    <2>1. /\ q \in Seq(Rows) /\ Len(q) = n + k
          /\ \A i \in 1 .. n + k : q[i] = IF i <= n THEN p[i] ELSE c[i - n]
      BY <1>1, <1>2, ConcatProperties
    <2>2. n = m + 1
      BY <1>2
    <2> HIDE DEF n
    <2>3. QED
      BY <2>1, <2>2
  <1> HIDE DEF q, r, m, k
  <1>5. Len(q) = Len(r) /\ (m + 1) + k = m + (k + 1)
    BY <1>1, <1>3, <1>4
  <1>6. ASSUME NEW i \in 1 .. Len(q) PROVE q[i] = r[i]
    <2>1. i \in 1 .. (m + 1) + k /\ i \in 1 .. m + (k + 1)
      BY <1>4, <1>5
    <2>2. CASE i <= m
      <3>1. i \in 1 .. m /\ i <= m + 1
        BY <1>1, <2>1, <2>2
      <3>2. q[i] = p[i] /\ r[i] = a[i] /\ p[i] = a[i]
        BY <1>2, <1>3, <1>4, <2>1, <2>2, <3>1
      <3>3. QED
        BY <3>2
    <2>3. CASE i = m + 1
      <3>1. ~(i <= m) /\ i <= m + 1 /\ i - m = 1
        BY <1>1, <2>3
      <3>2. QED
        BY <1>1, <1>2, <1>3, <1>4, <2>1, <2>3, <3>1
    <2>4. CASE ~(i <= m + 1)
      <3>1. ~(i <= m) /\ i - (m + 1) \in 1 .. k /\ (i - (m + 1)) + 1 = i - m
        BY <1>1, <2>1, <2>4
      <3>2. q[i] = c[i - (m + 1)] /\ r[i] = b[i - m]
        BY <1>3, <1>4, <2>1, <2>4, <3>1
      <3>3. QED
        BY <1>1, <3>1, <3>2
    <2>5. QED
      BY <1>1, <2>1, <2>2, <2>3, <2>4
  <1>7. q = r
    BY <1>3, <1>4, <1>5, <1>6, SeqEqual
  <1>8. QED
    BY <1>7 DEF q, r, p, x, c

-----------------------------------------------------------------------------
(* The types of the variables, which every statement and every crash keeps. *)

StmtTyped ==
    \/ stmt = Idle
    \/ /\ isOpen
       /\ stmt.table \in DOMAIN catalog
       /\ stmt.todo \in Seq(Rows)
       /\ \/ stmt = [op |-> "insert", table |-> stmt.table, todo |-> stmt.todo]
          \/ /\ stmt = [op |-> "rewrite", table |-> stmt.table, todo |-> stmt.todo,
                        goal |-> stmt.goal, matched |-> stmt.matched]
             /\ stmt.goal \in Seq(Rows)

Shape ==
    /\ isOpen \in BOOLEAN
    /\ header \in Pagers
    /\ Typed(Db)
    /\ StmtTyped
    /\ logical \in [Tables -> Seq(Rows)]

LEMMA BecomesDb ==
  ASSUME NEW b, IsDb(b), Becomes(b)
  PROVE  /\ Db' = b
         /\ catalog' = b.catalog
         /\ torn' = {p \in torn : b.disk[p] = disk[p]}
  BY DEF Becomes, Db, IsDb

LEMMA DbParts ==
  /\ IsDb(Db) /\ Db.pg = pg /\ Db.disk = disk /\ Db.catalog = catalog /\ Db.page1 = page1
  BY DEF Db, IsDb

\* A step that changes the database, links at most one page, and forgets
\* the torn pages that it writes.
Moves ==
    /\ \E x \in Pages : LinksGrow(disk, disk', x)
    /\ torn' = {p \in torn : disk'[p] = disk[p]}

LEMMA BecomesTyped ==
  ASSUME NEW b, Typed(b), Becomes(b), NEW x \in Pages, LinksGrow(disk, b.disk, x)
  PROVE  Typed(Db') /\ Moves /\ catalog' = b.catalog
  <1>1. IsDb(b)
    BY DEF Typed
  <1>2. disk' = b.disk
    BY DEF Becomes
  <1>3. Moves
    BY <1>1, <1>2, BecomesDb DEF Moves
  <1>4. QED
    BY <1>1, <1>3, BecomesDb

LEMMA StaysTyped ==
  ASSUME Typed(Db), UNCHANGED <<pg, disk, catalog, page1, torn>>
  PROVE  Typed(Db') /\ Moves
  <1>1. Db' = Db
    BY DEF Db
  <1>2. LinksGrow(disk, disk', 0)
    BY DEF LinksGrow
  <1>3. torn' = {p \in torn : disk'[p] = disk[p]}
    OBVIOUS
  <1>4. QED
    BY <1>1, <1>2, <1>3, PagesFacts DEF Moves

LEMMA ShapeInit == Init => Shape
  <1> SUFFICES ASSUME Init PROVE Shape
    OBVIOUS
  <1> USE DEF Init
  <1>1. NewPager \in Pagers
    BY NewPagerFacts
  <1>2. DiskTyped(disk)
    <2>1. PageTyped(Blank)
      <3>1. <<>> \in Seq(Rows)
        OBVIOUS
      <3>2. QED
        BY <3>1, PagesFacts DEF PageTyped, Blank, RowPage
    <2>2. QED
      BY <2>1 DEF DiskTyped, PageTyped
  <1>3. CatalogTyped(catalog) /\ SavedTyped(page1)
    BY DEF CatalogTyped, SavedTyped, NoTables
  <1>4. Typed(Db)
    BY <1>1, <1>2, <1>3, DbParts DEF Typed
  <1>5. <<>> \in Seq(Rows)
    OBVIOUS
  <1>6. QED
    BY <1>1, <1>4, <1>5 DEF Shape, StmtTyped

LEMMA OpensTyped ==
  ASSUME NEW f, SavedTyped(f)
  PROVE  CatalogTyped(catalog_read_page(f)) /\ DOMAIN catalog_read_page(f) = DOMAIN f
  BY EntryTyped DEF SavedTyped, CatalogTyped, catalog_read_page

LEMMA OpenStep ==
  ASSUME Shape, catalog_open
  PROVE  Shape' /\ Moves
  <1>1. Typed(Db) /\ header \in Pagers
    BY DEF Shape
  <1>2. CatalogTyped(catalog_read_page(page1))
    BY <1>1, DbParts, OpensTyped DEF Typed
  <1>3. Typed(Db')
    <2>1. Is(Db', header, disk, catalog_read_page(page1), page1)
      BY DEF catalog_open, Db, Is, IsDb
    <2>2. QED
      BY <1>1, <1>2, <2>1, TypedIs, DbParts DEF Typed
  <1>4. stmt = Idle
    BY DEF Shape, StmtTyped, catalog_open
  <1>5. Moves
    <2>1. LinksGrow(disk, disk', 0)
      BY DEF LinksGrow, catalog_open
    <2>2. torn' = {p \in torn : disk'[p] = disk[p]}
      BY DEF catalog_open
    <2>3. QED
      BY <2>1, <2>2, PagesFacts DEF Moves
  <1>6. QED
    BY <1>1, <1>3, <1>4, <1>5 DEF Shape, StmtTyped, catalog_open

LEMMA CloseStep ==
  ASSUME Shape, catalog_close
  PROVE  Shape' /\ Moves
  <1>1. Typed(Db) /\ header \in Pagers /\ pg \in Pagers
    BY DbParts DEF Shape, Typed
  <1>2. page1' = Saved(catalog) /\ SavedTyped(Saved(catalog))
    <2>1. catalog_write_page(Db).page1 = Saved(catalog)
      BY <1>1, SaveKeeps, DbParts
    <2>2. QED
      BY <1>1, <2>1, SavedIsTyped, DbParts DEF catalog_close, Typed
  <1>3. CatalogTyped(NoTables)
    BY DEF CatalogTyped, NoTables
  <1>4. Typed(Db')
    <2>1. Is(Db', pg, disk, NoTables, page1')
      BY DEF catalog_close, Db, Is, IsDb
    <2>2. QED
      BY <1>1, <1>2, <1>3, <2>1, TypedIs, DbParts DEF Typed
  <1>5. Moves
    <2>1. LinksGrow(disk, disk', 0)
      BY DEF LinksGrow, catalog_close
    <2>2. torn' = {p \in torn : disk'[p] = disk[p]}
      BY DEF catalog_close
    <2>3. QED
      BY <2>1, <2>2, PagesFacts DEF Moves
  <1>6. QED
    BY <1>1, <1>4, <1>5 DEF Shape, StmtTyped, catalog_close, Ready

\* A statement of one step on an idle database.
LEMMA ReadyStep ==
  ASSUME Shape, Ready, NEW b, Typed(b), Becomes(b),
         \A p \in Pages : b.disk[p] = disk[p] \/ b.disk[p].next = 0,
         isOpen' = isOpen, header' = header, stmt' = stmt,
         logical' \in [Tables -> Seq(Rows)]
  PROVE  Shape' /\ Moves
  <1>1. LinksGrow(disk, b.disk, 0) /\ 0 \in Pages
    BY PagesFacts DEF LinksGrow
  <1>2. Typed(Db') /\ Moves
    BY <1>1, BecomesTyped
  <1>3. QED
    BY <1>2 DEF Shape, StmtTyped, Ready

LEMMA EmptyLogical ==
  ASSUME Shape, NEW t
  PROVE  [logical EXCEPT ![t] = <<>>] \in [Tables -> Seq(Rows)]
  <1>1. <<>> \in Seq(Rows)
    OBVIOUS
  <1>2. QED
    BY <1>1 DEF Shape

LEMMA CreateTableStep ==
  ASSUME Shape, NEW t \in Tables, catalog_create_table(t)
  PROVE  Shape' /\ Moves
  <1> DEFINE new == [u \in DOMAIN catalog \cup {t} |->
                       IF u = t THEN Entry(0, 0, 0) ELSE catalog[u]]
             w == [Db EXCEPT !.catalog = new]
             b == catalog_write_page(w)
  <1>1. Typed(Db)
    BY DEF Shape
  <1>2. CatalogTyped(new)
    <2>1. Entry(0, 0, 0) \in Entries
      BY PagesFacts, EntryTyped
    <2>2. QED
      BY <1>1, <2>1, DbParts DEF Typed, CatalogTyped
  <1>3. Becomes(b) /\ logical' = [logical EXCEPT ![t] = <<>>] /\ Ready
        /\ isOpen' = isOpen /\ header' = header /\ stmt' = stmt
    BY DEF catalog_create_table
  <1> HIDE DEF new
  <1>4. Typed(w) /\ w.disk = disk
    BY <1>1, <1>2, RetableKeeps, DbParts
  <1> HIDE DEF w
  <1>5. Typed(b) /\ b.disk = disk
    BY <1>4, SaveKeeps
  <1> HIDE DEF b
  <1>6. QED
    BY <1>3, <1>5, EmptyLogical, ReadyStep

LEMMA DropTableStep ==
  ASSUME Shape, NEW t \in Tables, execute_drop_table(t)
  PROVE  Shape' /\ Moves
  <1> DEFINE freed == free_row_pages(Db, t)
             bare  == FreeIndex(freed, t)
             rest  == [u \in DOMAIN catalog \ {t} |-> catalog[u]]
             w == [bare EXCEPT !.catalog = rest]
             b == catalog_write_page(w)
  <1>1. Typed(Db) /\ t \in DOMAIN catalog
    BY DEF Shape, execute_drop_table
  <1>2. CatalogTyped(rest)
    BY <1>1, DbParts DEF Typed, CatalogTyped
  <1>3. Becomes(b) /\ logical' = [logical EXCEPT ![t] = <<>>] /\ Ready
        /\ isOpen' = isOpen /\ header' = header /\ stmt' = stmt
    BY DEF execute_drop_table
  <1>4. Typed(freed) /\ t \in DOMAIN freed.catalog /\ freed.disk = disk
    BY <1>1, FreeRowsKeeps, DbParts
  <1> HIDE DEF freed
  <1>5. Typed(bare) /\ bare.disk = disk
    BY <1>4, FreeIndexKeeps
  <1> HIDE DEF bare, rest
  <1>6. Typed(w) /\ w.disk = disk
    BY <1>2, <1>5, RetableKeeps
  <1> HIDE DEF w
  <1>7. Typed(b) /\ b.disk = disk
    BY <1>6, SaveKeeps
  <1> HIDE DEF b
  <1>8. QED
    BY <1>3, <1>7, EmptyLogical, ReadyStep

LEMMA CreateIndexStep ==
  ASSUME Shape, NEW t \in Tables, execute_create_index(t)
  PROVE  Shape' /\ Moves
  <1> DEFINE w == NewIndex(Db, t, RowEntries(Db, t))
             b == catalog_write_page(w)
  <1>1. Typed(Db) /\ t \in DOMAIN catalog /\ logical \in [Tables -> Seq(Rows)]
    BY DEF Shape, execute_create_index
  <1>2. Becomes(b) /\ logical' = logical /\ Ready
        /\ isOpen' = isOpen /\ header' = header /\ stmt' = stmt
    BY DEF execute_create_index
  <1>3. Typed(w) /\ \A p \in Pages : w.disk[p] = disk[p] \/ w.disk[p].next = 0
    BY <1>1, NewIndexKeeps, DbParts
  <1> HIDE DEF w
  <1>4. Typed(b) /\ b.disk = w.disk
    BY <1>3, SaveKeeps
  <1> HIDE DEF b
  <1>5. QED
    BY <1>1, <1>2, <1>3, <1>4, ReadyStep

LEMMA DropIndexStep ==
  ASSUME Shape, NEW t \in Tables, execute_drop_index(t)
  PROVE  Shape' /\ Moves
  <1> DEFINE w == FreeIndex(Db, t)
             b == catalog_write_page(w)
  <1>1. Typed(Db) /\ t \in DOMAIN catalog /\ logical \in [Tables -> Seq(Rows)]
    BY DEF Shape, execute_drop_index
  <1>2. Becomes(b) /\ logical' = logical /\ Ready
        /\ isOpen' = isOpen /\ header' = header /\ stmt' = stmt
    BY DEF execute_drop_index
  <1>3. Typed(w) /\ w.disk = disk
    BY <1>1, FreeIndexKeeps, DbParts
  <1> HIDE DEF w
  <1>4. Typed(b) /\ b.disk = w.disk
    BY <1>3, SaveKeeps
  <1> HIDE DEF b
  <1>5. QED
    BY <1>1, <1>2, <1>3, <1>4, ReadyStep

LEMMA InsertStep ==
  ASSUME Shape, NEW t \in Tables, NEW row \in Rows, Insert(t, row)
  PROVE  Shape' /\ Moves
  <1> DEFINE b == catalog_insert(Db, t, row)
  <1>1. Typed(Db) /\ t \in DOMAIN catalog
    BY DEF Shape, Insert
  <1>2. /\ Becomes(b) /\ Ready /\ logical' = [logical EXCEPT ![t] = Append(@, row)]
        /\ isOpen' = isOpen /\ header' = header /\ stmt' = stmt
    BY DEF Insert
  <1>3. Typed(b) /\ \E x \in Pages : LinksGrow(disk, b.disk, x)
    BY <1>1, InsertKeeps, DbParts
  <1> HIDE DEF b
  <1>4. Typed(Db') /\ Moves
    BY <1>2, <1>3, BecomesTyped
  <1>5. logical' \in [Tables -> Seq(Rows)]
    BY <1>2 DEF Shape
  <1>6. QED
    BY <1>2, <1>4, <1>5 DEF Shape, StmtTyped, Ready

LEMMA BeginRewriteStep ==
  ASSUME Shape, NEW t \in DOMAIN catalog, NEW rows \in Seq(Rows), NEW matched,
         BeginRewrite(t, rows, matched)
  PROVE  Shape' /\ Moves
  <1> DEFINE w == free_row_pages(Db, t)
             b == indexes_reset(w, t)
  <1>1. Typed(Db)
    BY DEF Shape
  <1>2. /\ Becomes(b) /\ Ready /\ isOpen' = isOpen /\ header' = header /\ logical' = logical
        /\ stmt' = [op |-> "rewrite", table |-> t, todo |-> rows, goal |-> rows,
                    matched |-> matched]
    BY DEF BeginRewrite
  <1>3. Typed(w) /\ DOMAIN w.catalog = DOMAIN catalog /\ w.disk = disk
    BY <1>1, FreeRowsKeeps, DbParts
  <1> HIDE DEF w
  <1>4. /\ Typed(b) /\ DOMAIN b.catalog = DOMAIN catalog
        /\ \A p \in Pages : b.disk[p] = disk[p] \/ b.disk[p].next = 0
    BY <1>3, ResetKeeps
  <1> HIDE DEF b
  <1>5. LinksGrow(disk, b.disk, 0)
    BY <1>4 DEF LinksGrow
  <1>6. Typed(Db') /\ Moves /\ catalog' = b.catalog
    BY <1>2, <1>4, <1>5, BecomesTyped, PagesFacts
  <1>7. StmtTyped'
    BY <1>2, <1>4, <1>6 DEF StmtTyped, Ready
  <1>8. QED
    BY <1>2, <1>6, <1>7 DEF Shape

LEMMA ReadRowsTyped ==
  ASSUME Shape, NEW t \in DOMAIN catalog
  PROVE  read_all_rows(Db, t) \in Seq(Rows)
  <1>1. Typed(Db) /\ t \in DOMAIN Db.catalog
    BY DbParts DEF Shape
  <1>2. QED
    BY <1>1, AllRowsTyped

LEMMA UpdateStep ==
  ASSUME Shape, NEW t \in Tables, NEW old \in Rows, NEW new \in Rows,
         execute_update(t, old, new)
  PROVE  Shape' /\ Moves
  <1> DEFINE rows == read_all_rows(Db, t)
             hits == {i \in DOMAIN rows : rows[i] = old}
             set  == [i \in DOMAIN rows |-> IF i \in hits THEN new ELSE rows[i]]
  <1>1. t \in DOMAIN catalog /\ BeginRewrite(t, set, hits)
    BY DEF execute_update
  <1>2. rows \in Seq(Rows)
    BY <1>1, ReadRowsTyped
  <1> HIDE DEF rows
  <1>3. set \in Seq(Rows)
    BY <1>2
  <1> HIDE DEF set, hits
  <1>4. QED
    BY <1>1, <1>3, BeginRewriteStep

LEMMA DeleteStep ==
  ASSUME Shape, NEW t \in Tables, NEW old \in Rows, execute_delete(t, old)
  PROVE  Shape' /\ Moves
  <1> DEFINE rows == read_all_rows(Db, t)
             left == Unmatched(rows, old)
  <1>1. t \in DOMAIN catalog /\ BeginRewrite(t, left, {})
    BY DEF execute_delete
  <1>2. rows \in Seq(Rows)
    BY <1>1, ReadRowsTyped
  <1> HIDE DEF rows
  <1>3. left \in Seq(Rows)
    BY <1>2, UnmatchedFacts DEF KeptOf
  <1> HIDE DEF left
  <1>4. QED
    BY <1>1, <1>3, BeginRewriteStep

\* The rest of a statement's rows, once its first is appended.
LEMMA TodoTail ==
  ASSUME Shape, stmt # Idle
  PROVE  /\ isOpen /\ stmt.table \in DOMAIN catalog /\ stmt.table \in Tables
         /\ stmt.todo # <<>> =>
              /\ Head(stmt.todo) \in Rows /\ Tail(stmt.todo) \in Seq(Rows)
              /\ LET s == [stmt EXCEPT !.todo = Tail(@)]
                 IN  /\ s.op = stmt.op /\ s.table = stmt.table /\ s.todo = Tail(stmt.todo)
                     /\ stmt.op = "insert" =>
                          s = [op |-> "insert", table |-> s.table, todo |-> s.todo]
                     /\ stmt.op # "insert" =>
                          /\ s = [op |-> "rewrite", table |-> s.table, todo |-> s.todo,
                                  goal |-> s.goal, matched |-> s.matched]
                          /\ s.goal = stmt.goal /\ stmt.goal \in Seq(Rows)
  <1> DEFINE t == stmt.table
             todo == stmt.todo
             goal == stmt.goal
             matched == stmt.matched
             rest == Tail(todo)
  <1>1. /\ isOpen /\ t \in DOMAIN catalog /\ todo \in Seq(Rows)
        /\ \/ stmt = [op |-> "insert", table |-> t, todo |-> todo]
           \/ /\ stmt = [op |-> "rewrite", table |-> t, todo |-> todo,
                         goal |-> goal, matched |-> matched]
              /\ goal \in Seq(Rows)
    BY DEF Shape, StmtTyped
  <1>2. t \in Tables
    <2>1. DOMAIN catalog \subseteq Tables
      BY DbParts DEF Shape, Typed, CatalogTyped
    <2>2. QED
      BY <1>1, <2>1
  <1>3. todo # <<>> => Head(todo) \in Rows /\ rest \in Seq(Rows)
    BY <1>1
  <1> HIDE DEF t, todo, goal, matched, rest
  <1> DEFINE s == [stmt EXCEPT !.todo = rest]
  <1>4. CASE stmt = [op |-> "insert", table |-> t, todo |-> todo]
    <2>1. s = [op |-> "insert", table |-> t, todo |-> rest]
      BY <1>4
    <2>2. /\ s.op = stmt.op /\ s.table = t /\ s.todo = rest /\ stmt.op = "insert"
      BY <1>4, <2>1
    <2>3. s = [op |-> "insert", table |-> s.table, todo |-> s.todo]
      BY <2>1, <2>2
    <2>4. s = [stmt EXCEPT !.todo = Tail(@)]
      BY DEF rest, todo
    <2> HIDE DEF s
    <2>5. QED
      BY <1>1, <1>2, <1>3, <2>2, <2>3, <2>4 DEF t, todo, rest
  <1>5. CASE /\ stmt = [op |-> "rewrite", table |-> t, todo |-> todo,
                        goal |-> goal, matched |-> matched]
             /\ goal \in Seq(Rows)
    <2>1. s = [op |-> "rewrite", table |-> t, todo |-> rest, goal |-> goal, matched |-> matched]
      BY <1>5
    <2>2. /\ s.op = stmt.op /\ s.table = t /\ s.todo = rest /\ stmt.op = "rewrite"
          /\ s.goal = goal /\ s.matched = matched
      BY <1>5, <2>1
    <2>3. s = [op |-> "rewrite", table |-> s.table, todo |-> s.todo, goal |-> s.goal,
               matched |-> s.matched]
      BY <2>1, <2>2
    <2>4. s = [stmt EXCEPT !.todo = Tail(@)]
      BY DEF rest, todo
    <2> HIDE DEF s
    <2>5. QED
      BY <1>1, <1>2, <1>3, <1>5, <2>2, <2>3, <2>4 DEF t, todo, rest, goal
  <1>6. QED
    BY <1>1, <1>4, <1>5

\* One row of the statement under way is appended.
LEMMA RowOfStatement ==
  ASSUME Shape, stmt # Idle, stmt.todo # <<>>,
         Becomes(catalog_insert(Db, stmt.table, Head(stmt.todo))),
         stmt' = [stmt EXCEPT !.todo = Tail(@)], isOpen' = isOpen, header' = header,
         logical' \in [Tables -> Seq(Rows)]
  PROVE  Shape' /\ Moves
  <1> DEFINE t == stmt.table
             row == Head(stmt.todo)
             b == catalog_insert(Db, t, row)
  <1>1. Typed(Db) /\ isOpen /\ t \in DOMAIN catalog /\ row \in Rows /\ header \in Pagers
    BY TodoTail DEF Shape
  <1>2. Becomes(b)
    OBVIOUS
  <1>3. /\ Typed(b) /\ DOMAIN b.catalog = DOMAIN catalog
        /\ \E x \in Pages : LinksGrow(disk, b.disk, x)
    BY <1>1, InsertKeeps, DbParts
  <1> HIDE DEF b
  <1>4. Typed(Db') /\ Moves /\ catalog' = b.catalog
    BY <1>2, <1>3, BecomesTyped
  <1>5. /\ stmt'.table = t /\ stmt'.todo \in Seq(Rows)
        /\ stmt.op = "insert" =>
             stmt' = [op |-> "insert", table |-> stmt'.table, todo |-> stmt'.todo]
        /\ stmt.op # "insert" =>
             /\ stmt' = [op |-> "rewrite", table |-> stmt'.table, todo |-> stmt'.todo,
                         goal |-> stmt'.goal, matched |-> stmt'.matched]
             /\ stmt'.goal \in Seq(Rows)
    BY TodoTail
  <1>6. StmtTyped'
    BY <1>1, <1>3, <1>4, <1>5 DEF StmtTyped
  <1>7. QED
    BY <1>1, <1>4, <1>6 DEF Shape

LEMMA OpNotIdle == (stmt.op = "rewrite" \/ stmt.op = "insert") => stmt # Idle
  BY DEF Idle

LEMMA RewriteRowStep ==
  ASSUME Shape, RewriteRow
  PROVE  Shape' /\ Moves
  <1>1. logical' \in [Tables -> Seq(Rows)]
    BY DEF Shape, RewriteRow
  <1>2. QED
    BY <1>1, OpNotIdle, RowOfStatement DEF RewriteRow

LEMMA AppendLogical ==
  ASSUME Shape, NEW t \in Tables, NEW row \in Rows
  PROVE  [logical EXCEPT ![t] = Append(@, row)] \in [Tables -> Seq(Rows)]
  BY DEF Shape

LEMMA InsertSelectRowStep ==
  ASSUME Shape, InsertSelectRow
  PROVE  Shape' /\ Moves
  <1>1. /\ stmt.op = "insert" /\ stmt.todo # <<>>
        /\ logical' = [logical EXCEPT ![stmt.table] = Append(@, Head(stmt.todo))]
    BY DEF InsertSelectRow
  <1>2. stmt.table \in Tables /\ Head(stmt.todo) \in Rows
    BY <1>1, OpNotIdle, TodoTail
  <1>3. logical' \in [Tables -> Seq(Rows)]
    BY <1>1, <1>2, AppendLogical
  <1>4. QED
    BY <1>1, <1>3, OpNotIdle, RowOfStatement DEF InsertSelectRow

\* The statement under way ends.
LEMMA StatementEnds ==
  ASSUME Shape, NEW b, Typed(b), Becomes(b), b.disk = disk, stmt' = Idle,
         isOpen' = isOpen, header' = header, logical' \in [Tables -> Seq(Rows)]
  PROVE  Shape' /\ Moves
  <1>1. LinksGrow(disk, b.disk, 0) /\ 0 \in Pages
    BY PagesFacts DEF LinksGrow
  <1>2. Typed(Db') /\ Moves
    BY <1>1, BecomesTyped
  <1>3. QED
    BY <1>2 DEF Shape, StmtTyped

LEMMA FinishRewriteStep ==
  ASSUME Shape, FinishRewrite
  PROVE  Shape' /\ Moves
  <1>1. stmt.op = "rewrite" /\ stmt # Idle
    BY OpNotIdle DEF FinishRewrite
  <1>2. stmt.table \in Tables /\ stmt.goal \in Seq(Rows)
    <2>1. stmt.goal \in Seq(Rows)
      BY <1>1 DEF Shape, StmtTyped
    <2>2. QED
      BY <1>1, <2>1, TodoTail
  <1> DEFINE b == catalog_write_page(Db)
  <1>3. Typed(b) /\ b.disk = disk
    BY SaveKeeps, DbParts DEF Shape
  <1>4. /\ Becomes(b) /\ stmt' = Idle /\ isOpen' = isOpen /\ header' = header
        /\ logical' = [logical EXCEPT ![stmt.table] = stmt.goal]
    BY DEF FinishRewrite
  <1> HIDE DEF b
  <1>5. logical' \in [Tables -> Seq(Rows)]
    BY <1>2, <1>4 DEF Shape
  <1>6. QED
    BY <1>3, <1>4, <1>5, StatementEnds

LEMMA FinishInsertSelectStep ==
  ASSUME Shape, FinishInsertSelect
  PROVE  Shape' /\ Moves
  <1> DEFINE b == catalog_write_page(Db)
  <1>1. Typed(Db) /\ logical \in [Tables -> Seq(Rows)]
    BY DEF Shape
  <1>2. Typed(b) /\ b.disk = disk
    BY <1>1, SaveKeeps, DbParts
  <1>3. /\ Becomes(b) \/ Becomes(Db)
        /\ stmt' = Idle /\ isOpen' = isOpen /\ header' = header /\ logical' = logical
    BY DEF FinishInsertSelect
  <1> HIDE DEF b
  <1>4. CASE Becomes(b)
    BY <1>1, <1>2, <1>3, <1>4, StatementEnds
  <1>5. CASE Becomes(Db)
    BY <1>1, <1>3, <1>5, StatementEnds, DbParts
  <1>6. QED
    BY <1>3, <1>4, <1>5

LEMMA InsertSelectStep ==
  ASSUME Shape, NEW t \in Tables, NEW u \in Tables, execute_insert_select(t, u)
  PROVE  Shape' /\ Moves
  <1> DEFINE rows == read_all_rows(Db, u)
  <1>1. /\ isOpen /\ t \in DOMAIN catalog /\ u \in DOMAIN catalog
        /\ stmt' = [op |-> "insert", table |-> t, todo |-> rows]
        /\ UNCHANGED <<isOpen, header, torn, logical, pg, disk, catalog, page1>>
    BY DEF execute_insert_select, Ready
  <1>2. rows \in Seq(Rows)
    BY <1>1, ReadRowsTyped
  <1> HIDE DEF rows
  <1>3. StmtTyped'
    BY <1>1, <1>2 DEF StmtTyped
  <1>4. Typed(Db') /\ Moves
    BY <1>1, StaysTyped DEF Shape
  <1>5. QED
    BY <1>1, <1>3, <1>4 DEF Shape

LEMMA TriggerFailsStep ==
  ASSUME Shape, AfterTriggerFails
  PROVE  Shape' /\ Moves
  <1>1. /\ stmt' = Idle
        /\ UNCHANGED <<isOpen, header, torn, logical, pg, disk, catalog, page1>>
    BY DEF AfterTriggerFails
  <1>2. Typed(Db') /\ Moves
    BY <1>1, StaysTyped DEF Shape
  <1>3. QED
    BY <1>1, <1>2 DEF Shape, StmtTyped

LEMMA CrashStep ==
  ASSUME Shape, Crash
  PROVE  Shape' /\ Moves
  <1>1. /\ isOpen' = FALSE /\ catalog' = NoTables /\ stmt' = Idle
        /\ UNCHANGED <<pg, header, disk, page1, torn, logical>>
    BY DEF Crash
  <1>2. Is(Db', pg, disk, NoTables, page1)
    BY <1>1 DEF Db, Is, IsDb
  <1>3. CatalogTyped(NoTables)
    BY DEF CatalogTyped, NoTables
  <1>4. Typed(Db')
    BY <1>2, <1>3, TypedIs, DbParts DEF Shape, Typed
  <1>5. LinksGrow(disk, disk', 0) /\ torn' = {p \in torn : disk'[p] = disk[p]}
    BY <1>1 DEF LinksGrow
  <1>6. QED
    BY <1>1, <1>4, <1>5, PagesFacts DEF Shape, StmtTyped, Moves

LEMMA StatementsStep ==
  ASSUME Shape, RowStatements \/ IndexStatements \/ AfterTriggerFails \/ Crash
  PROVE  Shape' /\ Moves
  BY OpenStep, CloseStep, CreateTableStep, DropTableStep, InsertStep, UpdateStep, DeleteStep,
     InsertSelectStep, RewriteRowStep, FinishRewriteStep, InsertSelectRowStep,
     FinishInsertSelectStep, CreateIndexStep, DropIndexStep, TriggerFailsStep, CrashStep
  DEF RowStatements, IndexStatements

-----------------------------------------------------------------------------
(* Links go up.  Every link that no crash has cut short leads to a page of   *)
(* higher rank: a page gets its rank when it is linked to, and has no        *)
(* successor then.                                                           *)

Ranked(rank, m, d, cut) ==
    /\ rank \in [Pages -> Nat] /\ m \in Nat
    /\ \A p \in Pages : rank[p] <= m
    /\ \A p \in Pages \ cut : d[p].next # 0 => rank[p] < rank[d[p].next]

LinksGoUp == \E rank, m : Ranked(rank, m, disk, torn)

LEMMA RankMoves ==
  ASSUME NEW d, NEW e, DiskTyped(d), DiskTyped(e), NEW x \in Pages, LinksGrow(d, e, x),
         NEW cut, NEW rank, NEW m, Ranked(rank, m, d, cut)
  PROVE  \E r, n : Ranked(r, n, e, {p \in cut : e[p] = d[p]})
  <1> DEFINE left == {p \in cut : e[p] = d[p]}
             r == [rank EXCEPT ![x] = m + 1]
  <1>1. /\ rank \in [Pages -> Nat] /\ m \in Nat /\ \A p \in Pages : rank[p] <= m
        /\ \A p \in Pages \ cut : d[p].next # 0 => rank[p] < rank[d[p].next]
    BY DEF Ranked
  <1>2. \A p \in Pages : d[p].next \in Pages /\ e[p].next \in Pages
    BY DEF DiskTyped
  <1>3. \A p \in Pages : \/ e[p] = d[p] \/ e[p].next = 0
                         \/ e[p].next = x /\ x # p /\ e[x].next = 0
    BY DEF LinksGrow
  <1>4. \A p \in Pages \ left : e[p] = d[p] => p \notin cut
    OBVIOUS
  <1> HIDE DEF left
  <1>5. CASE e[x].next = 0
    <2>1. /\ r \in [Pages -> Nat] /\ r[x] = m + 1
          /\ \A p \in Pages : p # x => r[p] = rank[p]
      BY <1>1
    <2> HIDE DEF r
    <2>2. \A p \in Pages : r[p] <= m + 1
      BY <1>1, <2>1
    <2>3. ASSUME NEW p \in Pages \ left, e[p].next # 0 PROVE r[p] < r[e[p].next]
      <3> DEFINE q == e[p].next
      <3>1. p # x /\ r[p] = rank[p] /\ rank[p] \in Nat /\ rank[p] <= m /\ q \in Pages
        BY <1>1, <1>2, <1>5, <2>1, <2>3
      <3>2. CASE q = x
        BY <1>1, <2>1, <3>1, <3>2
      <3>3. CASE q # x
        <4>1. e[p] = d[p] /\ p \notin cut
          BY <1>3, <1>4, <2>3, <3>3
        <4>2. rank[p] < rank[q]
          BY <1>1, <2>3, <4>1
        <4>3. QED
          BY <2>1, <3>1, <3>3, <4>2
      <3>4. QED
        BY <3>2, <3>3
    <2>4. m + 1 \in Nat
      BY <1>1
    <2>5. Ranked(r, m + 1, e, left)
      BY <2>1, <2>2, <2>3, <2>4 DEF Ranked
    <2>6. QED
      BY <2>5 DEF left
  <1>6. CASE e[x].next # 0
    <2>1. ASSUME NEW p \in Pages \ left, e[p].next # 0 PROVE rank[p] < rank[e[p].next]
      <3>1. e[p] = d[p] /\ p \notin cut
        BY <1>3, <1>4, <1>6, <2>1
      <3>2. QED
        BY <1>1, <2>1, <3>1
    <2>2. Ranked(rank, m, e, left)
      BY <1>1, <2>1 DEF Ranked
    <2>3. QED
      BY <2>2 DEF left
  <1>7. QED
    BY <1>5, <1>6

LEMMA LinksStep ==
  ASSUME Shape, Shape', LinksGoUp, Moves
  PROVE  LinksGoUp'
  <1>1. DiskTyped(disk) /\ DiskTyped(disk')
    <2>1. DiskTyped(disk)
      BY DbParts DEF Shape, Typed
    <2>2. DiskTyped(disk')
      BY <2>1 DEF Shape, Typed, Db
    <2>3. QED
      BY <2>1, <2>2
  <1>2. PICK x \in Pages : LinksGrow(disk, disk', x)
    BY DEF Moves
  <1>3. PICK rank, m : Ranked(rank, m, disk, torn)
    BY DEF LinksGoUp
  <1>4. torn' = {p \in torn : disk'[p] = disk[p]}
    BY DEF Moves
  <1>5. \E r, n : Ranked(r, n, disk', {p \in torn : disk'[p] = disk[p]})
    BY <1>1, <1>2, <1>3, RankMoves
  <1>6. QED
    BY <1>4, <1>5 DEF LinksGoUp

LEMMA CrashInAppendStep ==
  ASSUME Shape, LinksGoUp, NEW t \in Tables, NEW row \in Rows, CrashInAppend(t, row)
  PROVE  Shape' /\ LinksGoUp'
  <1> DEFINE r    == row_page_append(Db, t, row)
             tail == TailOf(Db, t)
             rows == Read(Db, tail).rows
             link == RowPage(r.loc[1], rows)
  <1>1. /\ t \in DOMAIN catalog /\ r.ok
        /\ \/ disk' = r.db.disk /\ torn' = {p \in torn : disk'[p] = disk[p]}
           \/ /\ catalog[t].last # 0
              /\ disk' = [disk EXCEPT ![tail] = link]
              /\ torn' = torn \cup {tail}
        /\ isOpen' = FALSE /\ catalog' = NoTables /\ stmt' = Idle
        /\ UNCHANGED <<pg, header, page1, logical>>
    BY DEF CrashInAppend, Appends
  <1>2. /\ Typed(Db) /\ header \in Pagers /\ logical \in [Tables -> Seq(Rows)]
    BY DEF Shape
  <1>3. /\ pg \in Pagers /\ DiskTyped(disk) /\ SavedTyped(page1)
    BY <1>2, DbParts DEF Typed
  <1>4. Typed(r.db) /\ \E x \in Pages : LinksGrow(disk, r.db.disk, x)
    BY <1>1, <1>2, AppendKeeps, DbParts
  <1>5. catalog[t].last # 0 => tail \in Pages /\ rows \in Seq(Rows)
    BY <1>1, <1>2, TailIsPage, ReadTyped, DbParts
  <1>6. catalog[t].last # 0 => r.loc[1] \in Pages
    <2>0. SUFFICES ASSUME catalog[t].last # 0 PROVE r.loc[1] \in Pages
      OBVIOUS
    <2>1. \/ AppendFails(Db, t, r) \/ AppendFirst(Db, t, row, r)
          \/ AppendFits(Db, t, row, r) \/ AppendNext(Db, t, row, r)
      BY <1>1, <1>2, AppendOutcome, DbParts
    <2> HIDE DEF r, tail
    <2>2. r.loc[1] = tail \/ (r.loc[1] = AllocatedPage(pg) /\ AllocatedPage(pg) >= 0)
      BY <1>1, <2>1, DbParts DEF AppendFails, AppendFirst, AppendFits, AppendNext, tail
    <2>3. QED
      BY <1>3, <1>5, <2>0, <2>2, AllocatedIsWritten
  <1>7. CatalogTyped(NoTables)
    BY DEF CatalogTyped, NoTables
  <1>8. ASSUME DiskTyped(disk') PROVE Shape'
    <2>1. Is(Db', pg, disk', NoTables, page1)
      BY <1>1 DEF Db, Is, IsDb
    <2>2. Typed(Db')
      BY <1>3, <1>7, <1>8, <2>1, TypedIs
    <2>3. QED
      BY <1>1, <1>2, <2>2 DEF Shape, StmtTyped
  <1> HIDE DEF r, tail, rows, link
  <1>9. CASE disk' = r.db.disk /\ torn' = {p \in torn : disk'[p] = disk[p]}
    <2>1. DiskTyped(disk')
      BY <1>4, <1>9 DEF Typed
    <2>2. Moves
      BY <1>4, <1>9 DEF Moves
    <2>3. QED
      BY <1>8, <2>1, <2>2, LinksStep
  <1>10. CASE /\ catalog[t].last # 0
              /\ disk' = [disk EXCEPT ![tail] = link]
              /\ torn' = torn \cup {tail}
    <2>1. PageTyped(link)
      BY <1>5, <1>6, <1>10 DEF PageTyped, RowPage, link
    <2>2. DiskTyped(disk') /\ \A p \in Pages : p # tail => disk'[p] = disk[p]
      <3> DEFINE d == [disk EXCEPT ![tail] = link]
      <3>1. tail \in Pages /\ disk' = d
        BY <1>5, <1>10
      <3>2. /\ DiskTyped(d) /\ d[tail] = link
            /\ \A p \in Pages : p # tail => d[p] = disk[p]
        <4>1. DiskTyped(disk) /\ tail \in Pages
          BY <1>3, <3>1
        <4>2. QED
          BY <2>1, <4>1, DiskWrite
      <3> HIDE DEF d
      <3>3. QED
        BY <3>1, <3>2
    <2>3. PICK rank, m : Ranked(rank, m, disk, torn)
      BY DEF LinksGoUp
    <2>4. Ranked(rank, m, disk', torn')
      BY <1>10, <2>2, <2>3 DEF Ranked
    <2>5. QED
      BY <1>8, <2>2, <2>4 DEF LinksGoUp
  <1>11. QED
    BY <1>1, <1>9, <1>10

\* A function that grows with every step of its argument grows.
LEMMA StepsIncrease ==
  ASSUME NEW n \in Nat, NEW f \in [1 .. n -> Nat],
         \A i \in 1 .. n : i < n => f[i] < f[i + 1]
  PROVE  \A i, j \in 1 .. n : i < j => f[i] < f[j]
  <1> SUFFICES ASSUME NEW i \in 1 .. n
               PROVE  \A j \in 1 .. n : i < j => f[i] < f[j]
    OBVIOUS
  <1> DEFINE T == {j \in 1 .. n : i < j /\ ~(f[i] < f[j])}
  <1>1. T \in SUBSET Nat
    OBVIOUS
  <1>2. ASSUME T # {} PROVE FALSE
    <2>1. PICK j \in T : \A k \in T : j <= k
      <3> HIDE DEF T
      <3>1. QED
        BY <1>1, <1>2, LeastElement
    <2>2. /\ j \in 1 .. n /\ i < j /\ ~(f[i] < f[j]) /\ j - 1 \in 1 .. n
          /\ j - 1 < n /\ j - 1 + 1 = j /\ ~(j <= j - 1)
      BY <2>1
    <2>3. f[j - 1] < f[j - 1 + 1]
      BY <2>2
    <2>4. CASE i = j - 1
      BY <2>2, <2>3, <2>4
    <2>5. CASE i # j - 1
      <3>1. j - 1 \notin T /\ i < j - 1
        BY <2>1, <2>2, <2>5
      <3>2. f[i] < f[j - 1]
        BY <2>2, <3>1
      <3>3. f[i] \in Nat /\ f[j - 1] \in Nat /\ f[j] \in Nat
        BY <2>2
      <3>4. QED
        BY <2>2, <2>3, <3>2, <3>3
    <2>6. QED
      BY <2>4, <2>5
  <1>3. QED
    BY <1>2

LEMMA WalkFollowsLinks ==
  ASSUME NEW db, Typed(db), NEW s, NEW p, Walked(db, s, p)
  PROVE  \A i \in 1 .. Len(s) : i < Len(s) =>
            db.disk[s[i]].next = s[i + 1] /\ s[i + 1] # 0
  <1> SUFFICES ASSUME NEW i \in 1 .. Len(s), i < Len(s)
               PROVE  db.disk[s[i]].next = s[i + 1] /\ s[i + 1] # 0
    OBVIOUS
  <1>1. s \in Seq(Pages) /\ Len(s) \in Nat
    BY DEF Walked
  <1>2. i \in 1 .. Len(s) - 1 /\ i + 1 \in 1 .. Len(s)
    BY <1>1
  <1>3. s[i + 1] = row_page_next(db, s[i]) /\ s[i + 1] # 0
    BY <1>2 DEF Walked
  <1>4. Read(db, s[i]).next = s[i + 1]
    BY <1>3 DEF row_page_next
  <1>5. InFile(db.pg, s[i])
    BY <1>3, <1>4 DEF Read, Blank, RowPage
  <1>6. QED
    BY <1>3, <1>4, <1>5 DEF Read

LEMMA GoingUpEnds ==
  ASSUME Shape, LinksGoUp
  PROVE  ChainsEnd
  <1> SUFFICES ASSUME isOpen, NEW t \in DOMAIN catalog
               PROVE  \/ IsInjective(Chain(Db, catalog[t].first))
                      \/ ToSet(Chain(Db, catalog[t].first)) \cap torn # {}
    BY DEF ChainsEnd
  <1> DEFINE s == Chain(Db, catalog[t].first)
             n == Len(s)
  <1>1. Typed(Db) /\ catalog[t].first \in Pages
    BY DbParts DEF Shape, Typed, CatalogTyped, Entries
  <1>2. Walked(Db, s, catalog[t].first)
    BY <1>1, ChainWalks
  <1> HIDE DEF s
  <1>3. s \in Seq(Pages) /\ n \in Nat /\ DOMAIN s = 1 .. n /\ \A i \in 1 .. n : s[i] \in Pages
    BY <1>2 DEF Walked
  <1>4. \A i \in 1 .. n : i < n => disk[s[i]].next = s[i + 1] /\ s[i + 1] # 0
    BY <1>1, <1>2, WalkFollowsLinks, DbParts
  <1>5. PICK rank, m : Ranked(rank, m, disk, torn)
    BY DEF LinksGoUp
  <1>6. CASE ToSet(s) \cap torn = {}
    <2>1. \A i \in 1 .. n : s[i] \notin torn
      BY <1>3, <1>6 DEF ToSet
    <2> DEFINE f == [i \in 1 .. n |-> rank[s[i]]]
    <2>2. f \in [1 .. n -> Nat]
      BY <1>3, <1>5 DEF Ranked
    <2>3. \A i \in 1 .. n : i < n => f[i] < f[i + 1]
      <3>1. SUFFICES ASSUME NEW i \in 1 .. n, i < n PROVE f[i] < f[i + 1]
        OBVIOUS
      <3>2. i + 1 \in 1 .. n
        BY <1>3, <3>1
      <3>3. rank[s[i]] < rank[s[i + 1]]
        BY <1>3, <1>4, <1>5, <2>1, <3>1 DEF Ranked
      <3>4. QED
        BY <3>2, <3>3
    <2>4. \A i \in 1 .. n : f[i] = rank[s[i]]
      OBVIOUS
    <2> HIDE DEF f, n
    <2>5. \A i, j \in 1 .. n : i < j => f[i] < f[j]
      BY <1>3, <2>2, <2>3, StepsIncrease
    <2>6. ASSUME NEW i \in 1 .. n, NEW j \in 1 .. n, s[i] = s[j] PROVE i = j
      <3>1. f[i] = f[j] /\ f[i] \in Nat
        BY <2>2, <2>4, <2>6
      <3>2. i < j \/ j < i \/ i = j
        BY <1>3
      <3>3. QED
        BY <2>5, <3>1, <3>2
    <2>7. IsInjective(s)
      BY <1>3, <2>6 DEF IsInjective
    <2>8. QED
      BY <2>7 DEF s
  <1>7. CASE ToSet(s) \cap torn # {}
    BY <1>7 DEF s
  <1>8. QED
    BY <1>6, <1>7

(* sql_engine.c follows row_page_next without a bound: a scan of a table    *)
(* whose pages no crash has torn ends, however many crashes gave pages in   *)
(* use back to the allocator.                                               *)
THEOREM ChainsEndAfterCrashes == CrashSpec => []ChainsEnd
  <1>1. Init => Shape /\ LinksGoUp
    <2> SUFFICES ASSUME Init PROVE Shape /\ LinksGoUp
      OBVIOUS
    <2>1. Ranked([p \in Pages |-> 0], 0, disk, torn)
      BY DEF Init, Ranked, Blank, RowPage
    <2>2. QED
      BY <2>1, ShapeInit DEF LinksGoUp
  <1>2. Shape /\ LinksGoUp /\ [CrashNext]_vars => (Shape /\ LinksGoUp)'
    <2> SUFFICES ASSUME Shape, LinksGoUp, [CrashNext]_vars PROVE Shape' /\ LinksGoUp'
      OBVIOUS
    <2>1. CASE RowStatements \/ Crash
      BY <2>1, StatementsStep, LinksStep
    <2>2. CASE \E t \in Tables, row \in Rows : CrashInAppend(t, row)
      BY <2>2, CrashInAppendStep
    <2>3. CASE UNCHANGED vars
      <3>1. Shape'
        BY <2>3 DEF vars, Shape, StmtTyped, Db
      <3>2. LinksGoUp'
        BY <2>3 DEF vars, LinksGoUp
      <3>3. QED
        BY <3>1, <3>2
    <2>4. QED
      BY <2>1, <2>2, <2>3 DEF CrashNext
  <1>3. Shape /\ LinksGoUp => ChainsEnd
    BY GoingUpEnds
  <1>4. QED
    BY <1>1, <1>2, <1>3, PTL DEF CrashSpec

-----------------------------------------------------------------------------
(* Statements that no crash cuts short.  The rows that a table shows, those  *)
(* that the statement under way has still to append, and those it stands for.*)

Rest(s, t)   == IF s.op = "rewrite" /\ s.table = t THEN s.todo ELSE <<>>
Aim(s, l, t) == IF s.op = "rewrite" /\ s.table = t THEN s.goal ELSE l[t]
Coming(s, t) == IF s.op = "insert" /\ s.table = t THEN s.todo ELSE <<>>

Uniques(rows, s) == \A t \in Unique : NoDup(rows[t] \o Rest(s, t))

StoredRows(rows, s, l) ==
    \A t \in Tables : /\ rows[t] \o Rest(s, t) = Aim(s, l, t)
                      /\ Len(Aim(s, l, t)) + Len(Coming(s, t)) <= MaxRows[t]

RowTables == [Tables -> Seq(Rows)]

LEMMA NothingMore ==
  ASSUME NEW s \in Seq(Rows)
  PROVE  s \o <<>> = s /\ <<>> \o s = s /\ <<>> \in Seq(Rows) /\ Len(<<>>) = 0
  BY ConcatEmptySeq

LEMMA IdleViews ==
  ASSUME NEW rows \in RowTables, NEW l \in RowTables
  PROVE  /\ Uniques(rows, Idle) <=> \A t \in Unique : NoDup(rows[t])
         /\ StoredRows(rows, Idle, l) <=>
              \A t \in Tables : rows[t] = l[t] /\ Len(l[t]) <= MaxRows[t]
  <1>1. \A t : Rest(Idle, t) = <<>> /\ Coming(Idle, t) = <<>>
    BY DEF Rest, Coming, Idle
  <1>2. \A t : Aim(Idle, l, t) = l[t]
    BY DEF Aim, Idle
  <1>3. \A t \in Tables : /\ rows[t] \o <<>> = rows[t] /\ Len(l[t]) \in Nat
                          /\ Len(l[t]) + Len(<<>>) = Len(l[t])
    BY NothingMore DEF RowTables
  <1>4. Unique \subseteq Tables
    BY RowsAssumption
  <1>5. \A t \in Unique : rows[t] \o Rest(Idle, t) = rows[t]
    BY <1>1, <1>3, <1>4
  <1>6. \A t \in Tables : /\ rows[t] \o Rest(Idle, t) = rows[t]
                          /\ Len(Aim(Idle, l, t)) + Len(Coming(Idle, t)) = Len(l[t])
    BY <1>1, <1>2, <1>3
  <1>7. Uniques(rows, Idle) <=> \A t \in Unique : NoDup(rows[t])
    BY <1>5 DEF Uniques
  <1>8. QED
    BY <1>2, <1>6, <1>7 DEF StoredRows

\* The rows of one table change between two statements.
LEMMA SetIdle ==
  ASSUME NEW rows \in RowTables, NEW l \in RowTables, Uniques(rows, Idle),
         NEW t \in Tables, NEW new \in Seq(Rows), t \in Unique => NoDup(new)
  PROVE  LET rows2 == [rows EXCEPT ![t] = new]
             l2    == [l EXCEPT ![t] = new]
         IN  /\ Uniques(rows2, Idle)
             /\ StoredRows(rows, Idle, l) /\ Len(new) <= MaxRows[t] => StoredRows(rows2, Idle, l2)
  <1> DEFINE rows2 == [rows EXCEPT ![t] = new]
             l2    == [l EXCEPT ![t] = new]
  <1>1. /\ rows2 \in RowTables /\ l2 \in RowTables /\ rows2[t] = new /\ l2[t] = new
        /\ \A u \in Tables \ {t} : rows2[u] = rows[u] /\ l2[u] = l[u]
    BY DEF RowTables
  <1> HIDE DEF rows2, l2
  <1>2. Unique \subseteq Tables
    BY RowsAssumption
  <1>3. Uniques(rows2, Idle)
    <2>1. \A u \in Unique : NoDup(rows[u])
      BY IdleViews
    <2>2. \A u \in Unique : NoDup(rows2[u])
      BY <1>1, <1>2, <2>1
    <2>3. QED
      BY <1>1, <2>2, IdleViews
  <1>4. ASSUME StoredRows(rows, Idle, l), Len(new) <= MaxRows[t]
        PROVE  StoredRows(rows2, Idle, l2)
    <2>1. \A u \in Tables : rows[u] = l[u] /\ Len(l[u]) <= MaxRows[u]
      BY <1>4, IdleViews
    <2>2. \A u \in Tables : rows2[u] = l2[u] /\ Len(l2[u]) <= MaxRows[u]
      <3>1. SUFFICES ASSUME NEW u \in Tables PROVE rows2[u] = l2[u] /\ Len(l2[u]) <= MaxRows[u]
        OBVIOUS
      <3>2. CASE u = t
        BY <1>1, <1>4, <3>2
      <3>3. CASE u # t
        BY <1>1, <2>1, <3>3
      <3>4. QED
        BY <3>2, <3>3
    <2>3. QED
      BY <1>1, <2>2, IdleViews
  <1>5. QED
    BY <1>3, <1>4 DEF rows2, l2

\* Table t is being rewritten.
RewriteUniques(rows, s, t) ==
    /\ \A u \in Unique \ {t} : NoDup(rows[u])
    /\ t \in Unique => NoDup(rows[t] \o s.todo)

RewriteStored(rows, s, l, t) ==
    /\ \A u \in Tables \ {t} : rows[u] = l[u] /\ Len(l[u]) <= MaxRows[u]
    /\ rows[t] \o s.todo = s.goal /\ Len(s.goal) <= MaxRows[t]

LEMMA RewriteViews ==
  ASSUME NEW rows \in RowTables, NEW l \in RowTables, NEW t \in Tables, NEW s,
         s.op = "rewrite", s.table = t, s.todo \in Seq(Rows), s.goal \in Seq(Rows)
  PROVE  /\ Uniques(rows, s) <=> RewriteUniques(rows, s, t)
         /\ StoredRows(rows, s, l) <=> RewriteStored(rows, s, l, t)
  <1> USE DEF RewriteUniques, RewriteStored
  <1>1. /\ Rest(s, t) = s.todo /\ Aim(s, l, t) = s.goal
        /\ \A u : Coming(s, u) = <<>>
        /\ \A u : u # t => Rest(s, u) = <<>> /\ Aim(s, l, u) = l[u]
    BY DEF Rest, Aim, Coming
  <1>2. \A u \in Tables : /\ rows[u] \o <<>> = rows[u] /\ Len(l[u]) \in Nat
                          /\ Len(l[u]) + Len(<<>>) = Len(l[u])
    BY NothingMore DEF RowTables
  <1>3. Len(s.goal) + Len(<<>>) = Len(s.goal)
    BY NothingMore
  <1>4. Unique \subseteq Tables
    BY RowsAssumption
  <1>5. \A u \in Tables \ {t} : /\ rows[u] \o Rest(s, u) = rows[u]
                                /\ Len(Aim(s, l, u)) + Len(Coming(s, u)) = Len(l[u])
    BY <1>1, <1>2
  <1>6. Uniques(rows, s) <=> /\ \A u \in Unique \ {t} : NoDup(rows[u])
                             /\ t \in Unique => NoDup(rows[t] \o s.todo)
    <2>1. \A u \in Unique \ {t} : rows[u] \o Rest(s, u) = rows[u]
      BY <1>4, <1>5
    <2>2. Uniques(rows, s) <=> /\ \A u \in Unique \ {t} : NoDup(rows[u] \o Rest(s, u))
                               /\ t \in Unique => NoDup(rows[t] \o Rest(s, t))
      BY DEF Uniques
    <2>3. QED
      BY <1>1, <2>1, <2>2
  <1>7. StoredRows(rows, s, l) <=>
              /\ \A u \in Tables \ {t} : rows[u] = l[u] /\ Len(l[u]) <= MaxRows[u]
              /\ rows[t] \o s.todo = s.goal /\ Len(s.goal) <= MaxRows[t]
    <2>1. StoredRows(rows, s, l) <=>
            /\ \A u \in Tables \ {t} : /\ rows[u] \o Rest(s, u) = Aim(s, l, u)
                                       /\ Len(Aim(s, l, u)) + Len(Coming(s, u)) <= MaxRows[u]
            /\ rows[t] \o Rest(s, t) = Aim(s, l, t)
            /\ Len(Aim(s, l, t)) + Len(Coming(s, t)) <= MaxRows[t]
      BY DEF StoredRows
    <2>2. \A u \in Tables \ {t} : Aim(s, l, u) = l[u]
      BY <1>1
    <2>3. Len(Aim(s, l, t)) + Len(Coming(s, t)) = Len(s.goal)
      BY <1>1, <1>3
    <2>4. \A u \in Tables \ {t} :
            (/\ rows[u] \o Rest(s, u) = Aim(s, l, u)
             /\ Len(Aim(s, l, u)) + Len(Coming(s, u)) <= MaxRows[u])
            <=> rows[u] = l[u] /\ Len(l[u]) <= MaxRows[u]
      BY <1>5, <2>2
    <2>5. /\ rows[t] \o Rest(s, t) = Aim(s, l, t) <=> rows[t] \o s.todo = s.goal
          /\ Len(Aim(s, l, t)) + Len(Coming(s, t)) <= MaxRows[t] <=> Len(s.goal) <= MaxRows[t]
      BY <1>1, <2>3
    <2>6. QED
      BY <2>1, <2>4, <2>5
  <1>8. QED
    BY <1>6, <1>7

\* The result of a SELECT is being inserted into table t.
LEMMA InsertViews ==
  ASSUME NEW rows \in RowTables, NEW l \in RowTables, NEW t \in Tables, NEW s,
         s.op = "insert", s.table = t, s.todo \in Seq(Rows)
  PROVE  /\ Uniques(rows, s) <=> \A u \in Unique : NoDup(rows[u])
         /\ StoredRows(rows, s, l) <=>
              /\ \A u \in Tables : rows[u] = l[u] /\ Len(l[u]) <= MaxRows[u]
              /\ Len(l[t]) + Len(s.todo) <= MaxRows[t]
  <1>1. /\ Coming(s, t) = s.todo
        /\ \A u : Rest(s, u) = <<>> /\ Aim(s, l, u) = l[u]
        /\ \A u : u # t => Coming(s, u) = <<>>
    BY DEF Rest, Aim, Coming
  <1>2. \A u \in Tables : /\ rows[u] \o <<>> = rows[u] /\ Len(l[u]) \in Nat
                          /\ Len(l[u]) + Len(<<>>) = Len(l[u])
    BY NothingMore DEF RowTables
  <1>3. Unique \subseteq Tables /\ MaxRows[t] \in Nat /\ Len(s.todo) \in Nat
    BY RowsAssumption
  <1>4. \A u \in Tables : rows[u] \o Rest(s, u) = rows[u]
    BY <1>1, <1>2
  <1>5. Uniques(rows, s) <=> \A u \in Unique : NoDup(rows[u])
    BY <1>3, <1>4 DEF Uniques
  <1>6. ASSUME StoredRows(rows, s, l)
        PROVE  /\ \A u \in Tables : rows[u] = l[u] /\ Len(l[u]) <= MaxRows[u]
               /\ Len(l[t]) + Len(s.todo) <= MaxRows[t]
    <2>1. \A u \in Tables : /\ rows[u] = l[u] /\ Len(l[u]) + Len(Coming(s, u)) <= MaxRows[u]
      BY <1>1, <1>4, <1>6 DEF StoredRows
    <2>2. Len(l[t]) + Len(s.todo) <= MaxRows[t] /\ Len(l[t]) \in Nat
      BY <1>1, <1>2, <2>1
    <2>3. Len(l[t]) <= MaxRows[t]
      <3> DEFINE a == Len(l[t])
                 b == Len(s.todo)
                 m == MaxRows[t]
      <3>1. a + b <= m /\ a \in Nat /\ b \in Nat /\ m \in Nat
        BY <1>3, <2>2
      <3> HIDE DEF a, b, m
      <3>2. a <= m
        BY <3>1
      <3>3. QED
        BY <3>2 DEF a, m
    <2>4. \A u \in Tables \ {t} : Len(l[u]) <= MaxRows[u]
      BY <1>1, <1>2, <2>1
    <2>5. QED
      BY <2>1, <2>2, <2>3, <2>4
  <1>7. ASSUME \A u \in Tables : rows[u] = l[u] /\ Len(l[u]) <= MaxRows[u],
               Len(l[t]) + Len(s.todo) <= MaxRows[t]
        PROVE  StoredRows(rows, s, l)
    <2>1. SUFFICES ASSUME NEW u \in Tables
                   PROVE  /\ rows[u] \o Rest(s, u) = Aim(s, l, u)
                          /\ Len(Aim(s, l, u)) + Len(Coming(s, u)) <= MaxRows[u]
      BY DEF StoredRows
    <2>2. rows[u] \o Rest(s, u) = Aim(s, l, u)
      BY <1>1, <1>4, <1>7
    <2>3. Len(l[u]) + Len(Coming(s, u)) <= MaxRows[u]
      <3>1. CASE u = t
        BY <1>1, <1>7, <3>1
      <3>2. CASE u # t
        BY <1>1, <1>2, <1>7, <3>2
      <3>3. QED
        BY <3>1, <3>2
    <2>4. QED
      BY <1>1, <2>2, <2>3
  <1>8. QED
    BY <1>5, <1>6, <1>7

LEMMA SetTable ==
  ASSUME NEW rows \in RowTables, NEW t \in Tables, NEW new \in Seq(Rows)
  PROVE  /\ [rows EXCEPT ![t] = new] \in RowTables
         /\ [rows EXCEPT ![t] = new][t] = new
         /\ \A u \in Tables \ {t} : [rows EXCEPT ![t] = new][u] = rows[u]
         /\ rows[t] \in Seq(Rows) /\ Len(rows[t]) \in Nat
  BY DEF RowTables

\* UPDATE or DELETE: the chain of t is emptied, its rows are to be appended.
LEMMA RewriteBegins ==
  ASSUME NEW rows \in RowTables, NEW l \in RowTables, Uniques(rows, Idle), NEW t \in Tables,
         NEW s, s.op = "rewrite", s.table = t, s.todo \in Seq(Rows), s.goal = s.todo,
         t \in Unique => NoDup(s.todo)
  PROVE  LET rows2 == [rows EXCEPT ![t] = <<>>]
         IN  /\ Uniques(rows2, s)
             /\ StoredRows(rows, Idle, l) /\ Len(s.todo) <= Len(rows[t]) => StoredRows(rows2, s, l)
  <1> DEFINE none == <<>>
             rows2 == [rows EXCEPT ![t] = none]
  <1>1. none \in Seq(Rows) /\ none \o s.todo = s.todo
    BY NothingMore
  <1> HIDE DEF none
  <1>2. /\ rows2 \in RowTables /\ rows2[t] = none /\ \A u \in Tables \ {t} : rows2[u] = rows[u]
        /\ Len(rows[t]) \in Nat
    BY <1>1, SetTable
  <1> HIDE DEF rows2
  <1>3. Unique \subseteq Tables /\ MaxRows[t] \in Nat
    BY RowsAssumption
  <1>4. Uniques(rows2, s)
    <2>1. \A u \in Unique : NoDup(rows[u])
      BY IdleViews
    <2>2. /\ \A u \in Unique \ {t} : NoDup(rows2[u])
          /\ t \in Unique => NoDup(rows2[t] \o s.todo)
      BY <1>1, <1>2, <1>3, <2>1
    <2>3. QED
      BY <1>2, <2>2, RewriteViews DEF RewriteUniques, RewriteStored
  <1>5. ASSUME StoredRows(rows, Idle, l), Len(s.todo) <= Len(rows[t])
        PROVE  StoredRows(rows2, s, l)
    <2>1. \A u \in Tables : rows[u] = l[u] /\ Len(l[u]) <= MaxRows[u]
      BY <1>5, IdleViews
    <2>2. Len(s.goal) <= MaxRows[t]
      <3> DEFINE a == Len(s.todo)
                 b == Len(rows[t])
                 m == MaxRows[t]
      <3>1. a <= b /\ b <= m /\ a \in Nat /\ b \in Nat /\ m \in Nat
        BY <1>2, <1>3, <1>5, <2>1
      <3> HIDE DEF a, b, m
      <3>2. a <= m
        BY <3>1
      <3>3. QED
        BY <3>2 DEF a, m
    <2>3. \A u \in Tables \ {t} : rows2[u] = l[u] /\ Len(l[u]) <= MaxRows[u]
      BY <1>2, <2>1
    <2>4. rows2[t] \o s.todo = s.goal
      BY <1>1, <1>2
    <2>5. s.goal \in Seq(Rows)
      OBVIOUS
    <2>6. QED
      BY <1>2, <2>2, <2>3, <2>4, <2>5, RewriteViews DEF RewriteUniques, RewriteStored
  <1>6. QED
    BY <1>4, <1>5 DEF rows2, none

\* The next row of an UPDATE or DELETE is appended, or lost.
LEMMA RewriteGoesOn ==
  ASSUME NEW rows \in RowTables, NEW l \in RowTables, NEW t \in Tables,
         NEW s, s.op = "rewrite", s.table = t, s.todo \in Seq(Rows), s.goal \in Seq(Rows),
         s.todo # <<>>, Uniques(rows, s),
         NEW z, z.op = "rewrite", z.table = t, z.todo = Tail(s.todo), z.goal = s.goal
  PROVE  LET rows2 == [rows EXCEPT ![t] = Append(rows[t], Head(s.todo))]
         IN  /\ Uniques(rows, z) /\ Uniques(rows2, z)
             /\ StoredRows(rows, s, l) =>
                  /\ \A u \in Tables : Len(rows[u]) <= MaxRows[u]
                  /\ Len(rows[t]) < MaxRows[t]
                  /\ StoredRows(rows2, z, l)
  <1> DEFINE new == Append(rows[t], Head(s.todo))
             rows2 == [rows EXCEPT ![t] = new]
             rest == Tail(s.todo)
  <1>1. /\ rows[t] \in Seq(Rows) /\ Head(s.todo) \in Rows /\ rest \in Seq(Rows)
        /\ new \in Seq(Rows)
    BY HeadTailProperties DEF RowTables
  <1>2. new \o rest = rows[t] \o s.todo
    BY <1>1, MovedRow
  <1> HIDE DEF new, rest
  <1>3. rows2 \in RowTables /\ rows2[t] = new /\ \A u \in Tables \ {t} : rows2[u] = rows[u]
    BY <1>1, SetTable
  <1> HIDE DEF rows2
  <1>0. SUFFICES /\ Uniques(rows, z) /\ Uniques(rows2, z)
                 /\ StoredRows(rows, s, l) =>
                      /\ \A u \in Tables : Len(rows[u]) <= MaxRows[u]
                      /\ Len(rows[t]) < MaxRows[t]
                      /\ StoredRows(rows2, z, l)
    BY DEF rows2, new
  <1>4. Unique \subseteq Tables /\ MaxRows[t] \in Nat
    BY RowsAssumption
  <1>5. z.todo = rest /\ z.goal \in Seq(Rows) /\ z.todo \in Seq(Rows)
    BY <1>1 DEF rest
  <1>6. Uniques(rows, z) /\ Uniques(rows2, z)
    <2>1. /\ \A u \in Unique \ {t} : NoDup(rows[u])
          /\ t \in Unique => NoDup(rows[t] \o s.todo)
      BY RewriteViews DEF RewriteUniques, RewriteStored
    <2>2. t \in Unique => NoDup(rows[t] \o rest)
      BY <1>1, <2>1, NoDupParts DEF rest
    <2>3. Uniques(rows, z)
      BY <1>5, <2>1, <2>2, RewriteViews DEF RewriteUniques, RewriteStored
    <2>4. /\ \A u \in Unique \ {t} : NoDup(rows2[u])
          /\ t \in Unique => NoDup(rows2[t] \o rest)
      BY <1>2, <1>3, <1>4, <2>1
    <2>5. Uniques(rows2, z)
      BY <1>3, <1>5, <2>4, RewriteViews DEF RewriteUniques, RewriteStored
    <2>6. QED
      BY <2>3, <2>5
  <1>7. ASSUME StoredRows(rows, s, l)
        PROVE  /\ \A u \in Tables : Len(rows[u]) <= MaxRows[u]
               /\ Len(rows[t]) < MaxRows[t]
               /\ StoredRows(rows2, z, l)
    <2>1. /\ \A u \in Tables \ {t} : rows[u] = l[u] /\ Len(l[u]) <= MaxRows[u]
          /\ rows[t] \o s.todo = s.goal /\ Len(s.goal) <= MaxRows[t]
      BY <1>7, RewriteViews DEF RewriteUniques, RewriteStored
    <2>2. Len(rows[t]) < MaxRows[t]
      <3> DEFINE a == Len(rows[t])
                 b == Len(s.todo)
                 g == Len(s.goal)
                 m == MaxRows[t]
      <3>1. g = a + b /\ g <= m /\ a \in Nat /\ b \in Nat /\ m \in Nat
        <4>1. Len(rows[t] \o s.todo) = a + b
          BY <1>1, ConcatProperties
        <4>2. a \in Nat /\ b \in Nat
          BY <1>1
        <4>3. g = a + b
          BY <2>1, <4>1
        <4> HIDE DEF a, b
        <4>4. QED
          BY <1>4, <2>1, <4>2, <4>3
      <3>2. b # 0
        BY EmptySeq
      <3> HIDE DEF a, b, g, m
      <3>3. a < m
        BY <3>1, <3>2
      <3>4. QED
        BY <3>3 DEF a, m
    <2>3. \A u \in Tables : Len(rows[u]) <= MaxRows[u]
      <3>1. SUFFICES ASSUME NEW u \in Tables PROVE Len(rows[u]) <= MaxRows[u]
        OBVIOUS
      <3>2. CASE u = t
        <4> DEFINE a == Len(rows[t])
                   m == MaxRows[t]
        <4>1. a \in Nat /\ m \in Nat /\ a < m
          BY <1>1, <1>4, <2>2
        <4> HIDE DEF a, m
        <4>2. a <= m
          BY <4>1
        <4>3. QED
          BY <3>2, <4>2 DEF a, m
      <3>3. CASE u # t
        BY <2>1, <3>3
      <3>4. QED
        BY <3>2, <3>3
    <2>4. /\ \A u \in Tables \ {t} : rows2[u] = l[u] /\ Len(l[u]) <= MaxRows[u]
          /\ rows2[t] \o z.todo = z.goal /\ Len(z.goal) <= MaxRows[t]
      BY <1>2, <1>3, <1>5, <2>1
    <2>5. StoredRows(rows2, z, l)
      BY <1>3, <1>5, <2>4, RewriteViews DEF RewriteUniques, RewriteStored
    <2>6. QED
      BY <2>2, <2>3, <2>5
  <1>8. QED
    BY <1>6, <1>7

\* UPDATE or DELETE ends, its rows stored or not.
LEMMA RewriteEnds ==
  ASSUME NEW rows \in RowTables, NEW l \in RowTables, NEW t \in Tables,
         NEW s, s.op = "rewrite", s.table = t, s.todo \in Seq(Rows), s.goal \in Seq(Rows),
         Uniques(rows, s)
  PROVE  /\ Uniques(rows, Idle)
         /\ s.todo = <<>> /\ StoredRows(rows, s, l) =>
              StoredRows(rows, Idle, [l EXCEPT ![t] = s.goal])
  <1> DEFINE l2 == [l EXCEPT ![t] = s.goal]
  <1>1. l2 \in RowTables /\ l2[t] = s.goal /\ \A u \in Tables \ {t} : l2[u] = l[u]
    BY SetTable
  <1> HIDE DEF l2
  <1>2. rows[t] \in Seq(Rows) /\ rows[t] \o <<>> = rows[t]
    BY SetTable, NothingMore DEF RowTables
  <1>3. Uniques(rows, Idle)
    <2>1. /\ \A u \in Unique \ {t} : NoDup(rows[u])
          /\ t \in Unique => NoDup(rows[t] \o s.todo)
      BY RewriteViews DEF RewriteUniques, RewriteStored
    <2>2. t \in Unique => NoDup(rows[t])
      BY <1>2, <2>1, NoDupParts
    <2>3. QED
      BY <2>1, <2>2, IdleViews
  <1>4. ASSUME s.todo = <<>>, StoredRows(rows, s, l) PROVE StoredRows(rows, Idle, l2)
    <2>0. RewriteStored(rows, s, l, t)
      BY <1>4, RewriteViews
    <2>1. /\ \A u \in Tables \ {t} : rows[u] = l[u] /\ Len(l[u]) <= MaxRows[u]
          /\ rows[t] \o s.todo = s.goal /\ Len(s.goal) <= MaxRows[t]
      BY <2>0 DEF RewriteStored
    <2>2. \A u \in Tables : rows[u] = l2[u] /\ Len(l2[u]) <= MaxRows[u]
      <3>1. SUFFICES ASSUME NEW u \in Tables PROVE rows[u] = l2[u] /\ Len(l2[u]) <= MaxRows[u]
        OBVIOUS
      <3>2. CASE u = t
        BY <1>1, <1>2, <1>4, <2>1, <3>2
      <3>3. CASE u # t
        BY <1>1, <2>1, <3>3
      <3>4. QED
        BY <3>2, <3>3
    <2>3. QED
      BY <1>1, <2>2, IdleViews
  <1>5. QED
    BY <1>3, <1>4 DEF l2

-----------------------------------------------------------------------------
(* The invariant of statements that no crash cuts short: the open database,  *)
(* or the one that catalog_open will find, is in order.                      *)

Cur == IF isOpen THEN Db
       ELSE [pg |-> header, disk |-> disk, catalog |-> catalog_read_page(page1), page1 |-> page1]

Now(rows) == Shape /\ Shows(Cur, rows) /\ Uniques(rows, stmt)

\* A step leads to rows that are in order again and, when no append can fail
\* for want of a page, are those that the statements stand for.
Follow(rows) ==
    \E rows2 : /\ Shows(Cur', rows2)
               /\ Uniques(rows2, stmt')
               /\ Roomy /\ StoredRows(rows, stmt, logical) => StoredRows(rows2, stmt', logical')

LEMMA OpenIsCur ==
  ASSUME NEW rows, Now(rows), isOpen
  PROVE  /\ Shows(Db, rows) /\ Typed(Db) /\ rows \in RowTables /\ logical \in RowTables
         /\ \A t \in DOMAIN catalog : t \in Tables /\ read_all_rows(Db, t) = rows[t]
  <1>1. Shows(Db, rows)
    BY DEF Now, Cur
  <1>2. \A t \in DOMAIN catalog : t \in Tables /\ read_all_rows(Db, t) = rows[t]
    BY <1>1, ShowsReads, DbParts
  <1>3. QED
    BY <1>1, <1>2 DEF Now, Shape, Shows, RowTables

LEMMA ShownIsStep ==
  ASSUME NEW rows, NEW rows2, NEW b, Becomes(b), isOpen', Shows(b, rows2),
         Uniques(rows2, stmt'),
         Roomy /\ StoredRows(rows, stmt, logical) => StoredRows(rows2, stmt', logical')
  PROVE  Follow(rows)
  <1>1. IsDb(b)
    BY ShowsReads DEF Typed
  <1>2. Cur' = b
    BY <1>1, BecomesDb DEF Cur
  <1>3. QED
    BY <1>2 DEF Follow

LEMMA SavedShows ==
  ASSUME NEW db, NEW rows, Shows(db, rows)
  PROVE  Shows(catalog_write_page(db), rows)
  <1>1. Typed(db)
    BY ShowsReads
  <1> DEFINE b == catalog_write_page(db)
  <1>2. Typed(b) /\ b.pg = db.pg /\ b.disk = db.disk /\ b.catalog = db.catalog
    BY <1>1, SaveKeeps
  <1> HIDE DEF b
  <1>3. Shows(b, rows)
    BY <1>2, ShowsSame
  <1>4. QED
    BY <1>3 DEF b

\* Table t is empty after the statement.
LEMMA EmptiedFollows ==
  ASSUME NEW rows, Now(rows), Ready, isOpen' = isOpen, stmt' = stmt, NEW t \in Tables,
         NEW b, Becomes(b), Shows(b, [rows EXCEPT ![t] = <<>>]),
         logical' = [logical EXCEPT ![t] = <<>>]
  PROVE  Follow(rows)
  <1> DEFINE none == <<>>
             rows2 == [rows EXCEPT ![t] = none]
             l2 == [logical EXCEPT ![t] = none]
  <1>1. rows \in RowTables /\ logical \in RowTables
    BY OpenIsCur DEF Ready
  <1>2. none \in Seq(Rows) /\ Len(none) = 0 /\ NoDup(none) /\ MaxRows[t] \in Nat
    BY NothingMore, NoDupNone, RowsAssumption
  <1>3. Len(none) <= MaxRows[t]
    BY <1>2
  <1>4. /\ stmt = Idle /\ stmt' = Idle /\ isOpen' /\ Uniques(rows, Idle) /\ logical' = l2
        /\ Shows(b, rows2)
    BY DEF Now, Ready
  <1> HIDE DEF none
  <1>5. /\ Uniques(rows2, Idle)
        /\ StoredRows(rows, Idle, logical) => StoredRows(rows2, Idle, l2)
    BY <1>1, <1>2, <1>3, <1>4, SetIdle
  <1> HIDE DEF rows2, l2
  <1>6. QED
    BY <1>4, <1>5, ShownIsStep

LEMMA CreateTableFollows ==
  ASSUME NEW rows, Now(rows), NEW t \in Tables, catalog_create_table(t)
  PROVE  Follow(rows)
  <1> DEFINE new == [u \in DOMAIN catalog \cup {t} |->
                       IF u = t THEN Entry(0, 0, 0) ELSE catalog[u]]
             w == [Db EXCEPT !.catalog = new]
             b == catalog_write_page(w)
  <1>1. /\ Becomes(b) /\ logical' = [logical EXCEPT ![t] = <<>>] /\ Ready
        /\ isOpen' = isOpen /\ stmt' = stmt /\ t \notin DOMAIN catalog
    BY DEF catalog_create_table
  <1>2. Shows(Db, rows) /\ Typed(Db)
    BY <1>1, OpenIsCur DEF Ready
  <1>3. CatalogTyped(new)
    <2>1. Entry(0, 0, 0) \in Entries
      BY PagesFacts, EntryTyped
    <2>2. QED
      BY <1>2, <2>1, DbParts DEF Typed, CatalogTyped
  <1>4. new = [u \in DOMAIN Db.catalog \cup {t} |->
                 IF u = t THEN Entry(0, 0, 0) ELSE Db.catalog[u]]
    BY DbParts
  <1> HIDE DEF new
  <1>5. Typed(w) /\ w.pg = Db.pg /\ w.disk = Db.disk /\ w.catalog = new
    BY <1>2, <1>3, RetableKeeps
  <1> HIDE DEF w
  <1>6. Shows(w, [rows EXCEPT ![t] = <<>>])
    <2>1. t \in Tables \ DOMAIN Db.catalog
      BY <1>1, DbParts
    <2>2. w.catalog = [u \in DOMAIN Db.catalog \cup {t} |->
                         IF u = t THEN Entry(0, 0, 0) ELSE Db.catalog[u]]
      BY <1>4, <1>5
    <2>3. QED
      BY <1>2, <1>5, <2>1, <2>2, ShowsCreate
  <1>7. Shows(b, [rows EXCEPT ![t] = <<>>])
    BY <1>6, SavedShows
  <1> HIDE DEF b
  <1>8. QED
    BY <1>1, <1>7, EmptiedFollows

LEMMA DropTableFollows ==
  ASSUME NEW rows, Now(rows), NEW t \in Tables, execute_drop_table(t)
  PROVE  Follow(rows)
  <1> DEFINE v    == FreeIndex(free_row_pages(Db, t), t)
             rest == [u \in DOMAIN catalog \ {t} |-> catalog[u]]
             w == [v EXCEPT !.catalog = rest]
             b == catalog_write_page(w)
  <1>1. /\ Becomes(b) /\ logical' = [logical EXCEPT ![t] = <<>>] /\ Ready
        /\ isOpen' = isOpen /\ stmt' = stmt /\ t \in DOMAIN Db.catalog
    BY DbParts DEF execute_drop_table
  <1>2. Shows(Db, rows) /\ Typed(Db)
    BY <1>1, OpenIsCur DEF Ready
  <1>3. CatalogTyped(rest)
    BY <1>2, DbParts DEF Typed, CatalogTyped
  <1>4. rest = [u \in DOMAIN Db.catalog \ {t} |-> Db.catalog[u]]
    BY DbParts
  <1>5. Typed(v)
    <2> DEFINE freed == free_row_pages(Db, t)
    <2>1. Typed(freed) /\ DOMAIN freed.catalog = DOMAIN Db.catalog
      BY <1>1, <1>2, FreeRowsKeeps
    <2> HIDE DEF freed
    <2>2. Typed(FreeIndex(freed, t))
      BY <1>1, <2>1, FreeIndexKeeps
    <2>3. QED
      BY <2>2 DEF freed
  <1> HIDE DEF v, rest
  <1>6. Typed(w) /\ w.pg = v.pg /\ w.disk = v.disk /\ w.catalog = rest
    BY <1>3, <1>5, RetableKeeps
  <1> HIDE DEF w
  <1>7. Shows(w, [rows EXCEPT ![t] = <<>>])
    <2>1. LET y == FreeIndex(free_row_pages(Db, t), t)
          IN  w.pg = y.pg /\ w.disk = y.disk
      BY <1>6 DEF v
    <2>2. w.catalog = [u \in DOMAIN Db.catalog \ {t} |-> Db.catalog[u]]
      BY <1>4, <1>6
    <2>3. QED
      BY <1>1, <1>2, <1>6, <2>1, <2>2, ShowsDrop
  <1>8. Shows(b, [rows EXCEPT ![t] = <<>>])
    BY <1>7, SavedShows
  <1> HIDE DEF b
  <1>9. QED
    BY <1>1, <1>8, EmptiedFollows

\* The rows of all tables stay.
LEMMA StayFollows ==
  ASSUME NEW rows, Now(rows), isOpen, isOpen' = isOpen, stmt' = stmt, logical' = logical,
         NEW b, Becomes(b), Shows(b, rows)
  PROVE  Follow(rows)
  <1>1. /\ Uniques(rows, stmt') /\ isOpen'
        /\ StoredRows(rows, stmt, logical) => StoredRows(rows, stmt', logical')
    BY DEF Now
  <1>2. QED
    BY <1>1, ShownIsStep

LEMMA CreateIndexFollows ==
  ASSUME NEW rows, Now(rows), NEW t \in Tables, execute_create_index(t)
  PROVE  Follow(rows)
  <1> DEFINE w == NewIndex(Db, t, RowEntries(Db, t))
             b == catalog_write_page(w)
  <1>1. /\ Becomes(b) /\ isOpen /\ isOpen' = isOpen /\ stmt' = stmt /\ logical' = logical
        /\ t \in DOMAIN Db.catalog /\ Db.catalog[t].root = 0
    BY DbParts DEF execute_create_index, Ready
  <1>2. Shows(Db, rows)
    BY <1>1, OpenIsCur
  <1>3. Shows(w, rows)
    BY <1>1, <1>2, ShowsCreateIndex
  <1> HIDE DEF w
  <1>4. Shows(b, rows)
    BY <1>3, SavedShows
  <1> HIDE DEF b
  <1>5. QED
    BY <1>1, <1>4, StayFollows

LEMMA DropIndexFollows ==
  ASSUME NEW rows, Now(rows), NEW t \in Tables, execute_drop_index(t)
  PROVE  Follow(rows)
  <1> DEFINE w == FreeIndex(Db, t)
             b == catalog_write_page(w)
  <1>1. /\ Becomes(b) /\ isOpen /\ isOpen' = isOpen /\ stmt' = stmt /\ logical' = logical
        /\ t \in DOMAIN Db.catalog
    BY DbParts DEF execute_drop_index, Ready
  <1>2. Shows(Db, rows)
    BY <1>1, OpenIsCur
  <1>3. Shows(w, rows)
    BY <1>1, <1>2, ShowsDropIndex
  <1> HIDE DEF w
  <1>4. Shows(b, rows)
    BY <1>3, SavedShows
  <1> HIDE DEF b
  <1>5. QED
    BY <1>1, <1>4, StayFollows

\* A row is appended to table t, or lost because the file is full.
LEMMA AppendFollows ==
  ASSUME NEW rows, Now(rows), isOpen, isOpen' = isOpen, NEW t \in DOMAIN catalog,
         NEW row \in Rows, Becomes(catalog_insert(Db, t, row)), NEW more,
         more = [rows EXCEPT ![t] = Append(rows[t], row)],
         Uniques(rows, stmt'), Uniques(more, stmt'),
         StoredRows(rows, stmt, logical) =>
            /\ \A u \in Tables : Len(rows[u]) <= MaxRows[u]
            /\ Len(rows[t]) < MaxRows[t]
            /\ StoredRows(more, stmt', logical')
  PROVE  Follow(rows)
  <1> DEFINE b == catalog_insert(Db, t, row)
  <1>1. Shows(Db, rows) /\ t \in Tables /\ t \in DOMAIN Db.catalog
    BY OpenIsCur, DbParts
  <1>2. \/ AllocatedPage(Db.pg) < 0 /\ Shows(b, rows)
        \/ Shows(b, more)
    BY <1>1, ShowsInsert
  <1>3. Becomes(b) /\ isOpen'
    OBVIOUS
  <1> HIDE DEF b
  <1>4. CASE AllocatedPage(Db.pg) < 0 /\ Shows(b, rows)
    <2>1. ~(Roomy /\ StoredRows(rows, stmt, logical))
      BY <1>1, <1>4, RowsAssumption, RoomForRow
    <2>2. QED
      BY <1>3, <1>4, <2>1, ShownIsStep
  <1>5. CASE Shows(b, more)
    BY <1>3, <1>5, ShownIsStep
  <1>6. QED
    BY <1>2, <1>4, <1>5

LEMMA NoConflict ==
  ASSUME NEW rows, Now(rows), isOpen, NEW t \in DOMAIN catalog, NEW row \in Rows,
         ~Conflicts(t, row), \A u \in Unique : NoDup(rows[u])
  PROVE  t \in Unique => NoDup(Append(rows[t], row))
  <1>1. t \in Tables /\ read_all_rows(Db, t) = rows[t] /\ rows[t] \in Seq(Rows)
    BY OpenIsCur DEF RowTables
  <1>2. t \in Unique => row = Null \/ row \notin ToSet(rows[t])
    BY <1>1 DEF Conflicts
  <1>3. QED
    BY <1>1, <1>2, NoDupAppend

LEMMA InsertFollows ==
  ASSUME NEW rows, Now(rows), NEW t \in Tables, NEW row \in Rows, Insert(t, row)
  PROVE  Follow(rows)
  <1> DEFINE new == Append(rows[t], row)
             more == [rows EXCEPT ![t] = new]
             l2 == [logical EXCEPT ![t] = new]
  <1>1. /\ Ready /\ isOpen /\ isOpen' = isOpen /\ stmt = Idle /\ stmt' = Idle
        /\ t \in DOMAIN catalog /\ Becomes(catalog_insert(Db, t, row)) /\ ~Conflicts(t, row)
        /\ logical' = [logical EXCEPT ![t] = Append(logical[t], row)]
        /\ Len(read_all_rows(Db, t)) < MaxRows[t]
    BY DEF Insert, Ready
  <1>2. /\ rows \in RowTables /\ logical \in RowTables
        /\ read_all_rows(Db, t) = rows[t] /\ Uniques(rows, Idle) /\ MaxRows[t] \in Nat
    BY <1>1, OpenIsCur, RowsAssumption DEF Now
  <1>3. rows[t] \in Seq(Rows) /\ Len(rows[t]) \in Nat /\ Len(rows[t]) < MaxRows[t]
    BY <1>1, <1>2 DEF RowTables
  <1>4. new \in Seq(Rows) /\ Len(new) = Len(rows[t]) + 1
    BY <1>3
  <1>5. \A u \in Unique : NoDup(rows[u])
    BY <1>2, IdleViews
  <1>6. t \in Unique => NoDup(new)
    BY <1>1, <1>5, NoConflict
  <1>7. Len(new) <= MaxRows[t]
    <2> DEFINE a == Len(rows[t])
               m == MaxRows[t]
    <2>1. a \in Nat /\ m \in Nat /\ a < m
      BY <1>2, <1>3
    <2> HIDE DEF a, m
    <2>2. a + 1 <= m
      BY <2>1
    <2>3. QED
      BY <1>4, <2>2 DEF a, m
  <1>8. StoredRows(rows, Idle, logical) =>
          /\ \A u \in Tables : rows[u] = logical[u] /\ Len(rows[u]) <= MaxRows[u]
          /\ logical' = l2
    BY <1>1, <1>2, IdleViews
  <1> HIDE DEF new
  <1>9. /\ Uniques(more, Idle)
        /\ StoredRows(rows, Idle, logical) => StoredRows(more, Idle, l2)
    BY <1>2, <1>4, <1>6, <1>7, SetIdle
  <1>10. more = [rows EXCEPT ![t] = Append(rows[t], row)]
    BY DEF new
  <1> HIDE DEF more, l2
  <1>11. Uniques(rows, stmt') /\ Uniques(more, stmt')
    BY <1>1, <1>2, <1>9
  <1>12. StoredRows(rows, stmt, logical) =>
            /\ \A u \in Tables : Len(rows[u]) <= MaxRows[u]
            /\ Len(rows[t]) < MaxRows[t]
            /\ StoredRows(more, stmt', logical')
    BY <1>1, <1>3, <1>8, <1>9
  <1>13. QED
    BY <1>1, <1>10, <1>11, <1>12, AppendFollows

LEMMA BeginRewriteFollows ==
  ASSUME NEW rows, Now(rows), NEW t \in DOMAIN catalog, NEW set \in Seq(Rows), NEW matched,
         BeginRewrite(t, set, matched), t \in Unique => NoDup(set), Len(set) <= Len(rows[t])
  PROVE  Follow(rows)
  <1> DEFINE b == indexes_reset(free_row_pages(Db, t), t)
             rows2 == [rows EXCEPT ![t] = <<>>]
             s == [op |-> "rewrite", table |-> t, todo |-> set, goal |-> set, matched |-> matched]
  <1>1. /\ Becomes(b) /\ isOpen /\ isOpen' /\ stmt = Idle /\ logical' = logical /\ stmt' = s
    BY DEF BeginRewrite, Ready
  <1>2. /\ Shows(Db, rows) /\ rows \in RowTables /\ logical \in RowTables /\ t \in Tables
        /\ t \in DOMAIN Db.catalog /\ Uniques(rows, Idle)
    BY <1>1, OpenIsCur, DbParts DEF Now
  <1>3. Shows(b, rows2)
    BY <1>2, ShowsRewrite
  <1>4. s.op = "rewrite" /\ s.table = t /\ s.todo = set /\ s.goal = set
    OBVIOUS
  <1> HIDE DEF b, s
  <1>5. /\ Uniques(rows2, s)
        /\ StoredRows(rows, Idle, logical) => StoredRows(rows2, s, logical)
    <2>1. /\ s.todo \in Seq(Rows) /\ s.goal = s.todo /\ t \in Unique => NoDup(s.todo)
      BY <1>4
    <2>2. Len(s.todo) <= Len(rows[t])
      BY <1>4
    <2>3. QED
      BY <1>2, <1>4, <2>1, <2>2, RewriteBegins
  <1> HIDE DEF rows2
  <1>6. QED
    BY <1>1, <1>3, <1>5, ShownIsStep

LEMMA UpdateFollows ==
  ASSUME NEW rows, Now(rows), NEW t \in Tables, NEW old \in Rows, NEW new \in Rows,
         execute_update(t, old, new)
  PROVE  Follow(rows)
  <1> DEFINE all  == read_all_rows(Db, t)
             hits == {i \in DOMAIN all : all[i] = old}
             set  == [i \in DOMAIN all |-> IF i \in hits THEN new ELSE all[i]]
  <1>1. t \in DOMAIN catalog /\ BeginRewrite(t, set, hits) /\ ~RowSetConflicts(t, set)
    BY DEF execute_update
  <1>2. isOpen
    BY <1>1 DEF BeginRewrite, Ready
  <1>3. all = rows[t] /\ all \in Seq(Rows)
    BY <1>1, <1>2, OpenIsCur DEF RowTables
  <1> HIDE DEF all
  <1>4. set \in Seq(Rows) /\ Len(set) = Len(all) /\ DOMAIN set = 1 .. Len(set)
        /\ Len(all) \in Nat
    BY <1>3
  <1> HIDE DEF set, hits
  <1>5. t \in Unique => NoDup(set)
    BY <1>1, <1>4 DEF RowSetConflicts, NoDup
  <1>6. Len(set) <= Len(rows[t])
    BY <1>3, <1>4
  <1>7. QED
    BY <1>1, <1>4, <1>5, <1>6, BeginRewriteFollows

LEMMA DeleteFollows ==
  ASSUME NEW rows, Now(rows), NEW t \in Tables, NEW old \in Rows, execute_delete(t, old)
  PROVE  Follow(rows)
  <1> DEFINE all  == read_all_rows(Db, t)
             left == Unmatched(all, old)
  <1>1. t \in DOMAIN catalog /\ BeginRewrite(t, left, {})
    BY DEF execute_delete
  <1>2. isOpen /\ stmt = Idle
    BY <1>1 DEF BeginRewrite, Ready
  <1>3. all = rows[t] /\ all \in Seq(Rows) /\ rows \in RowTables
    BY <1>1, <1>2, OpenIsCur DEF RowTables
  <1> HIDE DEF all
  <1>4. left \in Seq(Rows) /\ Len(left) <= Len(all) /\ (NoDup(all) => NoDup(left))
    BY <1>3, UnmatchedFacts DEF KeptOf
  <1>5. t \in Unique => NoDup(all)
    BY <1>2, <1>3, IdleViews DEF Now, Shape
  <1> HIDE DEF left
  <1>6. (t \in Unique => NoDup(left)) /\ Len(left) <= Len(rows[t])
    BY <1>3, <1>4, <1>5
  <1>7. QED
    BY <1>1, <1>4, <1>6, BeginRewriteFollows

\* What a statement that has rows to append knows of itself.
LEMMA RewritingIs ==
  ASSUME NEW rows, Now(rows), stmt.op = "rewrite"
  PROVE  /\ isOpen /\ stmt # Idle /\ stmt.table \in DOMAIN catalog /\ stmt.table \in Tables
         /\ stmt.todo \in Seq(Rows) /\ stmt.goal \in Seq(Rows)
         /\ rows \in RowTables /\ logical \in RowTables /\ Uniques(rows, stmt)
         /\ Shows(Db, rows)
  <1>1. stmt # Idle
    BY OpNotIdle
  <1>2. isOpen /\ stmt.table \in DOMAIN catalog /\ stmt.todo \in Seq(Rows)
    BY <1>1 DEF Now, Shape, StmtTyped
  <1>3. stmt.goal \in Seq(Rows)
    BY <1>1 DEF Now, Shape, StmtTyped
  <1>4. QED
    BY <1>1, <1>2, <1>3, OpenIsCur DEF Now

LEMMA RewriteRowFollows ==
  ASSUME NEW rows, Now(rows), RewriteRow
  PROVE  Follow(rows)
  <1> DEFINE t == stmt.table
             row == Head(stmt.todo)
             more == [rows EXCEPT ![t] = Append(rows[t], row)]
  <1>1. /\ stmt.op = "rewrite" /\ stmt.todo # <<>> /\ Becomes(catalog_insert(Db, t, row))
        /\ stmt' = [stmt EXCEPT !.todo = Tail(@)] /\ isOpen' = isOpen /\ logical' = logical
    BY DEF RewriteRow
  <1>2. /\ isOpen /\ t \in DOMAIN catalog /\ t \in Tables /\ stmt # Idle
        /\ stmt.todo \in Seq(Rows) /\ stmt.goal \in Seq(Rows)
        /\ rows \in RowTables /\ logical \in RowTables /\ Uniques(rows, stmt)
    BY <1>1, RewritingIs
  <1>3. /\ stmt'.op = "rewrite" /\ stmt'.table = t /\ stmt'.todo = Tail(stmt.todo)
        /\ stmt'.goal = stmt.goal /\ row \in Rows
    BY <1>1, <1>2, TodoTail DEF Now
  <1>4. /\ Uniques(rows, stmt') /\ Uniques(more, stmt')
        /\ StoredRows(rows, stmt, logical) =>
             /\ \A u \in Tables : Len(rows[u]) <= MaxRows[u]
             /\ Len(rows[t]) < MaxRows[t]
             /\ StoredRows(more, stmt', logical)
    BY <1>1, <1>2, <1>3, RewriteGoesOn
  <1>5. more = [rows EXCEPT ![t] = Append(rows[t], row)]
    OBVIOUS
  <1> HIDE DEF t, row, more
  <1>6. QED
    BY <1>1, <1>2, <1>3, <1>4, <1>5, AppendFollows

LEMMA FinishRewriteFollows ==
  ASSUME NEW rows, Now(rows), FinishRewrite
  PROVE  Follow(rows)
  <1> DEFINE b == catalog_write_page(Db)
  <1>1. /\ stmt.op = "rewrite" /\ stmt.todo = <<>> /\ Becomes(b) /\ stmt' = Idle
        /\ isOpen' = isOpen /\ logical' = [logical EXCEPT ![stmt.table] = stmt.goal]
    BY DEF FinishRewrite
  <1>2. /\ isOpen /\ stmt.table \in Tables /\ Shows(Db, rows)
        /\ stmt.todo \in Seq(Rows) /\ stmt.goal \in Seq(Rows)
        /\ rows \in RowTables /\ logical \in RowTables /\ Uniques(rows, stmt)
    BY <1>1, RewritingIs
  <1>3. Shows(b, rows)
    BY <1>2, SavedShows
  <1> HIDE DEF b
  <1>4. /\ Uniques(rows, Idle)
        /\ StoredRows(rows, stmt, logical) => StoredRows(rows, Idle, logical')
    BY <1>1, <1>2, RewriteEnds
  <1>5. QED
    BY <1>1, <1>2, <1>3, <1>4, ShownIsStep

\* The next row of INSERT ... SELECT is appended, or lost.
LEMMA InsertGoesOn ==
  ASSUME NEW rows \in RowTables, NEW l \in RowTables, NEW t \in Tables,
         NEW s, s.op = "insert", s.table = t, s.todo \in Seq(Rows), s.todo # <<>>,
         Uniques(rows, s),
         NEW z, z.op = "insert", z.table = t, z.todo = Tail(s.todo),
         t \in Unique => NoDup(Append(rows[t], Head(s.todo)))
  PROVE  LET row  == Head(s.todo)
             more == [rows EXCEPT ![t] = Append(rows[t], row)]
             l2   == [l EXCEPT ![t] = Append(l[t], row)]
         IN  /\ Uniques(rows, z) /\ Uniques(more, z)
             /\ StoredRows(rows, s, l) =>
                  /\ \A u \in Tables : Len(rows[u]) <= MaxRows[u]
                  /\ Len(rows[t]) < MaxRows[t]
                  /\ StoredRows(more, z, l2)
  <1> DEFINE row == Head(s.todo)
             new == Append(rows[t], row)
             newl == Append(l[t], row)
             more == [rows EXCEPT ![t] = new]
             l2 == [l EXCEPT ![t] = newl]
             rest == Tail(s.todo)
  <1>1. /\ rows[t] \in Seq(Rows) /\ l[t] \in Seq(Rows) /\ row \in Rows /\ rest \in Seq(Rows)
        /\ Len(rest) = Len(s.todo) - 1 /\ Len(s.todo) \in Nat /\ Len(rest) \in Nat
    <2>1. rows[t] \in Seq(Rows) /\ l[t] \in Seq(Rows) /\ Len(s.todo) \in Nat
      BY DEF RowTables
    <2>2. row \in Rows /\ rest \in Seq(Rows) /\ Len(rest) = Len(s.todo) - 1
      BY HeadTailProperties
    <2>3. Len(rest) \in Nat
      <3> HIDE DEF rest
      <3>1. QED
        BY <2>2
    <2>4. QED
      BY <2>1, <2>2, <2>3
  <1>2. /\ new \in Seq(Rows) /\ newl \in Seq(Rows) /\ Len(newl) = Len(l[t]) + 1
        /\ Len(l[t]) \in Nat
    BY <1>1
  <1>3. rows[t] = l[t] => new = newl
    OBVIOUS
  <1> HIDE DEF row, rest, new, newl
  <1>4. /\ more \in RowTables /\ more[t] = new /\ l2 \in RowTables /\ l2[t] = newl
        /\ \A u \in Tables \ {t} : more[u] = rows[u] /\ l2[u] = l[u]
    BY <1>2, SetTable
  <1> HIDE DEF more, l2
  <1>0. SUFFICES /\ Uniques(rows, z) /\ Uniques(more, z)
                 /\ StoredRows(rows, s, l) =>
                      /\ \A u \in Tables : Len(rows[u]) <= MaxRows[u]
                      /\ Len(rows[t]) < MaxRows[t]
                      /\ StoredRows(more, z, l2)
    BY DEF more, l2, new, newl, row
  <1>5. Unique \subseteq Tables /\ MaxRows[t] \in Nat /\ t \in Unique => NoDup(new)
    BY RowsAssumption DEF new, row
  <1>6. z.todo = rest /\ z.todo \in Seq(Rows)
    BY <1>1 DEF rest
  <1>7. Uniques(rows, z) /\ Uniques(more, z)
    <2>1. \A u \in Unique : NoDup(rows[u])
      BY InsertViews
    <2>2. Uniques(rows, z)
      BY <1>6, <2>1, InsertViews
    <2>3. \A u \in Unique : NoDup(more[u])
      <3>1. SUFFICES ASSUME NEW u \in Unique PROVE NoDup(more[u])
        OBVIOUS
      <3>2. u \in Tables /\ (t \in Unique => NoDup(new))
        BY RowsAssumption DEF new, row
      <3>3. QED
        BY <1>4, <2>1, <3>2
    <2>4. Uniques(more, z)
      BY <1>4, <1>6, <2>3, InsertViews
    <2>5. QED
      BY <2>2, <2>4
  <1>8. ASSUME StoredRows(rows, s, l)
        PROVE  /\ \A u \in Tables : Len(rows[u]) <= MaxRows[u]
               /\ Len(rows[t]) < MaxRows[t]
               /\ StoredRows(more, z, l2)
    <2>1. /\ \A u \in Tables : rows[u] = l[u] /\ Len(l[u]) <= MaxRows[u]
          /\ Len(l[t]) + Len(s.todo) <= MaxRows[t]
      BY <1>8, InsertViews
    <2>2. /\ Len(l[t]) < MaxRows[t] /\ Len(newl) <= MaxRows[t]
          /\ Len(newl) + Len(rest) <= MaxRows[t]
      <3> DEFINE a == Len(l[t])
                 b == Len(s.todo)
                 m == MaxRows[t]
                 n == Len(newl)
                 k == Len(rest)
      <3>1. /\ a + b <= m /\ n = a + 1 /\ k = b - 1
            /\ a \in Nat /\ b \in Nat /\ k \in Nat /\ m \in Nat
        BY <1>1, <1>2, <2>1, RowsAssumption
      <3> HIDE DEF a, b, m, n, k
      <3>2. a < m /\ n <= m /\ n + k <= m
        BY <3>1
      <3>3. QED
        BY <3>2 DEF a, m, n, k
    <2>3. \A u \in Tables : more[u] = l2[u] /\ Len(l2[u]) <= MaxRows[u]
      <3>1. SUFFICES ASSUME NEW u \in Tables PROVE more[u] = l2[u] /\ Len(l2[u]) <= MaxRows[u]
        OBVIOUS
      <3>2. CASE u = t
        BY <1>3, <1>4, <2>1, <2>2, <3>2
      <3>3. CASE u # t
        BY <1>4, <2>1, <3>3
      <3>4. QED
        BY <3>2, <3>3
    <2>4. Len(l2[t]) + Len(z.todo) <= MaxRows[t]
      BY <1>4, <1>6, <2>2
    <2>5. StoredRows(more, z, l2)
      BY <1>4, <1>6, <2>3, <2>4, InsertViews
    <2>6. QED
      BY <2>1, <2>2, <2>5
  <1>9. QED
    BY <1>7, <1>8

\* What INSERT ... SELECT knows of itself.
LEMMA InsertingIs ==
  ASSUME NEW rows, Now(rows), stmt.op = "insert"
  PROVE  /\ isOpen /\ stmt # Idle /\ stmt.table \in DOMAIN catalog /\ stmt.table \in Tables
         /\ stmt.todo \in Seq(Rows) /\ Shows(Db, rows)
         /\ rows \in RowTables /\ logical \in RowTables /\ Uniques(rows, stmt)
  <1>1. stmt # Idle
    BY OpNotIdle
  <1>2. isOpen /\ stmt.table \in DOMAIN catalog /\ stmt.todo \in Seq(Rows)
    BY <1>1 DEF Now, Shape, StmtTyped
  <1>3. QED
    BY <1>1, <1>2, OpenIsCur DEF Now

LEMMA InsertSelectRowFollows ==
  ASSUME NEW rows, Now(rows), InsertSelectRow
  PROVE  Follow(rows)
  <1> DEFINE t == stmt.table
             row == Head(stmt.todo)
             more == [rows EXCEPT ![t] = Append(rows[t], row)]
             l2 == [logical EXCEPT ![t] = Append(logical[t], row)]
  <1>1. /\ stmt.op = "insert" /\ stmt.todo # <<>> /\ Becomes(catalog_insert(Db, t, row))
        /\ stmt' = [stmt EXCEPT !.todo = Tail(@)] /\ isOpen' = isOpen
        /\ logical' = [logical EXCEPT ![t] = Append(@, row)] /\ ~Conflicts(t, row)
    BY DEF InsertSelectRow
  <1>2. /\ isOpen /\ t \in DOMAIN catalog /\ t \in Tables /\ stmt # Idle
        /\ stmt.todo \in Seq(Rows)
        /\ rows \in RowTables /\ logical \in RowTables /\ Uniques(rows, stmt)
    BY <1>1, InsertingIs
  <1>3. /\ stmt'.op = "insert" /\ stmt'.table = t /\ stmt'.todo = Tail(stmt.todo)
        /\ row \in Rows
    BY <1>1, <1>2, TodoTail DEF Now
  <1>4. logical' = l2
    BY <1>1
  <1>5. t \in Unique => NoDup(Append(rows[t], row))
    <2>1. \A u \in Unique : NoDup(rows[u])
      BY <1>1, <1>2, InsertViews
    <2>2. QED
      BY <1>1, <1>2, <1>3, <2>1, NoConflict
  <1>6. /\ Uniques(rows, stmt') /\ Uniques(more, stmt')
        /\ StoredRows(rows, stmt, logical) =>
             /\ \A u \in Tables : Len(rows[u]) <= MaxRows[u]
             /\ Len(rows[t]) < MaxRows[t]
             /\ StoredRows(more, stmt', l2)
    BY <1>1, <1>2, <1>3, <1>5, InsertGoesOn
  <1>7. more = [rows EXCEPT ![t] = Append(rows[t], row)]
    OBVIOUS
  <1> HIDE DEF t, row, more, l2
  <1>8. QED
    BY <1>1, <1>2, <1>3, <1>4, <1>6, <1>7, AppendFollows

LEMMA BecomesItself ==
  ASSUME UNCHANGED <<torn, pg, disk, catalog, page1>>
  PROVE  Becomes(Db)
  BY DEF Becomes, Db

LEMMA InsertSelectFollows ==
  ASSUME NEW rows, Now(rows), NEW t \in Tables, NEW u \in Tables, execute_insert_select(t, u)
  PROVE  Follow(rows)
  <1> DEFINE all == read_all_rows(Db, u)
             s == [op |-> "insert", table |-> t, todo |-> all]
  <1>1. /\ isOpen /\ isOpen' /\ stmt = Idle /\ t \in DOMAIN catalog /\ u \in DOMAIN catalog
        /\ Len(read_all_rows(Db, t)) + Len(all) <= MaxRows[t]
        /\ stmt' = s /\ logical' = logical /\ UNCHANGED <<torn, pg, disk, catalog, page1>>
    BY DEF execute_insert_select, Ready
  <1>2. /\ Shows(Db, rows) /\ rows \in RowTables /\ logical \in RowTables
        /\ read_all_rows(Db, t) = rows[t] /\ all = rows[u] /\ Uniques(rows, Idle)
    BY <1>1, OpenIsCur DEF Now
  <1>3. all \in Seq(Rows)
    BY <1>2 DEF RowTables
  <1> HIDE DEF all
  <1>4. s.op = "insert" /\ s.table = t /\ s.todo = all
    OBVIOUS
  <1> HIDE DEF s
  <1>5. Uniques(rows, s)
    <2>1. \A v \in Unique : NoDup(rows[v])
      BY <1>2, IdleViews
    <2>2. QED
      BY <1>2, <1>3, <1>4, <2>1, InsertViews
  <1>6. ASSUME StoredRows(rows, Idle, logical) PROVE StoredRows(rows, s, logical)
    <2>1. \A v \in Tables : rows[v] = logical[v] /\ Len(logical[v]) <= MaxRows[v]
      BY <1>2, <1>6, IdleViews
    <2>2. Len(logical[t]) + Len(s.todo) <= MaxRows[t]
      BY <1>1, <1>2, <1>4, <2>1
    <2>3. QED
      BY <1>2, <1>3, <1>4, <2>1, <2>2, InsertViews
  <1>7. Becomes(Db)
    BY <1>1, BecomesItself
  <1>8. QED
    BY <1>1, <1>2, <1>5, <1>6, <1>7, ShownIsStep

LEMMA FinishInsertSelectFollows ==
  ASSUME NEW rows, Now(rows), FinishInsertSelect
  PROVE  Follow(rows)
  <1> DEFINE b == catalog_write_page(Db)
  <1>1. /\ stmt.op = "insert"
        /\ stmt' = Idle /\ isOpen' = isOpen /\ logical' = logical
    BY DEF FinishInsertSelect
  <1>2. /\ isOpen /\ stmt.table \in Tables /\ Shows(Db, rows) /\ stmt.todo \in Seq(Rows)
        /\ rows \in RowTables /\ logical \in RowTables /\ Uniques(rows, stmt)
        /\ stmt.op = "insert"
    <2>1. stmt.op = "insert"
      BY DEF FinishInsertSelect
    <2>2. QED
      BY <2>1, InsertingIs
  <1>3. Shows(b, rows)
    BY <1>2, SavedShows
  <1>4. Becomes(b) \/ Becomes(Db)
    BY DEF FinishInsertSelect
  <1> HIDE DEF b
  <1>5. Uniques(rows, Idle)
    BY <1>2, InsertViews, IdleViews
  <1>6. ASSUME StoredRows(rows, stmt, logical) PROVE StoredRows(rows, Idle, logical)
    <2>1. \A u \in Tables : rows[u] = logical[u] /\ Len(logical[u]) <= MaxRows[u]
      BY <1>2, <1>6, InsertViews
    <2>2. QED
      BY <1>2, <2>1, IdleViews
  <1>7. QED
    BY <1>1, <1>2, <1>3, <1>4, <1>5, <1>6, ShownIsStep

LEMMA OpenFollows ==
  ASSUME NEW rows, Now(rows), catalog_open
  PROVE  Follow(rows)
  <1>1. /\ ~isOpen /\ isOpen' /\ pg' = header /\ catalog' = catalog_read_page(page1)
        /\ disk' = disk /\ page1' = page1 /\ stmt' = stmt /\ logical' = logical
    BY DEF catalog_open
  <1>2. Cur' = Cur
    BY <1>1 DEF Cur, Db
  <1>3. Shows(Cur', rows) /\ Uniques(rows, stmt')
    BY <1>1, <1>2 DEF Now
  <1>4. Roomy /\ StoredRows(rows, stmt, logical) => StoredRows(rows, stmt', logical')
    BY <1>1
  <1>5. QED
    BY <1>3, <1>4 DEF Follow

LEMMA CloseFollows ==
  ASSUME NEW rows, Now(rows), catalog_close
  PROVE  Follow(rows)
  <1> DEFINE f == Saved(catalog)
             read == catalog_read_page(f)
             b == [pg |-> pg, disk |-> disk, catalog |-> read, page1 |-> f]
  <1>1. /\ isOpen /\ ~isOpen' /\ page1' = catalog_write_page(Db).page1 /\ header' = pg
        /\ disk' = disk /\ stmt' = stmt /\ logical' = logical
    BY DEF catalog_close, Ready, Now, Shape
  <1>2. Shows(Db, rows) /\ Typed(Db)
    BY <1>1, OpenIsCur
  <1>3. page1' = f
    BY <1>1, <1>2, SaveKeeps, DbParts
  <1>4. SavedTyped(f) /\ CatalogTyped(read)
    BY <1>2, SavedIsTyped, OpensTyped, DbParts DEF Typed
  <1>5. Cur' = b
    BY <1>1, <1>3 DEF Cur
  <1> HIDE DEF f
  <1>6. Is(b, pg, disk, read, f)
    BY DEF Is, IsDb
  <1> HIDE DEF b
  <1>7. Typed(b)
    BY <1>2, <1>4, <1>6, TypedIs, DbParts DEF Typed
  <1>8. /\ b.pg = Db.pg /\ b.disk = Db.disk
        /\ b.catalog = catalog_read_page(Saved(Db.catalog))
    BY <1>6, DbParts DEF Is, f
  <1>9. Shows(Cur', rows)
    BY <1>2, <1>5, <1>7, <1>8, ShowsReopened
  <1>10. Uniques(rows, stmt')
    BY <1>1 DEF Now
  <1>11. Roomy /\ StoredRows(rows, stmt, logical) => StoredRows(rows, stmt', logical')
    BY <1>1
  <1>12. QED
    BY <1>9, <1>10, <1>11 DEF Follow

LEMMA StutterFollows ==
  ASSUME NEW rows, Now(rows), UNCHANGED vars
  PROVE  Follow(rows)
  <1>1. Cur' = Cur /\ stmt' = stmt /\ logical' = logical
    BY DEF vars, Cur, Db
  <1>2. Shows(Cur', rows) /\ Uniques(rows, stmt')
    BY <1>1 DEF Now
  <1>3. Roomy /\ StoredRows(rows, stmt, logical) => StoredRows(rows, stmt', logical')
    BY <1>1
  <1>4. QED
    BY <1>2, <1>3 DEF Follow

\* A trigger that fails ends the statement: rows still to be appended are lost.
LEMMA TriggerFailsLeads ==
  ASSUME NEW rows, Now(rows), AfterTriggerFails
  PROVE  Shows(Cur', rows) /\ Uniques(rows, stmt')
  <1>1. /\ stmt.op = "rewrite" /\ stmt' = Idle
        /\ UNCHANGED <<isOpen, torn, pg, disk, catalog, page1, header>>
    BY DEF AfterTriggerFails
  <1>2. Cur' = Cur
    BY <1>1 DEF Cur, Db
  <1>3. /\ stmt.table \in Tables /\ stmt.todo \in Seq(Rows) /\ stmt.goal \in Seq(Rows)
        /\ rows \in RowTables /\ logical \in RowTables /\ Uniques(rows, stmt)
    BY <1>1, RewritingIs
  <1>4. Uniques(rows, Idle)
    BY <1>1, <1>3, RewriteEnds
  <1>5. QED
    BY <1>1, <1>2, <1>4 DEF Now

-----------------------------------------------------------------------------
(* The invariants, and what they say of the properties.                      *)

\* Some rows are what the database shows.
RowsExist == \E rows : Now(rows)

\* They are, with the rows still to come, those that the statements stand for.
RowsStand == \E rows : Now(rows) /\ StoredRows(rows, stmt, logical)

LEMMA StatementFollows ==
  ASSUME NEW rows, Now(rows), RowStatements \/ IndexStatements
  PROVE  Follow(rows)
  <1>1. CASE RowStatements
    BY <1>1, OpenFollows, CloseFollows, CreateTableFollows, DropTableFollows, InsertFollows,
       UpdateFollows, DeleteFollows, InsertSelectFollows, RewriteRowFollows,
       FinishRewriteFollows, InsertSelectRowFollows, FinishInsertSelectFollows
    DEF RowStatements
  <1>2. CASE IndexStatements
    BY <1>2, CreateIndexFollows, DropIndexFollows DEF IndexStatements
  <1>3. QED
    BY <1>1, <1>2

LEMMA ShapeStutters ==
  ASSUME Shape, UNCHANGED vars
  PROVE  Shape'
  BY DEF vars, Shape, StmtTyped, Db

LEMMA NextFollows ==
  ASSUME NEW rows, Now(rows), [Next]_vars
  PROVE  Shape' /\ Follow(rows)
  <1>1. Shape
    BY DEF Now
  <1>2. CASE RowStatements \/ IndexStatements
    BY <1>1, <1>2, StatementsStep, StatementFollows
  <1>3. CASE UNCHANGED vars
    BY <1>1, <1>3, ShapeStutters, StutterFollows
  <1>4. QED
    BY <1>2, <1>3 DEF Next

LEMMA InitRows == Init => RowsStand
  <1> SUFFICES ASSUME Init PROVE RowsStand
    OBVIOUS
  <1> DEFINE none == <<>>
             rows == [t \in Tables |-> none]
             c == [t \in Tables |-> none]
             own == [p \in Pages |-> <<0, 0>>]
             b == [pg |-> header, disk |-> disk, catalog |-> catalog_read_page(page1),
                   page1 |-> page1]
  <1>1. Shape
    BY ShapeInit
  <1>2. /\ Cur = b /\ header = NewPager /\ page1 = NoTables /\ disk = [p \in Pages |-> Blank]
        /\ stmt = Idle /\ logical = rows
    BY DEF Init, Cur
  <1>3. none \in Seq(Rows) /\ none \in Seq(Pages) /\ Len(none) = 0 /\ NoDup(none)
    BY NoDupNone
  <1>4. rows \in RowTables /\ c \in [Tables -> Seq(Pages)]
    BY <1>3 DEF RowTables
  <1>5. DOMAIN b.catalog = {}
    BY <1>2, OpensTyped DEF NoTables, catalog_read_page
  <1>6. b.pg = NewPager /\ b.disk = disk /\ b.catalog = catalog_read_page(page1)
    BY <1>2
  <1>7. Typed(b)
    <2>1. Typed(Db)
      BY <1>1 DEF Shape
    <2>2. DiskTyped(disk) /\ SavedTyped(page1)
      BY <2>1, DbParts DEF Typed
    <2>3. Is(b, header, disk, catalog_read_page(page1), page1)
      BY DEF Is, IsDb
    <2>4. header \in Pagers
      BY <1>2, NewPagerFacts
    <2> HIDE DEF b
    <2>5. QED
      BY <2>2, <2>3, <2>4, OpensTyped, TypedIs
  <1> HIDE DEF b
  <1>8. InUse(b.pg) = {} /\ Sound(b.pg)
    BY <1>6, NewPagerFacts DEF InUse, NewPager
  <1>9. \A t \in Tables : c[t] = none /\ rows[t] = none
    OBVIOUS
  <1>10. DOMAIN own = Pages
    OBVIOUS
  <1> HIDE DEF rows, c, own
  <1>11. \A t \in Tables : Linked(b.disk, InUse(b.pg), c[t], t, own)
    BY <1>3, <1>9 DEF Linked
  <1>12. Good(b, c, own)
    BY <1>4, <1>5, <1>7, <1>8, <1>9, <1>10, <1>11 DEF Good, none
  <1>13. \A t \in Tables : RowsOf(b.disk, c[t]) = none
    BY <1>9, RowsOfNone
  <1>14. Counted(b, c)
    BY <1>3, <1>9, <1>13 DEF Counted
  <1>15. \A t \in Tables : Indexed(b, c, t)
    BY <1>5 DEF Indexed
  <1>16. Shows(b, rows)
    BY <1>4, <1>9, <1>12, <1>13, <1>14, <1>15 DEF Shows, InOrder, RowTables
  <1>17. Uniques(rows, Idle) /\ StoredRows(rows, Idle, logical)
    <2>1. \A t \in Tables : rows[t] = logical[t] /\ Len(logical[t]) <= MaxRows[t]
      BY <1>2, <1>3, <1>9, RowsAssumption
    <2>2. \A t \in Unique : NoDup(rows[t])
      BY <1>3, <1>9, RowsAssumption
    <2>3. QED
      BY <1>2, <1>4, <2>1, <2>2, IdleViews
  <1>18. QED
    BY <1>1, <1>2, <1>16, <1>17 DEF RowsStand, Now

\* The pages of table t: its chain and its index.
OwnedPages(db, t) ==
    Chain(db, db.catalog[t].first)
    \o IF db.catalog[t].root = 0 THEN <<>> ELSE <<db.catalog[t].root>>

LEMMA OwnedIs ==
  ASSUME NEW db, NEW c, NEW own, Good(db, c, own), NEW t \in DOMAIN db.catalog
  PROVE  /\ IsInjective(OwnedPages(db, t))
         /\ \A p \in ToSet(OwnedPages(db, t)) : p \in InUse(db.pg) /\ own[p][1] = t
         /\ \A p \in InUse(db.pg) : OwnedBy(db, c[t], t, p) => p \in ToSet(OwnedPages(db, t))
  <1> DEFINE s == c[t]
             n == Len(s)
             root == db.catalog[t].root
             x == IF root = 0 THEN <<>> ELSE <<root>>
             w == s \o x
  <1>1. /\ t \in Tables /\ Chain(db, db.catalog[t].first) = s
        /\ root # 0 => root \in InUse(db.pg) /\ own[root] = <<t, 0>>
    BY GoodReads
  <1>2. /\ s \in Seq(Pages) /\ n \in Nat
        /\ \A i \in 1 .. n : s[i] \in InUse(db.pg) /\ own[s[i]] = <<t, i>>
    BY <1>1, GoodChain
  <1>3. OwnedPages(db, t) = w
    BY <1>1 DEF OwnedPages
  <1>4. InUse(db.pg) \subseteq Pages
    BY DEF Good, Typed, Pagers, InUse
  <1> HIDE DEF s, n, root
  <1>5. CASE root = 0
    <2>1. w = s
      BY <1>2, <1>5, ConcatEmptySeq
    <2> HIDE DEF w
    <2>2. DOMAIN s = 1 .. n
      BY <1>2 DEF n
    <2>3. IsInjective(w)
      <3>1. SUFFICES ASSUME NEW i \in 1 .. n, NEW j \in 1 .. n, s[i] = s[j] PROVE i = j
        BY <2>1, <2>2 DEF IsInjective
      <3>2. <<t, i>> = <<t, j>>
        BY <1>2, <3>1
      <3>3. QED
        BY <3>2
    <2>4. \A p \in ToSet(w) : p \in InUse(db.pg) /\ own[p][1] = t
      BY <1>2, <2>1, <2>2 DEF ToSet
    <2>5. ASSUME NEW p \in InUse(db.pg), OwnedBy(db, s, t, p) PROVE p \in ToSet(w)
      <3>1. p # 0
        BY DEF InUse
      <3>2. \E i \in 1 .. n : s[i] = p
        BY <1>5, <2>5, <3>1 DEF OwnedBy, root, n
      <3>3. QED
        BY <2>1, <2>2, <3>2 DEF ToSet
    <2>6. QED
      BY <1>3, <2>3, <2>4, <2>5 DEF s
  <1>6. CASE root # 0
    <2>1. w = Append(s, root) /\ root \in Pages
      BY <1>1, <1>2, <1>4, <1>6
    <2> HIDE DEF w
    <2>2. /\ DOMAIN w = 1 .. n + 1 /\ w[n + 1] = root
          /\ \A i \in 1 .. n : w[i] = s[i]
      BY <1>2, <2>1 DEF n
    <2>3. \A i \in 1 .. n + 1 : /\ w[i] \in InUse(db.pg)
                                /\ own[w[i]] = <<t, IF i = n + 1 THEN 0 ELSE i>>
      <3>1. SUFFICES ASSUME NEW i \in 1 .. n + 1
                     PROVE  /\ w[i] \in InUse(db.pg)
                            /\ own[w[i]] = <<t, IF i = n + 1 THEN 0 ELSE i>>
        OBVIOUS
      <3>2. CASE i = n + 1
        BY <1>1, <1>6, <2>2, <3>2
      <3>3. CASE i # n + 1
        <4>1. i \in 1 .. n
          BY <1>2, <3>3
        <4>2. QED
          BY <1>2, <2>2, <3>3, <4>1
      <3>4. QED
        BY <3>2, <3>3
    <2>4. IsInjective(w)
      <3>1. SUFFICES ASSUME NEW i \in 1 .. n + 1, NEW j \in 1 .. n + 1, w[i] = w[j]
                     PROVE  i = j
        BY <2>2 DEF IsInjective
      <3>2. <<t, IF i = n + 1 THEN 0 ELSE i>> = <<t, IF j = n + 1 THEN 0 ELSE j>>
        BY <2>3, <3>1
      <3>3. (IF i = n + 1 THEN 0 ELSE i) = (IF j = n + 1 THEN 0 ELSE j)
        BY <3>2
      <3>4. QED
        BY <1>2, <3>3
    <2>5. \A p \in ToSet(w) : p \in InUse(db.pg) /\ own[p][1] = t
      BY <2>2, <2>3 DEF ToSet
    <2>6. ASSUME NEW p \in InUse(db.pg), OwnedBy(db, s, t, p) PROVE p \in ToSet(w)
      <3>1. (\E i \in 1 .. n : s[i] = p) \/ root = p
        BY <2>6 DEF OwnedBy, root, n
      <3>2. \E i \in 1 .. n + 1 : w[i] = p
        BY <1>2, <2>2, <3>1
      <3>3. QED
        BY <2>2, <3>2 DEF ToSet
    <2>7. QED
      BY <1>3, <2>4, <2>5, <2>6 DEF s
  <1>7. QED
    BY <1>5, <1>6

LEMMA RowsOwnPages == RowsExist => PagesHaveOneOwner
  <1> SUFFICES ASSUME RowsExist, isOpen PROVE PagesHaveOneOwner
    BY DEF PagesHaveOneOwner
  <1>1. PICK rows : Now(rows)
    BY DEF RowsExist
  <1>2. PICK c, own : Good(Db, c, own)
    BY <1>1, OpenIsCur, ShowsParts
  <1> DEFINE W(t) == Chain(Db, catalog[t].first)
                     \o IF catalog[t].root = 0 THEN <<>> ELSE <<catalog[t].root>>
  <1>3. \A t \in DOMAIN catalog : OwnedPages(Db, t) = W(t)
    BY DbParts DEF OwnedPages
  <1> HIDE DEF W
  <1>4. \A t \in DOMAIN catalog :
          /\ IsInjective(W(t))
          /\ \A p \in ToSet(W(t)) : p \in InUse(pg) /\ own[p][1] = t
          /\ \A p \in InUse(pg) : OwnedBy(Db, c[t], t, p) => p \in ToSet(W(t))
    <2>1. \A t \in DOMAIN catalog :
            /\ IsInjective(OwnedPages(Db, t))
            /\ \A p \in ToSet(OwnedPages(Db, t)) : p \in InUse(pg) /\ own[p][1] = t
            /\ \A p \in InUse(pg) : OwnedBy(Db, c[t], t, p) => p \in ToSet(OwnedPages(Db, t))
      BY <1>2, OwnedIs, DbParts
    <2>2. QED
      BY <1>3, <2>1
  <1>5. \A p \in InUse(pg) : \E t \in DOMAIN catalog : OwnedBy(Db, c[t], t, p)
    <2>1. SUFFICES ASSUME NEW p \in InUse(pg)
                   PROVE  \E t \in DOMAIN catalog : OwnedBy(Db, c[t], t, p)
      OBVIOUS
    <2>2. PICK t \in Tables : OwnedBy(Db, c[t], t, p)
      BY <1>2, <2>1, DbParts DEF Good
    <2>3. t \in DOMAIN catalog
      <3>1. SUFFICES ASSUME t \notin DOMAIN catalog PROVE FALSE
        OBVIOUS
      <3>2. c[t] = <<>>
        BY <1>2, <3>1, DbParts DEF Good
      <3>3. QED
        BY <2>2, <3>1, <3>2, DbParts DEF OwnedBy
    <2>4. QED
      BY <2>2, <2>3
  <1>6. pg.bitmap = {0, 1} \cup UNION {ToSet(W(t)) : t \in DOMAIN catalog}
    <2>1. {0, 1} \subseteq pg.bitmap
      BY <1>2, DbParts DEF Good, Sound
    <2>2. InUse(pg) = UNION {ToSet(W(t)) : t \in DOMAIN catalog}
      BY <1>4, <1>5
    <2>3. QED
      BY <2>1, <2>2 DEF InUse
  <1>7. ASSUME NEW t \in DOMAIN catalog, NEW u \in DOMAIN catalog, t # u
        PROVE  ToSet(W(t)) \cap ToSet(W(u)) = {}
    BY <1>4, <1>7
  <1>8. QED
    BY <1>4, <1>6, <1>7 DEF PagesHaveOneOwner, W

LEMMA RowsMatchIndex == RowsExist => IndexMatchesRows
  <1> SUFFICES ASSUME RowsExist, isOpen, NEW t \in DOMAIN catalog, catalog[t].root # 0
               PROVE  Read(Db, catalog[t].root).entries = RowEntries(Db, t)
    BY DEF IndexMatchesRows
  <1>1. PICK rows : Now(rows)
    BY DEF RowsExist
  <1>2. PICK c, own : Good(Db, c, own) /\ \A u \in Tables : Indexed(Db, c, u)
    BY <1>1, OpenIsCur, ShowsParts
  <1>3. t \in DOMAIN Db.catalog /\ Db.catalog[t].root = catalog[t].root /\ t \in Tables
    BY <1>2, DbParts, GoodReads
  <1>4. Db.disk[catalog[t].root].entries = EntriesOf(Db.disk, c[t])
    BY <1>2, <1>3 DEF Indexed
  <1>5. /\ RowEntries(Db, t) = EntriesOf(Db.disk, c[t])
        /\ Read(Db, catalog[t].root) = Db.disk[catalog[t].root]
    BY <1>2, <1>3, GoodRows
  <1>6. QED
    BY <1>4, <1>5

LEMMA RowsAreUnique == RowsExist => UniqueIsKept
  <1> SUFFICES ASSUME RowsExist, isOpen, NEW t \in DOMAIN catalog \cap Unique
               PROVE  LET rows == read_all_rows(Db, t)
                      IN  \A i, j \in DOMAIN rows : rows[i] = rows[j] /\ rows[i] # Null => i = j
    BY DEF UniqueIsKept
  <1>1. PICK rows : Now(rows)
    BY DEF RowsExist
  <1>2. /\ read_all_rows(Db, t) = rows[t] /\ t \in Tables
        /\ rows \in RowTables /\ logical \in RowTables
    BY <1>1, OpenIsCur
  <1>3. Uniques(rows, stmt)
    BY <1>1 DEF Now
  <1>4. NoDup(rows[t])
    <2>1. rows[t] \in Seq(Rows) /\ Rest(stmt, t) \in Seq(Rows)
      <3>1. rows[t] \in Seq(Rows) /\ <<>> \in Seq(Rows)
        BY <1>2 DEF RowTables
      <3>2. stmt.op = "rewrite" => stmt.todo \in Seq(Rows)
        BY <1>1, RewritingIs
      <3>3. QED
        BY <3>1, <3>2 DEF Rest
    <2>2. NoDup(rows[t] \o Rest(stmt, t))
      BY <1>3 DEF Uniques
    <2>3. QED
      BY <2>1, <2>2, NoDupParts
  <1>5. rows[t] \in Seq(Rows)
    BY <1>2 DEF RowTables
  <1> DEFINE s == rows[t]
  <1> HIDE DEF s
  <1>6. s \in Seq(Rows) /\ NoDup(s) /\ read_all_rows(Db, t) = s
    BY <1>2, <1>4, <1>5 DEF s
  <1>7. \A i, j \in DOMAIN s : s[i] = s[j] /\ s[i] # Null => i = j
    BY <1>6 DEF NoDup
  <1>8. QED
    BY <1>6, <1>7

LEMMA RowsAreThere == RowsStand => RowsAreKept
  <1> SUFFICES ASSUME RowsStand, isOpen, NEW t \in DOMAIN catalog
               PROVE  IF stmt.op = "rewrite" /\ stmt.table = t
                      THEN read_all_rows(Db, t) \o stmt.todo = stmt.goal
                      ELSE read_all_rows(Db, t) = logical[t]
    BY DEF RowsAreKept
  <1>1. PICK rows : Now(rows) /\ StoredRows(rows, stmt, logical)
    BY DEF RowsStand
  <1>2. read_all_rows(Db, t) = rows[t] /\ t \in Tables /\ rows \in RowTables
    BY <1>1, OpenIsCur
  <1>3. rows[t] \o Rest(stmt, t) = Aim(stmt, logical, t)
    BY <1>1, <1>2 DEF StoredRows
  <1>4. CASE stmt.op = "rewrite" /\ stmt.table = t
    BY <1>2, <1>3, <1>4 DEF Rest, Aim
  <1>5. CASE ~(stmt.op = "rewrite" /\ stmt.table = t)
    <2>1. rows[t] \o <<>> = rows[t]
      BY <1>2, NothingMore DEF RowTables
    <2>2. QED
      BY <1>2, <1>3, <1>5, <2>1 DEF Rest, Aim
  <1>6. QED
    BY <1>4, <1>5

-----------------------------------------------------------------------------
(* The theorems. *)

LEMMA InitExists == Init => RowsExist
  BY InitRows DEF RowsStand, RowsExist

LEMMA FollowsExist ==
  ASSUME RowsExist, [Next]_vars
  PROVE  RowsExist'
  <1>1. PICK rows : Now(rows)
    BY DEF RowsExist
  <1>2. Shape' /\ Follow(rows)
    BY <1>1, NextFollows
  <1>3. PICK rows2 : Shows(Cur', rows2) /\ Uniques(rows2, stmt')
    BY <1>2 DEF Follow
  <1>4. QED
    BY <1>2, <1>3 DEF RowsExist, Now

LEMMA TriggersFollow ==
  ASSUME RowsExist, [TriggerNext]_vars
  PROVE  RowsExist'
  <1>1. CASE AfterTriggerFails
    <2>1. PICK rows : Now(rows)
      BY DEF RowsExist
    <2>2. Shape'
      BY <1>1, <2>1, StatementsStep DEF Now
    <2>3. Shows(Cur', rows) /\ Uniques(rows, stmt')
      BY <1>1, <2>1, TriggerFailsLeads
    <2>4. QED
      BY <2>2, <2>3 DEF RowsExist, Now
  <1>2. CASE [Next]_vars
    BY <1>2, FollowsExist
  <1>3. QED
    BY <1>1, <1>2 DEF TriggerNext, Next

(* The bitmap of src/sql_engine.c's file is exactly the header, the catalog  *)
(* page, the row chains and the index pages, and no page serves twice:       *)
(* whatever statements run, none leaks a page or takes another table's.      *)
THEOREM PagesKeepOneOwner == Spec => []PagesHaveOneOwner
  <1>1. RowsExist /\ [Next]_vars => RowsExist'
    BY FollowsExist
  <1>2. QED
    BY <1>1, InitExists, RowsOwnPages, PTL DEF Spec

(* The same when AFTER UPDATE triggers fail half way through a statement.    *)
THEOREM PagesKeepOneOwnerUnderTriggers == TriggerSpec => []PagesHaveOneOwner
  <1>1. RowsExist /\ [TriggerNext]_vars => RowsExist'
    BY TriggersFollow
  <1>2. QED
    BY <1>1, InitExists, RowsOwnPages, PTL DEF TriggerSpec

(* An index that indexes_add_row, indexes_reset and index_build_from_rows    *)
(* keep has one entry for each row of its table, at the row's present place, *)
(* and no other: at every step of every statement.                           *)
THEOREM IndexKeepsMatching == Spec => []IndexMatchesRows
  <1>1. RowsExist /\ [Next]_vars => RowsExist'
    BY FollowsExist
  <1>2. QED
    BY <1>1, InitExists, RowsMatchIndex, PTL DEF Spec

(* The checks of constraints_check_new_row and constraints_check_row_set     *)
(* keep a UNIQUE column free of repeated values, even when an append fails   *)
(* for want of a page.                                                       *)
THEOREM UniqueStaysKept == Spec => []UniqueIsKept
  <1>1. RowsExist /\ [Next]_vars => RowsExist'
    BY FollowsExist
  <1>2. QED
    BY <1>1, InitExists, RowsAreUnique, PTL DEF Spec

(* The same when an AFTER UPDATE trigger fails half way through a statement. *)
THEOREM UniqueStaysKeptUnderTriggers == TriggerSpec => []UniqueIsKept
  <1>1. RowsExist /\ [TriggerNext]_vars => RowsExist'
    BY TriggersFollow
  <1>2. QED
    BY <1>1, InitExists, RowsAreUnique, PTL DEF TriggerSpec

(* When the bitmap has a page for every row and index that the bound allows, *)
(* a statement that catalog_insert serves row by row leaves exactly the rows *)
(* it stands for, in order, and loses none on the way.                       *)
THEOREM RowsStayKept ==
  ASSUME Roomy
  PROVE  Spec => []RowsAreKept
  <1>1. RowsStand /\ [Next]_vars => RowsStand'
    <2> SUFFICES ASSUME RowsStand, [Next]_vars PROVE RowsStand'
      OBVIOUS
    <2>1. PICK rows : Now(rows) /\ StoredRows(rows, stmt, logical)
      BY DEF RowsStand
    <2>2. Shape' /\ Follow(rows)
      BY <2>1, NextFollows
    <2>3. PICK rows2 : /\ Shows(Cur', rows2) /\ Uniques(rows2, stmt')
                       /\ StoredRows(rows2, stmt', logical')
      BY <2>1, <2>2 DEF Follow
    <2>4. QED
      BY <2>2, <2>3 DEF RowsStand, Now
  <1>2. QED
    BY <1>1, InitRows, RowsAreThere, PTL DEF Spec

=============================================================================
