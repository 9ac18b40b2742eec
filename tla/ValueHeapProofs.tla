---------------------------- MODULE ValueHeapProofs ----------------------------
(***************************************************************************)
(* Counts cover references: the instructions, the collector and the sweep  *)
(* at exit never free a container that something still refers to, for any  *)
(* number of containers and any sequence of instructions.                  *)
(***************************************************************************)
EXTENDS ValueHeap, FiniteSetTheorems, SequenceTheorems, WellFoundedInduction, TLAPS

(* Every non-empty set of naturals has a least element. *)
LEMMA LeastMember ==
  ASSUME NEW T \in SUBSET Nat, T # {}
  PROVE  Min(T) \in T /\ \A j \in T : Min(T) <= j
  <1>1. \E i \in T : \A j \in T : i <= j
    <2> DEFINE R == OpToRel(<, Nat)
    <2>1. IsWellFoundedOn(R, Nat)
      BY NatLessThanWellFounded
    <2>2. PICK i \in T : \A j \in T : ~(<<j, i>> \in R)
      BY <2>1, WFMin
    <2>3. \A j \in T : ~(j < i)
      BY <2>2 DEF OpToRel
    <2>4. QED
      BY <2>3
  <1>2. QED
    BY <1>1 DEF Min

(* A function defined by recursion on 0 .. n, with its values in S. *)
Recursive(f, S, base, step, n) ==
    /\ f \in [0 .. n -> S]
    /\ f[0] = base
    /\ \A i \in 1 .. n : f[i] = step[<<i, f[i - 1]>>]

LEMMA RecursionExists ==
  ASSUME NEW S, NEW base \in S, NEW step \in [Nat \X S -> S], NEW n \in Nat
  PROVE  \E f : Recursive(f, S, base, step, n)
  <1> USE DEF Recursive
  <1> DEFINE Solves(f, m) == Recursive(f, S, base, step, m)
             T == {m \in Nat : ~ \E f : Solves(f, m)}
  <1>1. SUFFICES T = {}
    OBVIOUS
  <1>2. SUFFICES ASSUME T # {} PROVE FALSE
    OBVIOUS
  <1>3. PICK m \in T : \A j \in T : m <= j
    BY <1>2, LeastMember
  <1>4. CASE m = 0
    <2>1. Solves([i \in 0 .. 0 |-> base], 0)
      OBVIOUS
    <2>2. QED
      BY <1>3, <1>4, <2>1
  <1>5. CASE m # 0
    <2>1. m - 1 \in Nat /\ m \in Nat /\ m - 1 \notin T
      BY <1>3, <1>5
    <2>2. PICK f : Solves(f, m - 1)
      BY <2>1
    <2> DEFINE g == [i \in 0 .. m |-> IF i < m THEN f[i] ELSE step[<<m, f[m - 1]>>]]
    <2>3. f[m - 1] \in S /\ step[<<m, f[m - 1]>>] \in S
      BY <2>1, <2>2
    <2>4. g \in [0 .. m -> S] /\ g[0] = base
      BY <1>5, <2>1, <2>2, <2>3
    <2>5. ASSUME NEW i \in 1 .. m PROVE g[i] = step[<<i, g[i - 1]>>]
      <3>1. g[i - 1] = f[i - 1]
        BY <2>1, <2>5
      <3>2. CASE i = m
        <4>1. g[m] = step[<<m, f[m - 1]>>]
          BY <2>1
        <4> HIDE DEF g
        <4>2. QED
          BY <3>1, <3>2, <4>1
      <3>3. CASE i # m
        <4>1. i \in 1 .. m - 1 /\ g[i] = f[i]
          BY <2>1, <2>5, <3>3
        <4>2. QED
          BY <2>2, <3>1, <4>1
      <3>4. QED
        BY <3>2, <3>3
    <2>6. Solves(g, m)
      BY <2>4, <2>5
    <2>7. QED
      BY <1>3, <2>6
  <1>6. QED
    BY <1>4, <1>5

-----------------------------------------------------------------------------
(* How often a value occurs in a sequence.                                   *)

Places(s, o) == {i \in DOMAIN s : s[i] = o}
Occ(s, o) == Cardinality(Places(s, o))
One(v, o) == IF v = o THEN 1 ELSE 0

LEMMA ValuesFacts == Addresses \subseteq Nat \ {0} /\ Scalar = 0 /\ Scalar \in Values /\ Scalar \notin Addresses
                     /\ Values \subseteq Nat /\ Addresses \subseteq Values
  BY HeapBounds DEF Scalar, Values

LEMMA OccType ==
  ASSUME NEW s \in Seq(Values), NEW o
  PROVE  Occ(s, o) \in Nat /\ IsFiniteSet(Places(s, o)) /\ One(o, o) = 1
  <1>1. IsFiniteSet(1 .. Len(s)) /\ Places(s, o) \in SUBSET (1 .. Len(s))
    BY FS_Interval DEF Places
  <1>2. IsFiniteSet(Places(s, o))
    BY <1>1, FS_Subset
  <1>3. QED
    BY <1>2, FS_CardinalityType DEF Occ, One

LEMMA OneType == \A v, o : One(v, o) \in {0, 1} /\ (One(v, o) = 1 <=> v = o)
  BY DEF One

LEMMA OccOne ==
  ASSUME NEW v \in Values, NEW o
  PROVE  Occ(<<v>>, o) = One(v, o) /\ Occ(<<>>, o) = 0
  <1>1. Places(<<>>, o) = {}
    BY DEF Places
  <1>2. CASE v = o
    <2>1. Places(<<v>>, o) = {1}
      BY <1>2 DEF Places
    <2>2. QED
      BY <1>1, <1>2, <2>1, FS_EmptySet, FS_Singleton DEF Occ, One
  <1>3. CASE v # o
    <2>1. Places(<<v>>, o) = {}
      BY <1>3 DEF Places
    <2>2. QED
      BY <1>1, <1>3, <2>1, FS_EmptySet DEF Occ, One
  <1>4. QED
    BY <1>2, <1>3

LEMMA OccConcat ==
  ASSUME NEW s \in Seq(Values), NEW t \in Seq(Values), NEW o
  PROVE  s \o t \in Seq(Values) /\ Occ(s \o t, o) = Occ(s, o) + Occ(t, o)
  <1> DEFINE n == Len(s)
             r == s \o t
             A == Places(s, o)
             B == Places(t, o)
             C == {i \in Places(r, o) : i > n}
             f == [i \in B |-> i + n]
  <1>1. n \in Nat /\ Len(t) \in Nat /\ s \in [1 .. n -> Values] /\ t \in [1 .. Len(t) -> Values]
    OBVIOUS
  <1>2. /\ r \in Seq(Values) /\ Len(r) = n + Len(t)
        /\ \A i \in 1 .. n + Len(t) : r[i] = IF i <= n THEN s[i] ELSE t[i - n]
    BY ConcatProperties
  <1>3. DOMAIN r = 1 .. n + Len(t) /\ DOMAIN s = 1 .. n /\ DOMAIN t = 1 .. Len(t)
    BY <1>1, <1>2
  <1> HIDE DEF n, r
  <1>4. Places(r, o) = A \cup C /\ A \cap C = {}
    BY <1>1, <1>2, <1>3 DEF Places
  <1>5. f \in Bijection(B, C)
    <2>1. f \in [B -> C]
      BY <1>1, <1>2, <1>3 DEF Places
    <2>2. \A i, j \in B : f[i] = f[j] => i = j
      BY <1>1, <1>3 DEF Places
    <2>3. ASSUME NEW k \in C PROVE \E i \in B : f[i] = k
      <3>1. k \in 1 .. n + Len(t) /\ k > n /\ r[k] = o
        BY <1>3 DEF Places
      <3>2. k - n \in 1 .. Len(t) /\ t[k - n] = o /\ k - n + n = k
        BY <1>1, <1>2, <3>1
      <3>3. k - n \in B
        BY <1>3, <3>2 DEF Places
      <3>4. f[k - n] = k
        BY <3>2, <3>3
      <3>5. QED
        BY <3>3, <3>4
    <2> HIDE DEF f, B, C
    <2>4. QED
      BY <2>1, <2>2, <2>3 DEF Bijection, Injection, Surjection, IsInjective
  <1>6. IsFiniteSet(A) /\ IsFiniteSet(B)
    BY OccType
  <1> HIDE DEF A, B, C, f
  <1>7. IsFiniteSet(C) /\ Cardinality(C) = Cardinality(B)
    BY <1>5, <1>6, FS_Bijection DEF ExistsBijection
  <1>8. Cardinality(A \cup C) = Cardinality(A) + Cardinality(C) - Cardinality(A \cap C)
    BY <1>6, <1>7, FS_Union
  <1>9. Cardinality(A \cap C) = 0 /\ Cardinality(A) \in Nat /\ Cardinality(C) \in Nat
    BY <1>4, <1>6, <1>7, FS_EmptySet, FS_CardinalityType
  <1>10. Occ(r, o) = Cardinality(A) + Cardinality(B)
    BY <1>4, <1>7, <1>8, <1>9 DEF Occ
  <1>11. QED
    BY <1>2, <1>10 DEF Occ, A, B, r

LEMMA OccPositive ==
  ASSUME NEW s \in Seq(Values), NEW o
  PROVE  /\ \A i \in DOMAIN s : s[i] = o => Occ(s, o) >= 1
         /\ Occ(s, o) > 0 => \E i \in DOMAIN s : s[i] = o
  <1>1. IsFiniteSet(Places(s, o)) /\ Occ(s, o) \in Nat
    BY OccType
  <1>2. Occ(s, o) = 0 <=> Places(s, o) = {}
    BY <1>1, FS_EmptySet DEF Occ
  <1>3. QED
    BY <1>1, <1>2 DEF Places

(* A sequence cut after its first k elements. *)
LEMMA Cut ==
  ASSUME NEW S, NEW s \in Seq(S), NEW k \in 0 .. Len(s)
  PROVE  /\ SubSeq(s, 1, k) \in Seq(S) /\ Len(SubSeq(s, 1, k)) = k
         /\ SubSeq(s, k + 1, Len(s)) \in Seq(S) /\ Len(SubSeq(s, k + 1, Len(s))) = Len(s) - k
         /\ s = SubSeq(s, 1, k) \o SubSeq(s, k + 1, Len(s))
  <1> DEFINE n == Len(s)
             a == SubSeq(s, 1, k)
             b == SubSeq(s, k + 1, n)
  <1>1. n \in Nat /\ k \in Int /\ 0 <= k /\ k <= n
    OBVIOUS
  <1>2. /\ a \in Seq(S) /\ Len(a) = k /\ \A i \in 1 .. k : a[i] = s[i]
    OBVIOUS
  <1>3. b \in Seq(S) /\ Len(b) = n - k /\ \A i \in 1 .. n - k : b[i] = s[k + i]
    <2>1. \A i \in 1 .. n - k : k + 1 + i - 1 = k + i
      BY <1>1
    <2>2. QED
      BY <1>1, <2>1
  <1> HIDE DEF a, b
  <1>4. /\ a \o b \in Seq(S) /\ Len(a \o b) = n
        /\ \A i \in 1 .. n : (a \o b)[i] = IF i <= k THEN a[i] ELSE b[i - k]
    <2>1. k + (n - k) = n
      BY <1>1
    <2>2. QED
      BY <1>2, <1>3, <2>1, ConcatProperties
  <1>5. ASSUME NEW i \in 1 .. n PROVE (a \o b)[i] = s[i]
    <2>1. CASE i <= k
      BY <1>1, <1>2, <1>4, <2>1
    <2>2. CASE ~(i <= k)
      <3>1. i - k \in 1 .. n - k /\ k + (i - k) = i
        BY <1>1, <2>2
      <3>2. QED
        BY <1>3, <1>4, <2>2, <3>1
    <2>3. QED
      BY <2>1, <2>2
  <1>6. s = a \o b
    BY <1>4, <1>5, SeqEqual
  <1>7. QED
    BY <1>2, <1>3, <1>6 DEF a, b

LEMMA OccCut ==
  ASSUME NEW s \in Seq(Values), NEW k \in 0 .. Len(s), NEW o
  PROVE  /\ SubSeq(s, 1, k) \in Seq(Values) /\ SubSeq(s, k + 1, Len(s)) \in Seq(Values)
         /\ Occ(s, o) = Occ(SubSeq(s, 1, k), o) + Occ(SubSeq(s, k + 1, Len(s)), o)
  <1> DEFINE a == SubSeq(s, 1, k)
             b == SubSeq(s, k + 1, Len(s))
  <1>1. a \in Seq(Values) /\ b \in Seq(Values) /\ s = a \o b
    BY Cut
  <1> HIDE DEF a, b
  <1>2. Occ(a \o b, o) = Occ(a, o) + Occ(b, o)
    BY <1>1, OccConcat
  <1>3. QED
    BY <1>1, <1>2 DEF a, b

LEMMA OccTail ==
  ASSUME NEW s \in Seq(Values), s # <<>>, NEW o
  PROVE  /\ Head(s) \in Values /\ Tail(s) \in Seq(Values)
         /\ Occ(s, o) = One(Head(s), o) + Occ(Tail(s), o)
  <1> DEFINE a == <<Head(s)>>
             b == Tail(s)
  <1>1. Head(s) \in Values /\ a \in Seq(Values) /\ b \in Seq(Values) /\ s = a \o b
    <2>1. Head(s) \in Values /\ b \in Seq(Values)
      OBVIOUS
    <2>2. a \in Seq(Values)
      BY <2>1
    <2>3. s = a \o b
      OBVIOUS
    <2>4. QED
      BY <2>1, <2>2, <2>3
  <1>2. Occ(a, o) = One(Head(s), o)
    BY <1>1, OccOne
  <1> HIDE DEF a, b
  <1>3. Occ(a \o b, o) = Occ(a, o) + Occ(b, o)
    BY <1>1, OccConcat
  <1>4. QED
    BY <1>1, <1>2, <1>3 DEF b

LEMMA OccAppend ==
  ASSUME NEW s \in Seq(Values), NEW v \in Values, NEW o
  PROVE  Append(s, v) \in Seq(Values) /\ Occ(Append(s, v), o) = Occ(s, o) + One(v, o)
  <1> DEFINE b == <<v>>
  <1>1. b \in Seq(Values) /\ Append(s, v) = s \o b /\ Append(s, v) \in Seq(Values)
    OBVIOUS
  <1>2. Occ(b, o) = One(v, o)
    BY OccOne
  <1> HIDE DEF b
  <1>3. Occ(s \o b, o) = Occ(s, o) + Occ(b, o)
    BY <1>1, OccConcat
  <1>4. QED
    BY <1>1, <1>2, <1>3

LEMMA OccReplace ==
  ASSUME NEW s \in Seq(Values), NEW i \in DOMAIN s, NEW v \in Values, NEW o
  PROVE  /\ [s EXCEPT ![i] = v] \in Seq(Values) /\ s[i] \in Values
         /\ Occ([s EXCEPT ![i] = v], o) + One(s[i], o) = Occ(s, o) + One(v, o)
  <1> DEFINE t == [s EXCEPT ![i] = v]
             A == Places(s, o)
             B == Places(t, o)
  <1>1. t \in Seq(Values) /\ DOMAIN t = DOMAIN s /\ s[i] \in Values
    OBVIOUS
  <1>2. t[i] = v /\ \A j \in DOMAIN s : j # i => t[j] = s[j]
    OBVIOUS
  <1> HIDE DEF t
  <1>3. A \ {i} = B \ {i}
    BY <1>1, <1>2 DEF Places
  <1>4. (i \in A <=> s[i] = o) /\ (i \in B <=> v = o)
    BY <1>1, <1>2 DEF Places
  <1>5. IsFiniteSet(A) /\ IsFiniteSet(B) /\ Occ(s, o) \in Nat /\ Occ(t, o) \in Nat
    BY <1>1, OccType
  <1> HIDE DEF A, B
  <1>6. Cardinality(A \ {i}) = IF i \in A THEN Cardinality(A) - 1 ELSE Cardinality(A)
    BY <1>5, FS_RemoveElement
  <1>7. Cardinality(B \ {i}) = IF i \in B THEN Cardinality(B) - 1 ELSE Cardinality(B)
    BY <1>5, FS_RemoveElement
  <1>8. Cardinality(A \ {i}) = Cardinality(B \ {i})
    BY <1>3
  <1>9. Cardinality(A) = Occ(s, o) /\ Cardinality(B) = Occ(t, o)
    BY DEF Occ, A, B
  <1>10. Cardinality(A) - One(s[i], o) = Cardinality(B) - One(v, o)
    BY <1>4, <1>5, <1>6, <1>7, <1>8, <1>9 DEF One
  <1>11. Occ(t, o) + One(s[i], o) = Occ(s, o) + One(v, o)
    BY <1>5, <1>9, <1>10, OneType
  <1>12. QED
    BY <1>1, <1>11 DEF t

LEMMA RemoveFacts ==
  ASSUME NEW S, NEW s \in Seq(S), NEW i \in DOMAIN s
  PROVE  /\ RemoveAt(s, i) \in Seq(S) /\ Len(RemoveAt(s, i)) = Len(s) - 1
         /\ RemoveAt(s, i) = SubSeq(s, 1, i - 1) \o SubSeq(s, i + 1, Len(s))
         /\ SubSeq(s, 1, i - 1) \in Seq(S) /\ SubSeq(s, i + 1, Len(s)) \in Seq(S)
  <1> DEFINE a == SubSeq(s, 1, i - 1)
             b == SubSeq(s, i + 1, Len(s))
  <1>1. Len(s) \in Nat /\ i \in 1 .. Len(s) /\ i - 1 \in 0 .. Len(s) /\ i \in 0 .. Len(s)
    OBVIOUS
  <1>2. a \in Seq(S) /\ Len(a) = i - 1
    BY <1>1, Cut
  <1>3. b \in Seq(S) /\ Len(b) = Len(s) - i
    BY <1>1, Cut
  <1> HIDE DEF a, b
  <1>4. a \o b \in Seq(S) /\ Len(a \o b) = Len(a) + Len(b)
    BY <1>2, <1>3, ConcatProperties
  <1>5. Len(a) + Len(b) = Len(s) - 1
    BY <1>1, <1>2, <1>3
  <1>6. RemoveAt(s, i) = a \o b
    BY DEF RemoveAt, a, b
  <1>7. QED
    BY <1>2, <1>3, <1>4, <1>5, <1>6 DEF a, b

LEMMA OccRemove ==
  ASSUME NEW s \in Seq(Values), NEW i \in DOMAIN s, NEW o
  PROVE  Occ(RemoveAt(s, i), o) + One(s[i], o) = Occ(s, o)
  <1> DEFINE a == SubSeq(s, 1, i - 1)
             r == SubSeq(s, i, Len(s))
             b == SubSeq(s, i + 1, Len(s))
  <1>1. Len(s) \in Nat /\ i \in 1 .. Len(s) /\ i - 1 \in 0 .. Len(s) /\ i \in 0 .. Len(s) /\ i - 1 + 1 = i
    OBVIOUS
  <1>2. a \in Seq(Values) /\ r \in Seq(Values) /\ Occ(s, o) = Occ(a, o) + Occ(r, o)
    <2> DEFINE k == i - 1
    <2>1. k \in 0 .. Len(s) /\ k + 1 = i
      BY <1>1
    <2> HIDE DEF k
    <2>2. /\ SubSeq(s, 1, k) \in Seq(Values) /\ SubSeq(s, k + 1, Len(s)) \in Seq(Values)
          /\ Occ(s, o) = Occ(SubSeq(s, 1, k), o) + Occ(SubSeq(s, k + 1, Len(s)), o)
      BY <2>1, OccCut
    <2>3. QED
      BY <2>1, <2>2 DEF k
  <1>3. r # <<>> /\ Head(r) = s[i] /\ Tail(r) = b
    <2>1. i \in 1 .. Len(s) /\ Len(s) \in i .. Len(s)
      BY <1>1
    <2>2. Head(r) = s[i] /\ Tail(r) = b
      BY <2>1, HeadTailOfSubSeq
    <2>3. r = <<s[i]>> \o b
      BY <2>1, SubSeqRecursiveFirst
    <2>4. b \in Seq(Values) /\ <<s[i]>> \in Seq(Values) /\ Len(<<s[i]>>) = 1
      BY <1>1, Cut
    <2> HIDE DEF b
    <2>5. Len(<<s[i]>> \o b) >= 1
      BY <2>4, ConcatProperties
    <2>6. r # <<>>
      BY <1>2, <2>3, <2>5
    <2>7. QED
      BY <2>2, <2>6
  <1>4. b \in Seq(Values) /\ RemoveAt(s, i) = a \o b
    BY RemoveFacts
  <1> HIDE DEF a, r, b
  <1>5. Occ(r, o) = One(s[i], o) + Occ(b, o)
    BY <1>2, <1>3, OccTail
  <1>6. Occ(a \o b, o) = Occ(a, o) + Occ(b, o)
    BY <1>2, <1>4, OccConcat
  <1>7. Occ(a, o) \in Nat /\ Occ(b, o) \in Nat /\ One(s[i], o) \in {0, 1}
    BY <1>2, <1>4, OccType, OneType
  <1>8. QED
    BY <1>2, <1>4, <1>5, <1>6, <1>7

-----------------------------------------------------------------------------
(* Heaps, and the slots that refer to a container.  The slots of the pinned  *)
(* containers P are left out: an instruction that changes a container's      *)
(* slots accounts for them as for references of its own.                     *)

Objects == [type : {"array", "map", "row"}, keys : Seq(Keys), slots : Seq(Values), count : Int]

IsObject(b) ==
    /\ b \in Objects
    /\ Len(b.slots) <= MaxSlots
    /\ b.type # "array" => Len(b.keys) = Len(b.slots)

IsTable(obj) ==
    /\ obj = [o \in DOMAIN obj |-> obj[o]]
    /\ DOMAIN obj \subseteq Addresses
    /\ \A o \in DOMAIN obj : IsObject(obj[o])

Listed(registry, S) ==
    /\ registry \in Seq(S)
    /\ \A i, j \in DOMAIN registry : i # j => registry[i] # registry[j]
    /\ \A o \in S : \E i \in DOMAIN registry : registry[i] = o

IsHeap(h) ==
    /\ h = [obj |-> h.obj, registry |-> h.registry, allocations |-> h.allocations]
    /\ IsTable(h.obj)
    /\ Listed(h.registry, DOMAIN h.obj)
    /\ h.allocations \in Int

SlotsIn(obj, P, o) ==
    {e \in (DOMAIN obj) \X (1 .. MaxSlots) :
       e[1] \notin P /\ e[2] \in DOMAIN obj[e[1]].slots /\ obj[e[1]].slots[e[2]] = o}

LEMMA SlotsAreFinite ==
  ASSUME NEW obj, IsTable(obj), NEW P, NEW o
  PROVE  IsFiniteSet(SlotsIn(obj, P, o)) /\ Cardinality(SlotsIn(obj, P, o)) \in Nat
  <1>1. IsFiniteSet(DOMAIN obj)
    BY HeapBounds, FS_Subset DEF IsTable
  <1>2. IsFiniteSet(1 .. MaxSlots)
    BY HeapBounds, FS_Interval
  <1>3. IsFiniteSet((DOMAIN obj) \X (1 .. MaxSlots))
    BY <1>1, <1>2, FS_Product
  <1>4. SlotsIn(obj, P, o) \in SUBSET ((DOMAIN obj) \X (1 .. MaxSlots))
    BY DEF SlotsIn
  <1>5. IsFiniteSet(SlotsIn(obj, P, o))
    BY <1>3, <1>4, FS_Subset
  <1>6. QED
    BY <1>5, FS_CardinalityType

LEMMA ObjectFacts ==
  ASSUME NEW obj, IsTable(obj), NEW x \in DOMAIN obj
  PROVE  /\ x \in Addresses /\ x # Scalar
         /\ obj[x].slots \in Seq(Values) /\ DOMAIN obj[x].slots = 1 .. Len(obj[x].slots)
         /\ DOMAIN obj[x].slots \subseteq 1 .. MaxSlots /\ DOMAIN obj[x].slots \subseteq Nat
         /\ obj[x].keys \in Seq(Keys) /\ obj[x].count \in Int
         /\ obj[x].type # "array" => DOMAIN obj[x].keys = DOMAIN obj[x].slots
         /\ obj[x].type \in {"array", "map", "row"}
  <1>1. /\ obj[x].slots \in Seq(Values) /\ obj[x].keys \in Seq(Keys) /\ obj[x].count \in Int
        /\ Len(obj[x].slots) <= MaxSlots
        /\ obj[x].type # "array" => Len(obj[x].keys) = Len(obj[x].slots)
        /\ obj[x].type \in {"array", "map", "row"}
    BY DEF IsTable, IsObject, Objects
  <1>2. DOMAIN obj[x].slots = 1 .. Len(obj[x].slots) /\ DOMAIN obj[x].keys = 1 .. Len(obj[x].keys)
        /\ Len(obj[x].slots) \in Nat /\ Len(obj[x].keys) \in Nat
    BY <1>1
  <1>3. DOMAIN obj[x].slots \subseteq 1 .. MaxSlots
    <2>1. MaxSlots \in Nat
      BY HeapBounds
    <2> DEFINE n == Len(obj[x].slots)
    <2>2. n \in Nat /\ n <= MaxSlots
      BY <1>1, <1>2
    <2> HIDE DEF n
    <2>3. 1 .. n \subseteq 1 .. MaxSlots
      BY <2>1, <2>2
    <2>4. QED
      BY <1>2, <2>3 DEF n
  <1>4. x \in Addresses /\ x # Scalar
    <2>1. x \in Addresses
      BY DEF IsTable
    <2>2. QED
      BY <2>1, ValuesFacts
  <1>5. QED
    BY <1>1, <1>2, <1>3, <1>4

LEMMA SlotCounts ==
  ASSUME NEW obj, IsTable(obj), NEW P, NEW x \in DOMAIN obj \ P, NEW j \in DOMAIN obj[x].slots
  PROVE  Cardinality(SlotsIn(obj, P, obj[x].slots[j])) >= 1
  <1> DEFINE A == SlotsIn(obj, P, obj[x].slots[j])
             e == <<x, j>>
  <1>1. e \in (DOMAIN obj) \X (1 .. MaxSlots) /\ e[1] = x /\ e[2] = j
    <2>1. j \in 1 .. MaxSlots
      BY ObjectFacts
    <2>2. QED
      BY <2>1
  <1> HIDE DEF e
  <1>2. e \in A
    BY <1>1 DEF SlotsIn
  <1> HIDE DEF A
  <1>3. IsFiniteSet(A) /\ Cardinality(A) \in Nat
    BY SlotsAreFinite DEF A
  <1>4. Cardinality(A) # 0
    BY <1>2, <1>3, FS_EmptySet
  <1>5. QED
    BY <1>3, <1>4 DEF A

LEMMA SlotsSame ==
  ASSUME NEW obj, NEW obj2, NEW P, NEW P2, NEW o,
         \A x : x \in DOMAIN obj \ P <=> x \in DOMAIN obj2 \ P2,
         \A x \in DOMAIN obj \ P : obj2[x].slots = obj[x].slots
  PROVE  SlotsIn(obj2, P2, o) = SlotsIn(obj, P, o)
  <1>1. ASSUME NEW e PROVE e \in SlotsIn(obj2, P2, o) => e \in SlotsIn(obj, P, o)
    BY DEF SlotsIn
  <1>2. ASSUME NEW e PROVE e \in SlotsIn(obj, P, o) => e \in SlotsIn(obj2, P2, o)
    BY DEF SlotsIn
  <1>3. QED
    BY <1>1, <1>2

(* The slots by container: those of v and those of the others. *)
LEMMA SlotsPart ==
  ASSUME NEW obj, IsTable(obj), NEW P, NEW v \in DOMAIN obj \ P, NEW o
  PROVE  Cardinality(SlotsIn(obj, P, o))
           = Cardinality(SlotsIn(obj, P \cup {v}, o)) + Occ(obj[v].slots, o)
  <1> DEFINE s == obj[v].slots
             A == SlotsIn(obj, P, o)
             B == SlotsIn(obj, P \cup {v}, o)
             C == {e \in A : e[1] = v}
             D == Places(s, o)
             f == [i \in D |-> <<v, i>>]
  <1>1. s \in Seq(Values) /\ DOMAIN s \subseteq 1 .. MaxSlots
    BY ObjectFacts
  <1>2. A = B \cup C /\ B \cap C = {}
    BY DEF SlotsIn
  <1>3. f \in Bijection(D, C)
    <2>1. ASSUME NEW i \in D PROVE <<v, i>> \in C
      <3>1. i \in DOMAIN s /\ s[i] = o
        BY DEF Places
      <3>2. <<v, i>> \in (DOMAIN obj) \X (1 .. MaxSlots)
        BY <1>1, <3>1
      <3>3. <<v, i>> \in A
        BY <3>1, <3>2 DEF SlotsIn
      <3>4. QED
        BY <3>3
    <2>2. ASSUME NEW e \in C PROVE e[2] \in D /\ e = <<v, e[2]>>
      <3>1. e \in (DOMAIN obj) \X (1 .. MaxSlots) /\ e[1] = v /\ e[2] \in DOMAIN s /\ s[e[2]] = o
        BY DEF SlotsIn
      <3>2. e[2] \in D
        BY <3>1 DEF Places
      <3>3. QED
        BY <3>1, <3>2
    <2> HIDE DEF C, D
    <2>3. f \in [D -> C] /\ \A i, j \in D : f[i] = f[j] => i = j
      BY <2>1
    <2>4. \A e \in C : \E i \in D : f[i] = e
      BY <2>2
    <2> HIDE DEF f
    <2>5. QED
      BY <2>3, <2>4 DEF Bijection, Injection, Surjection, IsInjective
  <1>4. IsFiniteSet(D) /\ IsFiniteSet(B)
    BY <1>1, OccType, SlotsAreFinite
  <1>5. Occ(s, o) = Cardinality(D)
    BY DEF Occ
  <1> HIDE DEF A, B, C, D, f, s
  <1>6. IsFiniteSet(C) /\ Cardinality(C) = Cardinality(D)
    BY <1>3, <1>4, FS_Bijection DEF ExistsBijection
  <1>7. Cardinality(B \cup C) = Cardinality(B) + Cardinality(C) - Cardinality(B \cap C)
    BY <1>4, <1>6, FS_Union
  <1>8. Cardinality(B \cap C) = 0 /\ Cardinality(B) \in Nat /\ Cardinality(C) \in Nat
    BY <1>2, <1>4, <1>6, FS_EmptySet, FS_CardinalityType
  <1>9. Cardinality(A) = Cardinality(B) + Occ(s, o)
    BY <1>2, <1>5, <1>6, <1>7, <1>8
  <1>10. QED
    BY <1>9 DEF A, B, s

-----------------------------------------------------------------------------
(* Every reference leads to a live container, which counts it: ext has how   *)
(* often a container is referred to from elsewhere than the slots.           *)

Grounded(obj, P) ==
    \A x \in DOMAIN obj \ P : \A j \in DOMAIN obj[x].slots :
        obj[x].slots[j] \in DOMAIN obj \cup {Scalar}

Counted(obj, P, ext) ==
    \A o \in DOMAIN obj : obj[o].count >= ext[o] + Cardinality(SlotsIn(obj, P, o))

Tallies == [Addresses -> Nat]

Covers(h, P, ext) ==
    /\ IsHeap(h)
    /\ P \subseteq DOMAIN h.obj
    /\ ext \in Tallies
    /\ \A p \in P : ext[p] > 0
    /\ \A o \in Addresses : ext[o] > 0 => o \in DOMAIN h.obj
    /\ Grounded(h.obj, P)
    /\ Counted(h.obj, P, ext)

\* The containers of h2 are those of h, or some of them; counts may differ.
Kept(h, h2) ==
    \A x \in DOMAIN h2.obj :
        /\ x \in DOMAIN h.obj
        /\ h2.obj[x].slots = h.obj[x].slots
        /\ h2.obj[x].keys = h.obj[x].keys
        /\ h2.obj[x].type = h.obj[x].type

LEMMA KeptFacts ==
  /\ \A h : Kept(h, h)
  /\ \A h, h2, h3 : Kept(h, h2) /\ Kept(h2, h3) => Kept(h, h3)
  BY DEF Kept

LEMMA Recount ==
  ASSUME NEW h, NEW P, NEW ext, Covers(h, P, ext), NEW h2, IsHeap(h2), Kept(h, h2),
         DOMAIN h2.obj = DOMAIN h.obj, NEW ext2 \in Tallies,
         \A p \in P : ext2[p] > 0,
         \A o \in Addresses : ext2[o] > 0 => o \in DOMAIN h.obj,
         \A o \in DOMAIN h.obj : h2.obj[o].count - ext2[o] >= h.obj[o].count - ext[o]
  PROVE  Covers(h2, P, ext2)
  <1>1. IsTable(h.obj) /\ IsTable(h2.obj) /\ ext \in Tallies
    BY DEF Covers, IsHeap
  <1>2. \A x \in DOMAIN h.obj : h2.obj[x].slots = h.obj[x].slots
    BY DEF Kept
  <1>3. Grounded(h2.obj, P)
    BY <1>2 DEF Grounded, Covers
  <1>4. ASSUME NEW o \in DOMAIN h.obj
        PROVE  h2.obj[o].count >= ext2[o] + Cardinality(SlotsIn(h2.obj, P, o))
    <2> DEFINE n == Cardinality(SlotsIn(h.obj, P, o))
               c == h.obj[o].count
               c2 == h2.obj[o].count
               e == ext[o]
               e2 == ext2[o]
    <2>1. SlotsIn(h2.obj, P, o) = SlotsIn(h.obj, P, o)
      BY <1>2, SlotsSame
    <2>2. n \in Nat
      BY <1>1, SlotsAreFinite
    <2>3. c \in Int /\ c2 \in Int /\ o \in Addresses
      BY <1>1, ObjectFacts
    <2>4. e \in Nat /\ e2 \in Nat
      BY <1>1, <2>3 DEF Tallies
    <2>5. c >= e + n /\ c2 - e2 >= c - e
      BY DEF Covers, Counted
    <2>6. Cardinality(SlotsIn(h2.obj, P, o)) = n
      BY <2>1
    <2> HIDE DEF n, c, c2, e, e2
    <2>7. c2 >= e2 + n
      BY <2>2, <2>3, <2>4, <2>5
    <2>8. QED
      BY <2>6, <2>7 DEF c2, e2
  <1>5. Counted(h2.obj, P, ext2)
    BY <1>4 DEF Counted
  <1>6. QED
    BY <1>3, <1>5 DEF Covers

LEMMA Weaken ==
  ASSUME NEW h, NEW P, NEW ext, Covers(h, P, ext), NEW ext2 \in Tallies,
         \A p \in P : ext2[p] > 0, \A o \in Addresses : ext2[o] <= ext[o]
  PROVE  Covers(h, P, ext2)
  <1>1. IsHeap(h) /\ ext \in Tallies /\ IsTable(h.obj)
    BY DEF Covers, IsHeap
  <1>2. ASSUME NEW o \in Addresses, ext2[o] > 0 PROVE o \in DOMAIN h.obj
    <2>1. ext[o] \in Nat /\ ext2[o] \in Nat /\ ext2[o] <= ext[o]
      BY <1>1 DEF Tallies
    <2>2. ext[o] > 0
      BY <1>2, <2>1
    <2>3. QED
      BY <2>2 DEF Covers
  <1>3. ASSUME NEW o \in DOMAIN h.obj PROVE h.obj[o].count - ext2[o] >= h.obj[o].count - ext[o]
    <2>1. o \in Addresses /\ h.obj[o].count \in Int
      BY <1>1, ObjectFacts
    <2>2. ext[o] \in Nat /\ ext2[o] \in Nat /\ ext2[o] <= ext[o]
      BY <1>1, <2>1 DEF Tallies
    <2>3. QED
      BY <2>1, <2>2
  <1>4. QED
    BY <1>1, <1>2, <1>3, KeptFacts, Recount

-----------------------------------------------------------------------------
(* Counting up.                                                              *)

LEMMA NewCounts ==
  ASSUME NEW h, IsHeap(h), NEW c \in [DOMAIN h.obj -> Int], NEW h2,
         h2 = [h EXCEPT !.obj = [o \in DOMAIN h.obj |-> [h.obj[o] EXCEPT !.count = c[o]]]]
  PROVE  /\ IsHeap(h2) /\ Kept(h, h2) /\ DOMAIN h2.obj = DOMAIN h.obj
         /\ \A o \in DOMAIN h.obj : h2.obj[o].count = c[o]
         /\ h2.registry = h.registry
  <1> DEFINE t == [o \in DOMAIN h.obj |-> [h.obj[o] EXCEPT !.count = c[o]]]
  <1>1. h2.obj = t /\ h2.registry = h.registry /\ h2.allocations = h.allocations
        /\ h2 = [obj |-> h2.obj, registry |-> h2.registry, allocations |-> h2.allocations]
    BY DEF IsHeap
  <1>2. DOMAIN t = DOMAIN h.obj /\ t = [o \in DOMAIN t |-> t[o]]
    OBVIOUS
  <1>3. ASSUME NEW o \in DOMAIN h.obj
        PROVE  /\ IsObject(t[o]) /\ t[o].count = c[o] /\ t[o].slots = h.obj[o].slots
               /\ t[o].keys = h.obj[o].keys /\ t[o].type = h.obj[o].type
    <2>1. IsObject(h.obj[o]) /\ t[o] = [h.obj[o] EXCEPT !.count = c[o]] /\ c[o] \in Int
      BY DEF IsHeap, IsTable
    <2> HIDE DEF t
    <2>2. QED
      BY <2>1 DEF IsObject, Objects
  <1> HIDE DEF t
  <1>4. IsTable(t)
    BY <1>2, <1>3 DEF IsTable, IsHeap
  <1>5. QED
    BY <1>1, <1>2, <1>3, <1>4 DEF IsHeap, Kept

LEMMA RetainAllFacts ==
  ASSUME NEW h, IsHeap(h), NEW vs \in Seq(Values)
  PROVE  /\ IsHeap(RetainAll(h, vs)) /\ Kept(h, RetainAll(h, vs))
         /\ DOMAIN RetainAll(h, vs).obj = DOMAIN h.obj
         /\ \A o \in DOMAIN h.obj : RetainAll(h, vs).obj[o].count = h.obj[o].count + Occ(vs, o)
         /\ RetainAll(h, vs).registry = h.registry
  <1> DEFINE c == [o \in DOMAIN h.obj |-> h.obj[o].count + Occ(vs, o)]
             h2 == [h EXCEPT !.obj = [o \in DOMAIN h.obj |-> [h.obj[o] EXCEPT !.count = c[o]]]]
  <1>1. ASSUME NEW o \in DOMAIN h.obj PROVE h.obj[o].count + Occ(vs, o) \in Int
    <2>1. h.obj[o].count \in Int
      BY ObjectFacts DEF IsHeap
    <2>2. Occ(vs, o) \in Nat
      BY OccType
    <2>3. QED
      BY <2>1, <2>2
  <1>2. c \in [DOMAIN h.obj -> Int]
    BY <1>1
  <1>3. RetainAll(h, vs) = h2
    <2> DEFINE F == [o \in DOMAIN h.obj |->
                       [h.obj[o] EXCEPT !.count = h.obj[o].count + Cardinality({i \in DOMAIN vs : vs[i] = o})]]
               G == [o \in DOMAIN h.obj |-> [h.obj[o] EXCEPT !.count = c[o]]]
    <2>1. \A o \in DOMAIN h.obj :
             [h.obj[o] EXCEPT !.count = h.obj[o].count + Cardinality({i \in DOMAIN vs : vs[i] = o})]
               = [h.obj[o] EXCEPT !.count = c[o]]
      BY DEF Occ, Places
    <2>2. F = G
      BY <2>1
    <2>3. RetainAll(h, vs) = [h EXCEPT !.obj = F] /\ h2 = [h EXCEPT !.obj = G]
      BY DEF RetainAll
    <2> HIDE DEF F, G, h2
    <2>4. QED
      BY <2>2, <2>3
  <1>4. \A o \in DOMAIN h.obj : c[o] = h.obj[o].count + Occ(vs, o)
    OBVIOUS
  <1> HIDE DEF c
  <1>5. /\ IsHeap(h2) /\ Kept(h, h2) /\ DOMAIN h2.obj = DOMAIN h.obj
        /\ \A o \in DOMAIN h.obj : h2.obj[o].count = c[o]
        /\ h2.registry = h.registry
    BY <1>2, NewCounts
  <1> HIDE DEF h2
  <1>6. QED
    BY <1>3, <1>4, <1>5

LEMMA CountAt ==
  ASSUME NEW h, IsHeap(h), NEW v \in DOMAIN h.obj, NEW n \in Int, NEW h2,
         h2 = [h EXCEPT !.obj[v].count = n]
  PROVE  /\ IsHeap(h2) /\ Kept(h, h2) /\ DOMAIN h2.obj = DOMAIN h.obj
         /\ h2.obj[v].count = n
         /\ \A o \in DOMAIN h.obj : o # v => h2.obj[o].count = h.obj[o].count
         /\ h2.registry = h.registry
  <1> DEFINE t == [h.obj EXCEPT ![v].count = n]
  <1>1. h2.obj = t /\ h2.registry = h.registry /\ h2.allocations = h.allocations
        /\ h2 = [obj |-> h2.obj, registry |-> h2.registry, allocations |-> h2.allocations]
    BY DEF IsHeap
  <1>2. DOMAIN t = DOMAIN h.obj /\ t = [o \in DOMAIN t |-> t[o]]
    BY DEF IsHeap, IsTable
  <1>3. t[v] = [h.obj[v] EXCEPT !.count = n] /\ \A o \in DOMAIN h.obj : o # v => t[o] = h.obj[o]
    BY DEF IsHeap, IsTable
  <1> HIDE DEF t
  <1>4. ASSUME NEW o \in DOMAIN h.obj
        PROVE  /\ IsObject(t[o]) /\ t[o].slots = h.obj[o].slots
               /\ t[o].keys = h.obj[o].keys /\ t[o].type = h.obj[o].type
               /\ t[o].count = IF o = v THEN n ELSE h.obj[o].count
    <2>1. IsObject(h.obj[o])
      BY DEF IsHeap, IsTable
    <2>2. CASE o = v
      BY <1>3, <2>1, <2>2 DEF IsObject, Objects
    <2>3. CASE o # v
      BY <1>3, <2>1, <2>3
    <2>4. QED
      BY <2>2, <2>3
  <1>5. IsTable(t)
    BY <1>2, <1>4 DEF IsTable, IsHeap
  <1>6. QED
    BY <1>1, <1>2, <1>4, <1>5 DEF IsHeap, Kept

LEMMA RetainFacts ==
  ASSUME NEW h, IsHeap(h), NEW v \in DOMAIN h.obj \cup {Scalar}
  PROVE  /\ IsHeap(value_retain(h, v)) /\ Kept(h, value_retain(h, v))
         /\ DOMAIN value_retain(h, v).obj = DOMAIN h.obj
         /\ \A o \in DOMAIN h.obj : value_retain(h, v).obj[o].count = h.obj[o].count + One(v, o)
         /\ value_retain(h, v).registry = h.registry
  <1>1. Scalar \notin DOMAIN h.obj /\ \A o \in DOMAIN h.obj : h.obj[o].count \in Int
    BY ObjectFacts DEF IsHeap
  <1>2. CASE v = Scalar
    <2>1. value_retain(h, v) = h
      BY <1>2 DEF value_retain
    <2>2. \A o \in DOMAIN h.obj : h.obj[o].count = h.obj[o].count + One(v, o)
      BY <1>1, <1>2 DEF One
    <2>3. QED
      BY <2>1, <2>2, KeptFacts
  <1>3. CASE v # Scalar
    <2> DEFINE n == h.obj[v].count + 1
               h2 == [h EXCEPT !.obj[v].count = n]
    <2>1. v \in DOMAIN h.obj /\ n \in Int
      BY <1>1, <1>3
    <2>2. value_retain(h, v) = h2
      BY <1>3 DEF value_retain
    <2>3. \A o \in DOMAIN h.obj : h.obj[o].count + One(v, o) = IF o = v THEN n ELSE h.obj[o].count
      BY <1>1 DEF One
    <2> HIDE DEF n
    <2>4. /\ IsHeap(h2) /\ Kept(h, h2) /\ DOMAIN h2.obj = DOMAIN h.obj
          /\ h2.obj[v].count = n
          /\ \A o \in DOMAIN h.obj : o # v => h2.obj[o].count = h.obj[o].count
          /\ h2.registry = h.registry
      BY <2>1, CountAt
    <2> HIDE DEF h2
    <2>5. QED
      BY <2>2, <2>3, <2>4
  <1>4. QED
    BY <1>2, <1>3

(* An instruction that counts vs has references to all of vs. *)
LEMMA RetainAllCovers ==
  ASSUME NEW h, NEW P, NEW ext, Covers(h, P, ext), NEW vs \in Seq(Values),
         \A i \in DOMAIN vs : vs[i] \in DOMAIN h.obj \cup {Scalar},
         NEW ext2 \in Tallies, \A o \in Addresses : ext2[o] = ext[o] + Occ(vs, o)
  PROVE  Covers(RetainAll(h, vs), P, ext2) /\ Kept(h, RetainAll(h, vs))
         /\ DOMAIN RetainAll(h, vs).obj = DOMAIN h.obj
  <1> DEFINE h2 == RetainAll(h, vs)
  <1>1. IsHeap(h) /\ ext \in Tallies /\ P \subseteq DOMAIN h.obj /\ DOMAIN h.obj \subseteq Addresses
    BY DEF Covers, IsHeap, IsTable
  <1>2. /\ IsHeap(h2) /\ Kept(h, h2) /\ DOMAIN h2.obj = DOMAIN h.obj
        /\ \A o \in DOMAIN h.obj : h2.obj[o].count = h.obj[o].count + Occ(vs, o)
    BY <1>1, RetainAllFacts
  <1>3. \A o \in Addresses : Occ(vs, o) \in Nat /\ ext[o] \in Nat /\ ext2[o] \in Nat
    BY <1>1, OccType DEF Tallies
  <1>4. ASSUME NEW p \in P PROVE ext2[p] > 0
    <2>1. ext[p] > 0 /\ p \in Addresses
      BY <1>1 DEF Covers
    <2>2. QED
      BY <1>3, <2>1
  <1>5. ASSUME NEW o \in Addresses, ext2[o] > 0 PROVE o \in DOMAIN h.obj
    <2>1. CASE ext[o] > 0
      BY <2>1 DEF Covers
    <2>2. CASE ~(ext[o] > 0)
      <3>1. Occ(vs, o) > 0
        BY <1>3, <1>5, <2>2
      <3>2. PICK i \in DOMAIN vs : vs[i] = o
        BY <3>1, OccPositive
      <3>3. QED
        BY <3>2, ValuesFacts
    <2>3. QED
      BY <2>1, <2>2
  <1>6. ASSUME NEW o \in DOMAIN h.obj PROVE h2.obj[o].count - ext2[o] >= h.obj[o].count - ext[o]
    <2> DEFINE c == h.obj[o].count
               e == ext[o]
               n == Occ(vs, o)
    <2>1. o \in Addresses /\ c \in Int
      BY <1>1, ObjectFacts DEF IsHeap
    <2>2. e \in Nat /\ n \in Nat /\ h2.obj[o].count = c + n /\ ext2[o] = e + n
      BY <1>2, <1>3, <2>1
    <2> HIDE DEF c, e, n, h2
    <2>3. h2.obj[o].count - ext2[o] >= c - e
      BY <2>1, <2>2
    <2>4. QED
      BY <2>3 DEF c, e
  <1> HIDE DEF h2
  <1>7. Covers(h2, P, ext2)
    BY <1>2, <1>4, <1>5, <1>6, Recount
  <1>8. QED
    BY <1>2, <1>7 DEF h2

LEMMA RetainCovers ==
  ASSUME NEW h, NEW P, NEW ext, Covers(h, P, ext), NEW v \in DOMAIN h.obj \cup {Scalar},
         NEW ext2 \in Tallies, \A o \in Addresses : ext2[o] = ext[o] + One(v, o)
  PROVE  Covers(value_retain(h, v), P, ext2) /\ Kept(h, value_retain(h, v))
         /\ DOMAIN value_retain(h, v).obj = DOMAIN h.obj
  <1> DEFINE h2 == value_retain(h, v)
  <1>1. IsHeap(h) /\ ext \in Tallies /\ P \subseteq DOMAIN h.obj /\ DOMAIN h.obj \subseteq Addresses
    BY DEF Covers, IsHeap, IsTable
  <1>2. /\ IsHeap(h2) /\ Kept(h, h2) /\ DOMAIN h2.obj = DOMAIN h.obj
        /\ \A o \in DOMAIN h.obj : h2.obj[o].count = h.obj[o].count + One(v, o)
    BY <1>1, RetainFacts
  <1>3. \A o \in Addresses : One(v, o) \in {0, 1} /\ ext[o] \in Nat /\ ext2[o] \in Nat
    BY <1>1, OneType DEF Tallies
  <1>4. ASSUME NEW p \in P PROVE ext2[p] > 0
    <2>1. ext[p] > 0 /\ p \in Addresses
      BY <1>1 DEF Covers
    <2>2. QED
      BY <1>3, <2>1
  <1>5. ASSUME NEW o \in Addresses, ext2[o] > 0 PROVE o \in DOMAIN h.obj
    <2>1. CASE ext[o] > 0
      BY <2>1 DEF Covers
    <2>2. CASE ~(ext[o] > 0)
      <3>1. v = o
        BY <1>3, <1>5, <2>2, OneType
      <3>2. QED
        BY <3>1, ValuesFacts
    <2>3. QED
      BY <2>1, <2>2
  <1>6. ASSUME NEW o \in DOMAIN h.obj PROVE h2.obj[o].count - ext2[o] >= h.obj[o].count - ext[o]
    <2> DEFINE c == h.obj[o].count
               e == ext[o]
               n == One(v, o)
    <2>1. o \in Addresses /\ c \in Int
      BY <1>1, ObjectFacts DEF IsHeap
    <2>2. e \in Nat /\ n \in {0, 1} /\ h2.obj[o].count = c + n /\ ext2[o] = e + n
      BY <1>2, <1>3, <2>1
    <2> HIDE DEF c, e, n, h2
    <2>3. h2.obj[o].count - ext2[o] >= c - e
      BY <2>1, <2>2
    <2>4. QED
      BY <2>3 DEF c, e
  <1> HIDE DEF h2
  <1>7. Covers(h2, P, ext2)
    BY <1>2, <1>4, <1>5, <1>6, Recount
  <1>8. QED
    BY <1>2, <1>7 DEF h2

-----------------------------------------------------------------------------
(* Releasing.                                                                *)

LEMMA RegistryWithout ==
  ASSUME NEW h, IsHeap(h), NEW o \in DOMAIN h.obj
  PROVE  /\ Listed(gc_registry_remove(h, o).registry, DOMAIN h.obj \ {o})
         /\ gc_registry_remove(h, o).obj = h.obj
         /\ gc_registry_remove(h, o).allocations = h.allocations
         /\ gc_registry_remove(h, o) = [obj |-> gc_registry_remove(h, o).obj,
                                        registry |-> gc_registry_remove(h, o).registry,
                                        allocations |-> gc_registry_remove(h, o).allocations]
  <1> DEFINE S == DOMAIN h.obj
             r == h.registry
             n == Len(r)
             i == CHOOSE k \in DOMAIN r : r[k] = o
             t == [k \in 1 .. (n - 1) |-> IF k = i THEN r[n] ELSE r[k]]
             h2 == gc_registry_remove(h, o)
  <1>1. /\ r \in Seq(S) /\ \A j, k \in DOMAIN r : j # k => r[j] # r[k]
        /\ \A x \in S : \E k \in DOMAIN r : r[k] = x
    BY DEF IsHeap, Listed
  <1>2. h2 = [h EXCEPT !.registry = t]
    BY DEF gc_registry_remove
  <1>3. h2.registry = t /\ h2.obj = h.obj /\ h2.allocations = h.allocations
        /\ h2 = [obj |-> h2.obj, registry |-> h2.registry, allocations |-> h2.allocations]
    BY <1>2 DEF IsHeap
  <1>4. i \in DOMAIN r /\ r[i] = o
    BY <1>1
  <1> HIDE DEF i, h2, S
  <1>5. n \in Nat /\ DOMAIN r = 1 .. n /\ i \in 1 .. n /\ \A k \in 1 .. n : r[k] \in S
    BY <1>1, <1>4
  <1> HIDE DEF n, r
  <1>6. ASSUME NEW k \in 1 .. (n - 1) PROVE t[k] \in S \ {o}
    <2>1. k \in 1 .. n /\ n \in 1 .. n /\ k # n
      BY <1>5
    <2>2. CASE k = i
      BY <1>1, <1>4, <1>5, <2>1, <2>2
    <2>3. CASE k # i
      BY <1>1, <1>4, <1>5, <2>1, <2>3
    <2>4. QED
      BY <2>2, <2>3
  <1>7. t \in Seq(S \ {o}) /\ DOMAIN t = 1 .. (n - 1)
    <2>1. CASE n = 0
      BY <1>5, <2>1
    <2>2. CASE n # 0
      <3>1. n - 1 \in Nat
        BY <1>5, <2>2
      <3>2. t \in [1 .. (n - 1) -> S \ {o}]
        BY <1>6
      <3>3. QED
        BY <3>1, <3>2
    <2>3. QED
      BY <2>1, <2>2
  <1>8. ASSUME NEW j \in 1 .. (n - 1), NEW k \in 1 .. (n - 1), j # k PROVE t[j] # t[k]
    <2>1. j \in 1 .. n /\ k \in 1 .. n /\ n \in 1 .. n /\ j # n /\ k # n
      BY <1>5
    <2>2. t[j] = (IF j = i THEN r[n] ELSE r[j]) /\ t[k] = (IF k = i THEN r[n] ELSE r[k])
      OBVIOUS
    <2>3. r[j] # r[k] /\ r[n] # r[j] /\ r[n] # r[k]
      BY <1>1, <1>5, <1>8, <2>1
    <2>4. QED
      BY <1>8, <2>2, <2>3
  <1>9. ASSUME NEW x \in S \ {o} PROVE \E k \in 1 .. (n - 1) : t[k] = x
    <2>1. PICK k \in 1 .. n : r[k] = x
      BY <1>1, <1>5
    <2>2. k # i
      BY <1>4, <2>1
    <2>3. CASE k = n
      <3>1. i \in 1 .. (n - 1)
        BY <1>5, <2>2, <2>3
      <3>2. t[i] = x
        BY <2>1, <2>3, <3>1
      <3>3. QED
        BY <3>1, <3>2
    <2>4. CASE k # n
      <3>1. k \in 1 .. (n - 1)
        BY <1>5, <2>4
      <3>2. t[k] = x
        BY <2>1, <2>2, <3>1
      <3>3. QED
        BY <3>1, <3>2
    <2>5. QED
      BY <2>3, <2>4
  <1> HIDE DEF t
  <1>10. Listed(t, S \ {o})
    BY <1>7, <1>8, <1>9 DEF Listed
  <1>11. QED
    BY <1>3, <1>10 DEF S, h2

LEMMA FreeFacts ==
  ASSUME NEW h, IsHeap(h), NEW v \in DOMAIN h.obj
  PROVE  /\ IsHeap(object_free(h, v)) /\ Kept(h, object_free(h, v))
         /\ DOMAIN object_free(h, v).obj = DOMAIN h.obj \ {v}
         /\ \A o \in DOMAIN h.obj \ {v} : object_free(h, v).obj[o] = h.obj[o]
  <1> DEFINE g == gc_registry_remove(h, v)
             t == [x \in DOMAIN h.obj \ {v} |-> h.obj[x]]
             h2 == object_free(h, v)
  <1>1. /\ Listed(g.registry, DOMAIN h.obj \ {v}) /\ g.obj = h.obj /\ g.allocations = h.allocations
        /\ g = [obj |-> g.obj, registry |-> g.registry, allocations |-> g.allocations]
    BY RegistryWithout
  <1>2. h2 = [g EXCEPT !.obj = t]
    BY <1>1 DEF object_free
  <1> HIDE DEF g, h2
  <1>3. h2.registry = g.registry /\ h2.obj = t /\ h2.allocations = h.allocations
        /\ h2 = [obj |-> h2.obj, registry |-> h2.registry, allocations |-> h2.allocations]
    BY <1>1, <1>2
  <1>4. DOMAIN t = DOMAIN h.obj \ {v} /\ \A x \in DOMAIN h.obj \ {v} : t[x] = h.obj[x]
    OBVIOUS
  <1>5. IsTable(t)
    BY DEF IsTable, IsHeap
  <1> HIDE DEF t
  <1>6. IsHeap(h2)
    BY <1>1, <1>3, <1>4, <1>5 DEF IsHeap
  <1>7. QED
    BY <1>3, <1>4, <1>6 DEF Kept, h2

LEMMA FreeCovers ==
  ASSUME NEW h, NEW P, NEW ext, Covers(h, P, ext), NEW v \in DOMAIN h.obj \ P, ext[v] = 0,
         Cardinality(SlotsIn(h.obj, P, v)) = 0, NEW ext2 \in Tallies,
         \A o \in Addresses : ext2[o] = ext[o] + Occ(h.obj[v].slots, o)
  PROVE  Covers(object_free(h, v), P, ext2)
  <1> DEFINE h2 == object_free(h, v)
             D == DOMAIN h.obj
             s == h.obj[v].slots
  <1>1. /\ IsHeap(h) /\ IsTable(h.obj) /\ ext \in Tallies /\ P \subseteq D /\ D \subseteq Addresses
        /\ s \in Seq(Values)
    BY ObjectFacts DEF Covers, IsHeap, IsTable
  <1>2. /\ IsHeap(h2) /\ Kept(h, h2) /\ DOMAIN h2.obj = D \ {v}
        /\ \A o \in D \ {v} : h2.obj[o] = h.obj[o]
    BY <1>1, FreeFacts
  <1>3. IsTable(h2.obj)
    BY <1>2 DEF IsHeap
  <1>4. \A o \in Addresses : Occ(s, o) \in Nat /\ ext[o] \in Nat /\ ext2[o] \in Nat /\ ext2[o] = ext[o] + Occ(s, o)
    BY <1>1, OccType DEF Tallies
  <1>5. ASSUME NEW x \in D \ P, NEW j \in DOMAIN h.obj[x].slots PROVE h.obj[x].slots[j] # v
    <2>1. Cardinality(SlotsIn(h.obj, P, h.obj[x].slots[j])) >= 1
      BY <1>1, SlotCounts
    <2>2. QED
      BY <2>1
  <1>6. ASSUME NEW p \in P PROVE ext2[p] > 0
    <2>1. ext[p] > 0 /\ p \in Addresses
      BY <1>1 DEF Covers
    <2>2. QED
      BY <1>4, <2>1
  <1>7. ASSUME NEW o \in Addresses, ext2[o] > 0 PROVE o \in D \ {v}
    <2>1. CASE ext[o] > 0
      BY <2>1 DEF Covers
    <2>2. CASE ~(ext[o] > 0)
      <3>1. Occ(s, o) > 0
        BY <1>4, <1>7, <2>2
      <3>2. PICK j \in DOMAIN s : s[j] = o
        BY <1>1, <3>1, OccPositive
      <3>3. o # v
        BY <1>5, <3>2
      <3>4. s[j] \in D \cup {Scalar}
        BY DEF Covers, Grounded
      <3>5. QED
        BY <3>2, <3>3, <3>4, ValuesFacts
    <2>3. QED
      BY <2>1, <2>2
  <1>8. Grounded(h2.obj, P)
    BY <1>2, <1>5 DEF Grounded, Covers
  <1>9. ASSUME NEW o \in D \ {v}
        PROVE  h2.obj[o].count >= ext2[o] + Cardinality(SlotsIn(h2.obj, P, o))
    <2> DEFINE c == h.obj[o].count
               n == Cardinality(SlotsIn(h.obj, P, o))
               m == Cardinality(SlotsIn(h2.obj, P, o))
               e == ext[o]
               k == Occ(s, o)
    <2>1. Cardinality(SlotsIn(h.obj, P, o)) = Cardinality(SlotsIn(h.obj, P \cup {v}, o)) + Occ(s, o)
      BY <1>1, SlotsPart
    <2>2. SlotsIn(h2.obj, P, o) = SlotsIn(h.obj, P \cup {v}, o)
      <3>1. \A x : x \in D \ (P \cup {v}) <=> x \in DOMAIN h2.obj \ P
        BY <1>2
      <3>2. \A x \in D \ (P \cup {v}) : h2.obj[x].slots = h.obj[x].slots
        BY <1>2
      <3> HIDE DEF h2
      <3>3. QED
        BY <3>1, <3>2, SlotsSame
    <2>3. n = m + k
      BY <2>1, <2>2
    <2>4. o \in Addresses /\ c \in Int
      BY <1>1, ObjectFacts
    <2>5. n \in Nat /\ m \in Nat
      BY <1>1, <1>3, SlotsAreFinite
    <2>6. e \in Nat /\ k \in Nat /\ ext2[o] = e + k
      BY <1>4, <2>4
    <2>7. c >= e + n
      BY DEF Covers, Counted
    <2>8. h2.obj[o].count = c
      BY <1>2
    <2> HIDE DEF c, n, m, e, k, h2, s
    <2>9. h2.obj[o].count >= ext2[o] + m
      BY <2>3, <2>4, <2>5, <2>6, <2>7, <2>8
    <2>10. QED
      BY <2>9 DEF m
  <1>10. Counted(h2.obj, P, ext2)
    BY <1>2, <1>9 DEF Counted
  <1> HIDE DEF h2
  <1>11. P \subseteq DOMAIN h2.obj
    BY <1>1, <1>2
  <1>12. Covers(h2, P, ext2)
    BY <1>2, <1>6, <1>7, <1>8, <1>10, <1>11 DEF Covers
  <1>13. QED
    BY <1>12 DEF h2

(* The references that wait to be released are counted like any other. *)
Plus(ext, w) == [o \in Addresses |-> ext[o] + Occ(w, o)]

Pinned(P, ext) == ext \in Tallies /\ \A p \in P : ext[p] > 0

Owed(s, h, P, ext) ==
    /\ s = [heap |-> s.heap, work |-> s.work]
    /\ s.work \in Seq(Values)
    /\ Covers(s.heap, P, Plus(ext, s.work))
    /\ Kept(h, s.heap)

LEMMA PlusFacts ==
  ASSUME NEW ext \in Tallies, NEW w \in Seq(Values)
  PROVE  /\ Plus(ext, w) \in Tallies
         /\ \A o \in Addresses : /\ Plus(ext, w)[o] = ext[o] + Occ(w, o)
                                 /\ ext[o] \in Nat /\ Occ(w, o) \in Nat
  <1>1. \A o \in Addresses : ext[o] \in Nat /\ Occ(w, o) \in Nat
    BY OccType DEF Tallies
  <1>2. \A o \in Addresses : ext[o] + Occ(w, o) \in Nat
    BY <1>1
  <1>3. QED
    BY <1>1, <1>2 DEF Plus, Tallies

LEMMA ReleaseStep ==
  ASSUME NEW h, NEW P, NEW ext, Pinned(P, ext), NEW s, Owed(s, h, P, ext)
  PROVE  Owed(ReleaseNext(s), h, P, ext)
  <1> DEFINE v == Head(s.work)
             rest == Tail(s.work)
             g == s.heap
             less == [g EXCEPT !.obj[v].count = g.obj[v].count - 1]
  <1>1. /\ s = [heap |-> g, work |-> s.work] /\ s.work \in Seq(Values)
        /\ Covers(g, P, Plus(ext, s.work)) /\ Kept(h, g) /\ ext \in Tallies
    BY DEF Owed, Pinned
  <1>2. CASE s.work = <<>>
    <2>1. ReleaseNext(s) = s
      BY <1>2 DEF ReleaseNext
    <2>2. QED
      BY <2>1
  <1>3. CASE s.work # <<>>
    <2>1. /\ v \in Values /\ rest \in Seq(Values)
          /\ \A o : Occ(s.work, o) = One(v, o) + Occ(rest, o)
      BY <1>1, <1>3, OccTail
    <2>2. /\ Plus(ext, rest) \in Tallies
          /\ \A o \in Addresses : /\ Plus(ext, rest)[o] = ext[o] + Occ(rest, o)
                                  /\ ext[o] \in Nat /\ Occ(rest, o) \in Nat
      BY <1>1, <2>1, PlusFacts
    <2>3. \A o \in Addresses : Plus(ext, s.work)[o] = Plus(ext, rest)[o] + One(v, o)
      <3>1. \A o \in Addresses : Plus(ext, s.work)[o] = ext[o] + Occ(s.work, o)
        BY <1>1, PlusFacts
      <3> DEFINE w == s.work
      <3> HIDE DEF v, rest, w
      <3>2. ASSUME NEW o \in Addresses PROVE Plus(ext, w)[o] = Plus(ext, rest)[o] + One(v, o)
        <4>1. Plus(ext, w)[o] = ext[o] + Occ(w, o) /\ Occ(w, o) = One(v, o) + Occ(rest, o)
          BY <2>1, <3>1 DEF w
        <4>2. /\ Plus(ext, rest)[o] = ext[o] + Occ(rest, o)
              /\ ext[o] \in Nat /\ Occ(rest, o) \in Nat /\ One(v, o) \in Int
          BY <2>2, OneType
        <4>3. QED
          BY <4>1, <4>2
      <3>3. QED
        BY <3>2 DEF w
    <2>4. \A p \in P : Plus(ext, rest)[p] > 0
      <3>1. P \subseteq Addresses
        BY <1>1 DEF Covers, IsHeap, IsTable
      <3>2. \A p \in P : ext[p] > 0 /\ Plus(ext, rest)[p] = ext[p] + Occ(rest, p)
                         /\ ext[p] \in Nat /\ Occ(rest, p) \in Nat
        BY <2>2, <3>1 DEF Pinned
      <3>3. QED
        BY <3>2
    <2>5. CASE v = Scalar
      <3>1. ReleaseNext(s) = [s EXCEPT !.work = rest]
        BY <1>3, <2>5 DEF ReleaseNext
      <3> DEFINE s2 == ReleaseNext(s)
      <3> HIDE DEF v, rest, g
      <3>2. s2 = [heap |-> s2.heap, work |-> s2.work] /\ s2.work = rest /\ s2.heap = g
        BY <1>1, <3>1
      <3>3. \A o \in Addresses : One(v, o) = 0
        BY <2>5, ValuesFacts DEF One
      <3>4. \A o \in Addresses : Plus(ext, rest)[o] <= Plus(ext, s.work)[o]
        <4>1. \A o \in Addresses : Plus(ext, rest)[o] \in Nat
          BY <2>2 DEF Tallies
        <4>2. QED
          BY <2>3, <3>3, <4>1
      <3>5. Covers(g, P, Plus(ext, rest))
        BY <1>1, <2>2, <2>4, <3>4, Weaken
      <3> HIDE DEF s2
      <3>6. Owed(s2, h, P, ext)
        BY <1>1, <2>1, <3>2, <3>5 DEF Owed
      <3>7. QED
        BY <3>6 DEF s2
    <2>6. CASE v # Scalar
      <3>1. v \in Addresses /\ Plus(ext, s.work)[v] > 0
        <4>1. v \in Addresses /\ One(v, v) = 1
          BY <2>1, <2>6 DEF Values, One
        <4>2. Plus(ext, s.work)[v] = Plus(ext, rest)[v] + 1 /\ Plus(ext, rest)[v] \in Nat
          BY <2>2, <2>3, <4>1 DEF Tallies
        <4>3. QED
          BY <4>1, <4>2
      <3>2. v \in DOMAIN g.obj /\ IsHeap(g) /\ IsTable(g.obj) /\ g.obj[v].count \in Int
        <4>1. v \in DOMAIN g.obj /\ IsHeap(g) /\ IsTable(g.obj)
          BY <1>1, <3>1 DEF Covers, IsHeap
        <4>2. QED
          BY <4>1, ObjectFacts
      <3> DEFINE n == g.obj[v].count - 1
      <3>3. n \in Int /\ less = [g EXCEPT !.obj[v].count = n]
        BY <3>2
      <3> HIDE DEF n, v, rest, g, less
      <3>4. /\ IsHeap(less) /\ Kept(g, less) /\ DOMAIN less.obj = DOMAIN g.obj
            /\ less.obj[v].count = n
            /\ \A o \in DOMAIN g.obj : o # v => less.obj[o].count = g.obj[o].count
        BY <3>2, <3>3, CountAt
      <3>5. Covers(less, P, Plus(ext, rest))
        <4>1. \A o \in Addresses : Plus(ext, rest)[o] > 0 => o \in DOMAIN g.obj
          <5>1. ASSUME NEW o \in Addresses, Plus(ext, rest)[o] > 0 PROVE Plus(ext, s.work)[o] > 0
            <6>1. Plus(ext, rest)[o] \in Nat /\ One(v, o) \in {0, 1}
              BY <2>2, OneType DEF Tallies
            <6>2. QED
              BY <2>3, <5>1, <6>1
          <5>2. QED
            BY <1>1, <5>1 DEF Covers
        <4>2. ASSUME NEW o \in DOMAIN g.obj
              PROVE  less.obj[o].count - Plus(ext, rest)[o] >= g.obj[o].count - Plus(ext, s.work)[o]
          <5>1. o \in Addresses /\ g.obj[o].count \in Int
            BY <3>2, ObjectFacts
          <5>2. Plus(ext, rest)[o] \in Nat /\ One(v, o) \in {0, 1}
                /\ Plus(ext, s.work)[o] = Plus(ext, rest)[o] + One(v, o)
            BY <2>2, <2>3, <5>1, OneType DEF Tallies
          <5>3. less.obj[o].count = g.obj[o].count - One(v, o)
            <6>1. CASE o = v
              BY <3>4, <5>1, <6>1 DEF n, One
            <6>2. CASE o # v
              BY <3>4, <5>1, <6>2 DEF One
            <6>3. QED
              BY <6>1, <6>2
          <5> DEFINE a == g.obj[o].count
                     b == Plus(ext, rest)[o]
                     c == One(v, o)
          <5> HIDE DEF a, b, c
          <5>4. a - c - b >= a - (b + c)
            BY <5>1, <5>2 DEF a, b, c
          <5>5. QED
            BY <5>2, <5>3, <5>4 DEF a, b, c
        <4>3. QED
          BY <1>1, <2>2, <2>4, <3>4, <4>1, <4>2, Recount
      <3>6. Kept(h, less)
        BY <1>1, <3>4, KeptFacts
      <3>7. CASE n > 0
        <4> DEFINE s2 == ReleaseNext(s)
        <4>1. s2 = [heap |-> less, work |-> rest]
          BY <1>3, <2>6, <3>4, <3>7 DEF ReleaseNext, less, v, rest, g
        <4> HIDE DEF s2
        <4>2. s2 = [heap |-> s2.heap, work |-> s2.work] /\ s2.heap = less /\ s2.work = rest
          BY <4>1
        <4>3. Owed(s2, h, P, ext)
          BY <2>1, <3>5, <3>6, <4>2 DEF Owed
        <4>4. QED
          BY <4>3 DEF s2
      <3>8. CASE ~(n > 0)
        <4> DEFINE s2 == ReleaseNext(s)
                   slots == less.obj[v].slots
                   h2 == object_free(less, v)
                   w == slots \o rest
                   m == Cardinality(SlotsIn(less.obj, P, v))
                   e == Plus(ext, rest)[v]
        <4>1. s2 = [heap |-> h2, work |-> w]
          BY <1>3, <2>6, <3>4, <3>8 DEF ReleaseNext, less, v, rest, g
        <4>2. v \in DOMAIN less.obj /\ IsTable(less.obj)
          BY <3>2, <3>4 DEF IsHeap
        <4>3. m \in Nat /\ e \in Nat /\ slots \in Seq(Values)
          BY <2>2, <3>1, <4>2, SlotsAreFinite, ObjectFacts DEF Tallies
        <4>4. n >= e + m
          BY <3>4, <3>5, <4>2 DEF Covers, Counted
        <4> HIDE DEF s2, h2, w, m, e
        <4>5. e = 0 /\ m = 0
          BY <3>3, <3>8, <4>3, <4>4
        <4>6. v \notin P
          <5>1. v \in P => e > 0
            BY <2>4 DEF e
          <5>2. QED
            BY <4>5, <5>1
        <4>7. w \in Seq(Values) /\ \A o : Occ(w, o) = Occ(slots, o) + Occ(rest, o)
          BY <2>1, <4>3, OccConcat DEF w
        <4>8. /\ Plus(ext, w) \in Tallies
              /\ \A o \in Addresses : Plus(ext, w)[o] = ext[o] + Occ(w, o)
          BY <1>1, <4>7, PlusFacts
        <4>9. ASSUME NEW o \in Addresses
              PROVE  Plus(ext, w)[o] = Plus(ext, rest)[o] + Occ(slots, o)
          <5>1. ext[o] \in Nat /\ Occ(rest, o) \in Nat /\ Occ(slots, o) \in Nat
            BY <2>2, <4>3, OccType
          <5>2. QED
            BY <2>2, <4>7, <4>8, <5>1
        <4>10. Covers(h2, P, Plus(ext, w))
          BY <3>5, <4>2, <4>5, <4>6, <4>8, <4>9, FreeCovers DEF e, m, h2
        <4>11. Kept(h, h2)
          BY <3>4, <3>6, <4>2, FreeFacts, KeptFacts DEF h2
        <4>12. s2 = [heap |-> s2.heap, work |-> s2.work] /\ s2.heap = h2 /\ s2.work = w
          BY <4>1
        <4>13. Owed(s2, h, P, ext)
          BY <4>7, <4>10, <4>11, <4>12 DEF Owed
        <4>14. QED
          BY <4>13 DEF s2
      <3>9. QED
        BY <3>7, <3>8
    <2>7. QED
      BY <2>5, <2>6
  <1>4. QED
    BY <1>2, <1>3

Tables == UNION {[D -> Objects] : D \in SUBSET Addresses}
Heaps == [obj : Tables, registry : Seq(Addresses), allocations : Int]

LEMMA HeapIsMember ==
  ASSUME NEW h, IsHeap(h)
  PROVE  h \in Heaps
  <1>1. h.obj \in Tables
    <2>1. \A o \in DOMAIN h.obj : h.obj[o] \in Objects
      BY DEF IsHeap, IsTable, IsObject
    <2>2. h.obj \in [DOMAIN h.obj -> Objects] /\ DOMAIN h.obj \in SUBSET Addresses
      BY <2>1 DEF IsHeap, IsTable
    <2>3. QED
      BY <2>2 DEF Tables
  <1>2. h.registry \in Seq(Addresses)
    <2>1. h.registry \in Seq(DOMAIN h.obj) /\ DOMAIN h.obj \subseteq Addresses
      BY DEF IsHeap, IsTable, Listed
    <2>2. QED
      BY <2>1
  <1>3. QED
    BY <1>1, <1>2 DEF Heaps, IsHeap

IsAfter(f, h, vs, turns) ==
    f = [n \in 0 .. turns |-> IF n = 0 THEN [heap |-> h, work |-> vs] ELSE ReleaseNext(f[n - 1])]

(* Every state of the loop owes what is left on its list. *)
LEMMA ReleaseLoop ==
  ASSUME NEW h, NEW P, NEW ext, Pinned(P, ext), NEW vs \in Seq(Values),
         Covers(h, P, Plus(ext, vs)), NEW turns \in Nat
  PROVE  \E f : IsAfter(f, h, vs, turns) /\ \A n \in 0 .. turns : Owed(f[n], h, P, ext)
  <1> DEFINE S == {s \in [heap : Heaps, work : Seq(Values)] : Owed(s, h, P, ext)}
             base == [heap |-> h, work |-> vs]
             step == [x \in Nat \X S |-> ReleaseNext(x[2])]
  <1>1. ASSUME NEW s, Owed(s, h, P, ext) PROVE s \in S
    <2>1. s = [heap |-> s.heap, work |-> s.work] /\ s.work \in Seq(Values) /\ s.heap \in Heaps
      BY <1>1, HeapIsMember DEF Owed, Covers
    <2>2. QED
      BY <1>1, <2>1
  <1>2. base \in S
    <2>1. base = [heap |-> base.heap, work |-> base.work] /\ base.heap = h /\ base.work = vs
      OBVIOUS
    <2> HIDE DEF base, S
    <2>2. Owed(base, h, P, ext)
      BY <2>1, KeptFacts DEF Owed
    <2>3. QED
      BY <1>1, <2>2
  <1>3. \A s \in S : Owed(s, h, P, ext)
    OBVIOUS
  <1> HIDE DEF S
  <1>4. \A s \in S : ReleaseNext(s) \in S
    BY <1>1, <1>3, ReleaseStep
  <1>5. step \in [Nat \X S -> S] /\ \A n \in Nat, s \in S : step[<<n, s>>] = ReleaseNext(s)
    BY <1>4
  <1> HIDE DEF step, base
  <1>6. PICK f : Recursive(f, S, base, step, turns)
    BY <1>2, <1>5, RecursionExists
  <1>7. f \in [0 .. turns -> S] /\ f[0] = base /\ \A i \in 1 .. turns : f[i] = step[<<i, f[i - 1]>>]
    BY <1>6 DEF Recursive
  <1>8. ASSUME NEW n \in 0 .. turns
        PROVE  f[n] = IF n = 0 THEN [heap |-> h, work |-> vs] ELSE ReleaseNext(f[n - 1])
    <2>1. CASE n = 0
      BY <1>7, <2>1 DEF base
    <2>2. CASE n # 0
      <3>1. n \in 1 .. turns /\ n - 1 \in 0 .. turns /\ n \in Nat
        BY <2>2
      <3>2. f[n] = step[<<n, f[n - 1]>>] /\ f[n - 1] \in S
        BY <1>7, <3>1
      <3>3. QED
        BY <1>5, <2>2, <3>1, <3>2
    <2>3. QED
      BY <2>1, <2>2
  <1>9. f = [n \in 0 .. turns |-> f[n]]
    BY <1>7
  <1>10. [n \in 0 .. turns |-> f[n]]
           = [n \in 0 .. turns |-> IF n = 0 THEN [heap |-> h, work |-> vs] ELSE ReleaseNext(f[n - 1])]
    BY <1>8
  <1>11. IsAfter(f, h, vs, turns)
    BY <1>9, <1>10 DEF IsAfter
  <1>12. \A n \in 0 .. turns : Owed(f[n], h, P, ext)
    BY <1>3, <1>7
  <1>13. QED
    BY <1>11, <1>12

LEMMA ReleaseAllCovers ==
  ASSUME NEW h, NEW P, NEW ext0, Covers(h, P, ext0), NEW vs \in Seq(Values),
         NEW ext, Pinned(P, ext), \A o \in Addresses : ext[o] + Occ(vs, o) <= ext0[o]
  PROVE  Covers(ReleaseAll(h, vs), P, ext) /\ Kept(h, ReleaseAll(h, vs))
  <1> DEFINE turns == Len(vs) + MaxSlots * Cardinality(Addresses)
             f == CHOOSE g : IsAfter(g, h, vs, turns)
             s == f[turns]
  <1>1. turns \in Nat
    <2>1. Len(vs) \in Nat /\ MaxSlots \in Nat /\ Cardinality(Addresses) \in Nat
      BY HeapBounds, FS_CardinalityType
    <2>2. MaxSlots * Cardinality(Addresses) \in Nat
      BY <2>1
    <2>3. QED
      BY <2>1, <2>2
  <1>2. ReleaseAll(h, vs) = s.heap
    BY DEF ReleaseAll, IsAfter
  <1> HIDE DEF turns
  <1>3. ext \in Tallies /\ Plus(ext, vs) \in Tallies
        /\ \A o \in Addresses : /\ Plus(ext, vs)[o] = ext[o] + Occ(vs, o)
                                /\ ext[o] \in Nat /\ Occ(vs, o) \in Nat
    BY PlusFacts DEF Pinned
  <1>4. P \subseteq Addresses
    BY DEF Covers, IsHeap, IsTable
  <1>5. \A p \in P : Plus(ext, vs)[p] > 0
    <2>1. \A p \in P : ext[p] > 0 /\ ext[p] \in Nat /\ Occ(vs, p) \in Nat
                       /\ Plus(ext, vs)[p] = ext[p] + Occ(vs, p)
      BY <1>3, <1>4 DEF Pinned
    <2>2. QED
      BY <2>1
  <1>6. Covers(h, P, Plus(ext, vs))
    BY <1>3, <1>5, Weaken
  <1>7. PICK g : IsAfter(g, h, vs, turns) /\ \A n \in 0 .. turns : Owed(g[n], h, P, ext)
    BY <1>1, <1>6, ReleaseLoop
  <1>8. IsAfter(f, h, vs, turns)
    BY <1>7
  <1> HIDE DEF f
  <1>9. f = g
    <2> DEFINE T == {n \in 0 .. turns : f[n] # g[n]}
    <2>1. f = [n \in 0 .. turns |-> f[n]] /\ g = [n \in 0 .. turns |-> g[n]]
      BY <1>7, <1>8 DEF IsAfter
    <2>2. \A n \in 0 .. turns : n # 0 => f[n] = ReleaseNext(f[n - 1]) /\ g[n] = ReleaseNext(g[n - 1])
      BY <1>7, <1>8 DEF IsAfter
    <2>3. f[0] = g[0]
      <3>1. 0 \in 0 .. turns
        BY <1>1
      <3>2. QED
        BY <1>7, <1>8, <3>1 DEF IsAfter
    <2>4. T = {}
      <3>1. SUFFICES ASSUME T # {} PROVE FALSE
        OBVIOUS
      <3>2. PICK m \in T : \A j \in T : m <= j
        <4>1. T \in SUBSET Nat
          BY <1>1
        <4>2. QED
          BY <3>1, <4>1, LeastMember
      <3>3. m # 0 /\ m \in 0 .. turns
        BY <2>3, <3>2
      <3>4. m - 1 \in 0 .. turns /\ m - 1 \notin T
        BY <1>1, <3>2, <3>3
      <3>5. f[m - 1] = g[m - 1]
        BY <3>4
      <3>6. f[m] = g[m]
        BY <2>2, <3>3, <3>5
      <3>7. QED
        BY <3>2, <3>6
    <2>5. \A n \in 0 .. turns : f[n] = g[n]
      BY <2>4
    <2>6. QED
      BY <2>1, <2>5
  <1>10. turns \in 0 .. turns
    BY <1>1
  <1>11. Owed(s, h, P, ext)
    BY <1>7, <1>9, <1>10
  <1> HIDE DEF s
  <1>12. s.work \in Seq(Values) /\ Covers(s.heap, P, Plus(ext, s.work)) /\ Kept(h, s.heap)
    BY <1>11 DEF Owed
  <1>13. \A o \in Addresses : ext[o] <= Plus(ext, s.work)[o]
    <2>1. \A o \in Addresses : Plus(ext, s.work)[o] = ext[o] + Occ(s.work, o)
                               /\ ext[o] \in Nat /\ Occ(s.work, o) \in Nat
      BY <1>3, <1>12, PlusFacts
    <2>2. QED
      BY <2>1
  <1>14. Covers(s.heap, P, ext)
    BY <1>3, <1>12, <1>13, Weaken DEF Pinned
  <1>15. QED
    BY <1>2, <1>12, <1>14

-----------------------------------------------------------------------------
(* Changing the slots of one container.                                      *)

Rewritten(h, h2, a) ==
    /\ IsHeap(h2)
    /\ DOMAIN h2.obj = DOMAIN h.obj
    /\ \A x \in DOMAIN h.obj : x # a => h2.obj[x] = h.obj[x]
    /\ h2.obj[a].count = h.obj[a].count

LEMMA ObjectAt ==
  ASSUME NEW h, IsHeap(h), NEW a \in DOMAIN h.obj, NEW b, IsObject(b), b.count = h.obj[a].count,
         NEW h2, h2 = [h EXCEPT !.obj = [h.obj EXCEPT ![a] = b]]
  PROVE  Rewritten(h, h2, a) /\ h2.obj[a] = b
  <1> DEFINE t == [h.obj EXCEPT ![a] = b]
  <1>1. h2.obj = t /\ h2.registry = h.registry /\ h2.allocations = h.allocations
        /\ h2 = [obj |-> h2.obj, registry |-> h2.registry, allocations |-> h2.allocations]
    BY DEF IsHeap
  <1>2. DOMAIN t = DOMAIN h.obj /\ t = [o \in DOMAIN t |-> t[o]]
    BY DEF IsHeap, IsTable
  <1>3. t[a] = b /\ \A o \in DOMAIN h.obj : o # a => t[o] = h.obj[o]
    BY DEF IsHeap, IsTable
  <1> HIDE DEF t
  <1>4. IsTable(t)
    <2>1. \A o \in DOMAIN h.obj : IsObject(t[o])
      BY <1>3 DEF IsHeap, IsTable
    <2>2. QED
      BY <1>2, <2>1 DEF IsHeap, IsTable
  <1>5. QED
    BY <1>1, <1>2, <1>3, <1>4 DEF Rewritten, IsHeap

LEMMA Pin ==
  ASSUME NEW h, NEW ext, Covers(h, {}, ext), NEW a \in DOMAIN h.obj, ext[a] > 0
  PROVE  Covers(h, {a}, Plus(ext, h.obj[a].slots))
  <1> DEFINE s == h.obj[a].slots
             ext2 == Plus(ext, s)
             D == DOMAIN h.obj
  <1>1. IsHeap(h) /\ IsTable(h.obj) /\ ext \in Tallies /\ D \subseteq Addresses /\ s \in Seq(Values)
    BY ObjectFacts DEF Covers, IsHeap, IsTable
  <1>2. /\ ext2 \in Tallies
        /\ \A o \in Addresses : ext2[o] = ext[o] + Occ(s, o) /\ ext[o] \in Nat /\ Occ(s, o) \in Nat
    BY <1>1, PlusFacts
  <1> HIDE DEF ext2
  <1>3. ext2[a] > 0
    BY <1>1, <1>2
  <1>4. ASSUME NEW o \in Addresses, ext2[o] > 0 PROVE o \in D
    <2>1. CASE ext[o] > 0
      BY <2>1 DEF Covers
    <2>2. CASE ~(ext[o] > 0)
      <3>1. Occ(s, o) > 0
        BY <1>2, <1>4, <2>2
      <3>2. PICK j \in DOMAIN s : s[j] = o
        BY <1>1, <3>1, OccPositive
      <3>3. s[j] \in D \cup {Scalar}
        BY DEF Covers, Grounded
      <3>4. QED
        BY <3>2, <3>3, ValuesFacts
    <2>3. QED
      BY <2>1, <2>2
  <1>5. Grounded(h.obj, {a})
    BY DEF Covers, Grounded
  <1>6. ASSUME NEW o \in D PROVE h.obj[o].count >= ext2[o] + Cardinality(SlotsIn(h.obj, {a}, o))
    <2> DEFINE c == h.obj[o].count
               n == Cardinality(SlotsIn(h.obj, {}, o))
               m == Cardinality(SlotsIn(h.obj, {a}, o))
               e == ext[o]
               k == Occ(s, o)
    <2>1. Cardinality(SlotsIn(h.obj, {}, o)) = Cardinality(SlotsIn(h.obj, {} \cup {a}, o)) + Occ(h.obj[a].slots, o)
      <3>1. a \in DOMAIN h.obj \ {} /\ IsTable(h.obj)
        BY <1>1
      <3>2. \A P, v : v \in DOMAIN h.obj \ P =>
               Cardinality(SlotsIn(h.obj, P, o)) = Cardinality(SlotsIn(h.obj, P \cup {v}, o)) + Occ(h.obj[v].slots, o)
        BY <3>1, SlotsPart
      <3> QED
        BY <3>1, <3>2
    <2>2. n = m + k
      <3>1. {} \cup {a} = {a}
        OBVIOUS
      <3> HIDE DEF s
      <3>2. Cardinality(SlotsIn(h.obj, {}, o)) = Cardinality(SlotsIn(h.obj, {a}, o)) + Occ(s, o)
        BY <2>1, <3>1 DEF s
      <3>3. QED
        BY <3>2
    <2>3. o \in Addresses /\ c \in Int /\ n \in Nat /\ m \in Nat
      BY <1>1, ObjectFacts, SlotsAreFinite
    <2>4. e \in Nat /\ k \in Nat /\ ext2[o] = e + k
      BY <1>2, <2>3
    <2>5. c >= e + n
      BY DEF Covers, Counted
    <2> HIDE DEF c, n, m, e, k, s
    <2>6. c >= ext2[o] + m
      BY <2>2, <2>3, <2>4, <2>5
    <2>7. QED
      BY <2>6 DEF c, m
  <1>7. Counted(h.obj, {a}, ext2)
    BY <1>6 DEF Counted
  <1>8. Covers(h, {a}, ext2)
    BY <1>1, <1>2, <1>3, <1>4, <1>5, <1>7 DEF Covers
  <1>9. QED
    BY <1>8 DEF ext2

(* Unpinned again, the container has its new slots for the references that   *)
(* were held for them.                                                       *)
LEMMA Unpin ==
  ASSUME NEW h, NEW a, NEW ext, Covers(h, {a}, ext), NEW h2, Rewritten(h, h2, a),
         NEW ext2 \in Tallies,
         \A o \in Addresses : ext2[o] + Occ(h2.obj[a].slots, o) <= ext[o]
  PROVE  Covers(h2, {}, ext2)
  <1> DEFINE s == h2.obj[a].slots
             D == DOMAIN h.obj
  <1>1. /\ IsHeap(h) /\ IsTable(h.obj) /\ IsHeap(h2) /\ IsTable(h2.obj) /\ ext \in Tallies
        /\ D \subseteq Addresses /\ a \in D /\ DOMAIN h2.obj = D
        /\ \A x \in D : x # a => h2.obj[x] = h.obj[x]
        /\ h2.obj[a].count = h.obj[a].count
    BY DEF Covers, IsHeap, IsTable, Rewritten
  <1>2. s \in Seq(Values)
    BY <1>1, ObjectFacts
  <1>3. \A o \in Addresses : ext[o] \in Nat /\ ext2[o] \in Nat /\ Occ(s, o) \in Nat /\ ext2[o] + Occ(s, o) <= ext[o]
    BY <1>1, <1>2, OccType DEF Tallies
  <1>4. ASSUME NEW o \in Addresses, ext2[o] > 0 \/ Occ(s, o) > 0 PROVE o \in D
    <2>1. ext[o] > 0
      BY <1>3, <1>4
    <2>2. QED
      BY <2>1 DEF Covers
  <1>5. Grounded(h2.obj, {})
    <2>1. SUFFICES ASSUME NEW x \in D, NEW j \in DOMAIN h2.obj[x].slots
                   PROVE  h2.obj[x].slots[j] \in D \cup {Scalar}
      BY <1>1 DEF Grounded
    <2>2. CASE x = a
      <3>1. j \in DOMAIN s /\ s[j] \in Values /\ Occ(s, s[j]) >= 1
        <4>1. j \in DOMAIN s
          BY <2>1, <2>2
        <4>2. s[j] \in Values
          BY <1>2, <4>1
        <4>3. QED
          BY <1>2, <4>1, <4>2, OccPositive
      <3>2. CASE s[j] = Scalar
        BY <2>2, <3>2
      <3>3. CASE s[j] # Scalar
        <4>1. s[j] \in Addresses
          BY <3>1, <3>3 DEF Values
        <4>2. Occ(s, s[j]) > 0
          BY <1>3, <3>1, <4>1
        <4>3. QED
          BY <1>4, <2>2, <4>1, <4>2
      <3>4. QED
        BY <3>2, <3>3
    <2>3. CASE x # a
      <3>1. x \in D \ {a} /\ h2.obj[x] = h.obj[x]
        BY <1>1, <2>3
      <3>2. QED
        BY <2>1, <3>1 DEF Covers, Grounded
    <2>4. QED
      BY <2>2, <2>3
  <1>6. ASSUME NEW o \in D PROVE h2.obj[o].count >= ext2[o] + Cardinality(SlotsIn(h2.obj, {}, o))
    <2> DEFINE c == h.obj[o].count
               n == Cardinality(SlotsIn(h2.obj, {}, o))
               m == Cardinality(SlotsIn(h.obj, {a}, o))
               e == ext[o]
               e2 == ext2[o]
               k == Occ(s, o)
    <2>1. Cardinality(SlotsIn(h2.obj, {}, o)) = Cardinality(SlotsIn(h2.obj, {} \cup {a}, o)) + Occ(h2.obj[a].slots, o)
      BY <1>1, SlotsPart
    <2>2. SlotsIn(h2.obj, {} \cup {a}, o) = SlotsIn(h.obj, {a}, o)
      <3>1. {} \cup {a} = {a}
        OBVIOUS
      <3>2. \A x : x \in D \ {a} <=> x \in DOMAIN h2.obj \ {a}
        BY <1>1
      <3>3. \A x \in D \ {a} : h2.obj[x].slots = h.obj[x].slots
        BY <1>1
      <3>4. SlotsIn(h2.obj, {a}, o) = SlotsIn(h.obj, {a}, o)
        BY <3>2, <3>3, SlotsSame
      <3>5. QED
        BY <3>1, <3>4
    <2>3. n = m + k
      BY <2>1, <2>2
    <2>4. o \in Addresses /\ c \in Int /\ n \in Nat /\ m \in Nat
      BY <1>1, ObjectFacts, SlotsAreFinite
    <2>5. e \in Nat /\ e2 \in Nat /\ k \in Nat /\ e2 + k <= e
      BY <1>3, <2>4
    <2>6. c >= e + m
      BY DEF Covers, Counted
    <2>7. h2.obj[o].count = c
      BY <1>1
    <2> HIDE DEF c, n, m, e, e2, k, s
    <2>8. c >= e2 + n
      BY <2>3, <2>4, <2>5, <2>6
    <2>9. QED
      BY <2>7, <2>8 DEF e2, n
  <1>7. Counted(h2.obj, {}, ext2)
    BY <1>1, <1>6 DEF Counted
  <1>8. QED
    BY <1>1, <1>4, <1>5, <1>7 DEF Covers

-----------------------------------------------------------------------------
(* A new container.                                                          *)

LEMMA FreshIsFree ==
  ASSUME NEW h, Free(h) # {}
  PROVE  Fresh(h) \in Addresses /\ Fresh(h) \notin DOMAIN h.obj
  <1>1. Free(h) \in SUBSET Nat
    BY ValuesFacts DEF Free
  <1>2. \E o \in Free(h) : \A p \in Free(h) : o <= p
    BY <1>1, LeastMember
  <1>3. Fresh(h) \in Free(h)
    BY <1>2 DEF Fresh
  <1>4. QED
    BY <1>3 DEF Free

LEMMA NewFacts ==
  ASSUME NEW h, IsHeap(h), Free(h) # {}, NEW type \in {"array", "map", "row"},
         NEW keys \in Seq(Keys), NEW slots \in Seq(Values), Len(slots) <= MaxSlots,
         type # "array" => Len(keys) = Len(slots)
  PROVE  /\ IsHeap(object_new(h, type, keys, slots))
         /\ DOMAIN object_new(h, type, keys, slots).obj = DOMAIN h.obj \cup {Fresh(h)}
         /\ \A x \in DOMAIN h.obj : object_new(h, type, keys, slots).obj[x] = h.obj[x]
         /\ object_new(h, type, keys, slots).obj[Fresh(h)].slots = slots
         /\ object_new(h, type, keys, slots).obj[Fresh(h)].keys = keys
         /\ object_new(h, type, keys, slots).obj[Fresh(h)].type = type
         /\ object_new(h, type, keys, slots).obj[Fresh(h)].count = 1
  <1> DEFINE o == Fresh(h)
             new == [type |-> type, keys |-> keys, slots |-> slots, count |-> 1]
             t == [x \in DOMAIN h.obj \cup {o} |-> IF x = o THEN new ELSE h.obj[x]]
             r == Append(h.registry, o)
             h2 == object_new(h, type, keys, slots)
  <1>1. o \in Addresses /\ o \notin DOMAIN h.obj
    BY FreshIsFree
  <1>2. h2 = [obj |-> t, registry |-> r, allocations |-> h.allocations + 1]
    BY DEF object_new
  <1>3. IsObject(new) /\ new.slots = slots /\ new.keys = keys /\ new.type = type /\ new.count = 1
    BY DEF IsObject, Objects
  <1> HIDE DEF o, new, h2
  <1>4. /\ DOMAIN t = DOMAIN h.obj \cup {o} /\ t = [x \in DOMAIN t |-> t[x]]
        /\ t[o] = new /\ \A x \in DOMAIN h.obj : t[x] = h.obj[x]
    BY <1>1
  <1> HIDE DEF t
  <1>5. IsTable(t)
    <2>1. \A x \in DOMAIN t : IsObject(t[x])
      BY <1>3, <1>4 DEF IsHeap, IsTable
    <2>2. QED
      BY <1>1, <1>4, <2>1 DEF IsHeap, IsTable
  <1>6. Listed(r, DOMAIN h.obj \cup {o})
    <2> DEFINE g == h.registry
               n == Len(g)
               D == DOMAIN h.obj
    <2>1. /\ g \in Seq(D) /\ \A i, j \in DOMAIN g : i # j => g[i] # g[j]
          /\ \A x \in D : \E i \in DOMAIN g : g[i] = x
      BY DEF IsHeap, Listed
    <2>2. /\ r \in Seq(D \cup {o}) /\ DOMAIN r = 1 .. n + 1 /\ n \in Nat /\ DOMAIN g = 1 .. n
          /\ r[n + 1] = o /\ \A i \in 1 .. n : r[i] = g[i] /\ g[i] \in D
      <3>1. g \in Seq(D \cup {o}) /\ o \in D \cup {o}
        BY <2>1
      <3> HIDE DEF g, D
      <3>2. r = Append(g, o) /\ n \in Nat /\ DOMAIN g = 1 .. n
        BY <3>1 DEF g
      <3>3. r \in Seq(D \cup {o}) /\ Len(r) = n + 1 /\ r[n + 1] = o /\ \A i \in 1 .. n : r[i] = g[i]
        BY <3>1, <3>2
      <3>4. DOMAIN r = 1 .. n + 1
        BY <3>3
      <3>5. QED
        BY <2>1, <3>2, <3>3, <3>4
    <2> HIDE DEF g, r, n, D
    <2>3. \A i \in 1 .. n + 1 : i \in 1 .. n \/ i = n + 1
      BY <2>2
    <2>4. o \notin D
      BY <1>1 DEF D
    <2>5. \A i, j \in DOMAIN r : i # j => r[i] # r[j]
      BY <2>1, <2>2, <2>3, <2>4
    <2>6. \A x \in D \cup {o} : \E i \in DOMAIN r : r[i] = x
      <3>1. n + 1 \in 1 .. n + 1 /\ \A i \in 1 .. n : i \in 1 .. n + 1
        BY <2>2
      <3>2. QED
        BY <2>1, <2>2, <3>1
    <2>7. QED
      BY <2>2, <2>5, <2>6 DEF Listed, D
  <1> HIDE DEF r
  <1>7. h2.obj = t /\ h2.registry = r /\ h2.allocations = h.allocations + 1
        /\ h2 = [obj |-> h2.obj, registry |-> h2.registry, allocations |-> h2.allocations]
    BY <1>2
  <1>8. h.allocations + 1 \in Int
    BY DEF IsHeap
  <1>9. IsHeap(h2)
    BY <1>4, <1>5, <1>6, <1>7, <1>8 DEF IsHeap
  <1>10. QED
    BY <1>3, <1>4, <1>7, <1>9 DEF o, h2

LEMMA NewCovers ==
  ASSUME NEW h, NEW ext, Covers(h, {}, ext), Free(h) # {}, NEW type \in {"array", "map", "row"},
         NEW keys \in Seq(Keys), NEW slots \in Seq(Values), Len(slots) <= MaxSlots,
         type # "array" => Len(keys) = Len(slots),
         NEW ext2 \in Tallies, \A o \in Addresses : ext2[o] = ext[o] + One(Fresh(h), o)
  PROVE  Covers(object_new(h, type, keys, slots), {Fresh(h)}, ext2)
  <1> DEFINE a == Fresh(h)
             h2 == object_new(h, type, keys, slots)
             D == DOMAIN h.obj
  <1>1. a \in Addresses /\ a \notin D
    BY FreshIsFree
  <1>2. IsHeap(h) /\ IsTable(h.obj) /\ ext \in Tallies /\ D \subseteq Addresses
    BY DEF Covers, IsHeap, IsTable
  <1>3. /\ IsHeap(h2) /\ IsTable(h2.obj) /\ DOMAIN h2.obj = D \cup {a}
        /\ \A x \in D : h2.obj[x] = h.obj[x]
        /\ h2.obj[a].slots = slots /\ h2.obj[a].count = 1
    BY <1>2, NewFacts DEF IsHeap
  <1>4. \A o \in Addresses : ext[o] \in Nat /\ One(a, o) \in {0, 1} /\ ext2[o] = ext[o] + One(a, o)
    BY <1>2, OneType DEF Tallies
  <1> HIDE DEF h2, a
  <1>5. One(a, a) = 1 /\ \A o : o # a => One(a, o) = 0
    BY DEF One
  <1>6. ext2[a] = 1
    <2>1. ~(ext[a] > 0)
      BY <1>1 DEF Covers
    <2>2. QED
      BY <1>1, <1>4, <1>5, <2>1
  <1>7. \A o \in Addresses : ext2[o] > 0 => o \in D \cup {a}
    <2>1. \A o \in Addresses : ext[o] > 0 => o \in D
      BY DEF Covers
    <2>2. QED
      BY <1>4, <1>5, <2>1
  <1>8. Grounded(h2.obj, {a})
    BY <1>1, <1>3 DEF Covers, Grounded
  <1>9. ASSUME NEW o PROVE SlotsIn(h2.obj, {a}, o) = SlotsIn(h.obj, {}, o)
    <2>1. \A x : x \in D \ {} <=> x \in DOMAIN h2.obj \ {a}
      BY <1>1, <1>3
    <2>2. \A x \in D \ {} : h2.obj[x].slots = h.obj[x].slots
      BY <1>3
    <2>3. QED
      BY <2>1, <2>2, SlotsSame
  <1>10. ASSUME NEW o \in D \cup {a}
         PROVE  h2.obj[o].count >= ext2[o] + Cardinality(SlotsIn(h2.obj, {a}, o))
    <2>1. CASE o = a
      <3>1. SlotsIn(h.obj, {}, a) = {}
        BY <1>1, ValuesFacts DEF Covers, Grounded, SlotsIn
      <3>2. Cardinality(SlotsIn(h2.obj, {a}, a)) = 0
        BY <1>9, <3>1, FS_EmptySet
      <3>3. QED
        BY <1>3, <1>6, <2>1, <3>2
    <2>2. CASE o # a
      <3>1. o \in D /\ o \in Addresses
        BY <1>2, <2>2
      <3>2. h.obj[o].count >= ext[o] + Cardinality(SlotsIn(h.obj, {}, o))
        BY <3>1 DEF Covers, Counted
      <3>3. ext2[o] = ext[o]
        BY <1>4, <1>5, <2>2, <3>1
      <3>4. h2.obj[o].count = h.obj[o].count
        BY <1>3, <3>1
      <3>5. QED
        BY <1>9, <3>2, <3>3, <3>4
    <2>3. QED
      BY <2>1, <2>2
  <1>11. Counted(h2.obj, {a}, ext2)
    BY <1>3, <1>10 DEF Counted
  <1>12. Covers(h2, {a}, ext2)
    BY <1>3, <1>6, <1>7, <1>8, <1>11 DEF Covers
  <1>13. QED
    BY <1>12 DEF h2, a

-----------------------------------------------------------------------------
(* The collector's passes keep the counts right, whatever is marked.         *)

LEMMA BrokenFacts ==
  ASSUME NEW h, IsHeap(h), NEW marks
  PROVE  /\ IsHeap(Broken(h, marks)) /\ DOMAIN Broken(h, marks).obj = DOMAIN h.obj
         /\ \A o \in DOMAIN h.obj :
              /\ Broken(h, marks).obj[o].count = h.obj[o].count - Cardinality(BrokenTo(h, marks, o))
              /\ DOMAIN Broken(h, marks).obj[o].slots = DOMAIN h.obj[o].slots
              /\ \A j \in DOMAIN h.obj[o].slots :
                   Broken(h, marks).obj[o].slots[j]
                     = IF gc_break_edge(h, marks, o, j) THEN Scalar ELSE h.obj[o].slots[j]
         /\ \A o \in DOMAIN h.obj : IsFiniteSet(BrokenTo(h, marks, o))
  <1> DEFINE D == DOMAIN h.obj
             n(o) == Cardinality(BrokenTo(h, marks, o))
             IsCut(o, j) == gc_break_edge(h, marks, o, j)
             t == [o \in D |->
                     [h.obj[o] EXCEPT !.count = h.obj[o].count - n(o),
                                      !.slots = [j \in DOMAIN h.obj[o].slots |->
                                                   IF IsCut(o, j) THEN Scalar ELSE h.obj[o].slots[j]]]]
             h2 == Broken(h, marks)
  <1>1. h2 = [h EXCEPT !.obj = t]
    BY DEF Broken
  <1>2. ASSUME NEW o \in D PROVE IsFiniteSet(BrokenTo(h, marks, o)) /\ n(o) \in Nat
    <2>1. IsFiniteSet(SlotsIn(h.obj, {}, o))
      BY SlotsAreFinite DEF IsHeap
    <2>2. BrokenTo(h, marks, o) \in SUBSET SlotsIn(h.obj, {}, o)
      BY DEF BrokenTo, SlotsIn
    <2>3. IsFiniteSet(BrokenTo(h, marks, o))
      BY <2>1, <2>2, FS_Subset
    <2>4. QED
      BY <2>3, FS_CardinalityType
  <1>3. h2.obj = t /\ h2.registry = h.registry /\ h2.allocations = h.allocations
        /\ h2 = [obj |-> h2.obj, registry |-> h2.registry, allocations |-> h2.allocations]
    <2> HIDE DEF t, h2
    <2>1. QED
      BY <1>1 DEF IsHeap
  <1> HIDE DEF n, IsCut, h2
  <1>4. ASSUME NEW o \in D
        PROVE  /\ IsObject(t[o]) /\ t[o].count = h.obj[o].count - n(o)
               /\ t[o].slots = [j \in DOMAIN h.obj[o].slots |->
                                  IF IsCut(o, j) THEN Scalar ELSE h.obj[o].slots[j]]
    <2> DEFINE b == h.obj[o]
               s == [j \in DOMAIN b.slots |-> IF IsCut(o, j) THEN Scalar ELSE b.slots[j]]
               c == b.count - n(o)
    <2>1. t[o] = [b EXCEPT !.count = c, !.slots = s]
      OBVIOUS
    <2>2. IsObject(b) /\ b.slots \in Seq(Values) /\ b.count \in Int
      BY DEF IsHeap, IsTable, IsObject, Objects
    <2>3. c \in Int
      BY <1>2, <2>2
    <2>4. s \in Seq(Values) /\ Len(s) = Len(b.slots)
      <3> DEFINE q == b.slots
      <3>1. q \in Seq(Values) /\ Len(q) \in Nat /\ DOMAIN q = 1 .. Len(q) /\ \A j \in DOMAIN q : q[j] \in Values
        BY <2>2
      <3>2. s = [j \in DOMAIN q |-> IF IsCut(o, j) THEN Scalar ELSE q[j]]
        OBVIOUS
      <3> HIDE DEF q, s
      <3>3. s \in [1 .. Len(q) -> Values]
        BY <3>1, <3>2, ValuesFacts
      <3>4. s \in Seq(Values) /\ Len(s) = Len(q)
        BY <3>1, <3>3
      <3>5. QED
        BY <3>4 DEF q
    <2> HIDE DEF t, b, s, c
    <2>5. IsObject(t[o]) /\ t[o].count = c /\ t[o].slots = s
      BY <2>1, <2>2, <2>3, <2>4 DEF IsObject, Objects
    <2>6. QED
      BY <2>5 DEF b, c, s
  <1>5. DOMAIN t = D /\ t = [o \in D |-> t[o]]
    OBVIOUS
  <1> HIDE DEF t
  <1>6. IsTable(t)
    BY <1>4, <1>5 DEF IsTable, IsHeap
  <1>7. IsHeap(h2)
    BY <1>3, <1>5, <1>6 DEF IsHeap
  <1>8. ASSUME NEW o \in D
        PROVE  /\ h2.obj[o].count = h.obj[o].count - n(o)
               /\ DOMAIN h2.obj[o].slots = DOMAIN h.obj[o].slots
               /\ \A j \in DOMAIN h.obj[o].slots :
                    h2.obj[o].slots[j] = IF IsCut(o, j) THEN Scalar ELSE h.obj[o].slots[j]
               /\ IsFiniteSet(BrokenTo(h, marks, o))
    <2> DEFINE q == h.obj[o].slots
               b == h2.obj[o]
    <2>1. b.count = h.obj[o].count - n(o) /\ b.slots = [j \in DOMAIN q |-> IF IsCut(o, j) THEN Scalar ELSE q[j]]
      BY <1>3, <1>4
    <2> HIDE DEF b, q
    <2>2. DOMAIN b.slots = DOMAIN q /\ \A j \in DOMAIN q : b.slots[j] = IF IsCut(o, j) THEN Scalar ELSE q[j]
      BY <2>1
    <2>3. QED
      BY <1>2, <2>1, <2>2 DEF b, q
  <1>9. DOMAIN h2.obj = D
    BY <1>3, <1>5
  <1>10. QED
    BY <1>7, <1>8, <1>9 DEF n, IsCut, h2

LEMMA BrokenCovers ==
  ASSUME NEW h, NEW ext, Covers(h, {}, ext), NEW marks
  PROVE  Covers(Broken(h, marks), {}, ext)
  <1> DEFINE D == DOMAIN h.obj
             h2 == Broken(h, marks)
  <1>1. IsHeap(h) /\ IsTable(h.obj) /\ ext \in Tallies /\ D \subseteq Addresses
    BY DEF Covers, IsHeap, IsTable
  <1>2. /\ IsHeap(h2) /\ DOMAIN h2.obj = D
        /\ \A o \in D :
             /\ h2.obj[o].count = h.obj[o].count - Cardinality(BrokenTo(h, marks, o))
             /\ DOMAIN h2.obj[o].slots = DOMAIN h.obj[o].slots
             /\ \A j \in DOMAIN h.obj[o].slots :
                  h2.obj[o].slots[j] = IF gc_break_edge(h, marks, o, j) THEN Scalar ELSE h.obj[o].slots[j]
        /\ \A o \in D : IsFiniteSet(BrokenTo(h, marks, o))
    BY <1>1, BrokenFacts
  <1> HIDE DEF h2
  <1>3. Grounded(h2.obj, {})
    BY <1>2 DEF Covers, Grounded
  <1>4. ASSUME NEW o \in D PROVE h2.obj[o].count >= ext[o] + Cardinality(SlotsIn(h2.obj, {}, o))
    <2> DEFINE A == SlotsIn(h.obj, {}, o)
               B == BrokenTo(h, marks, o)
               C == SlotsIn(h2.obj, {}, o)
               c == h.obj[o].count
               e == ext[o]
    <2>1. o # Scalar /\ o \in Addresses /\ c \in Int
      BY <1>1, ObjectFacts
    <2>2. C = A \ B /\ A \cap B = B
      <3>1. ASSUME NEW x \in D, NEW j \in 1 .. MaxSlots
            PROVE  /\ <<x, j>> \in A <=> j \in DOMAIN h.obj[x].slots /\ h.obj[x].slots[j] = o
                   /\ <<x, j>> \in B <=> /\ j \in DOMAIN h.obj[x].slots /\ h.obj[x].slots[j] = o
                                         /\ gc_break_edge(h, marks, x, j)
                   /\ <<x, j>> \in C <=> j \in DOMAIN h2.obj[x].slots /\ h2.obj[x].slots[j] = o
        BY <1>2 DEF SlotsIn, BrokenTo
      <3>2. A \subseteq D \X (1 .. MaxSlots) /\ B \subseteq D \X (1 .. MaxSlots) /\ C \subseteq D \X (1 .. MaxSlots)
        BY <1>2 DEF SlotsIn, BrokenTo
      <3>3. ASSUME NEW x \in D, NEW j \in 1 .. MaxSlots
            PROVE  /\ <<x, j>> \in C <=> <<x, j>> \in A /\ <<x, j>> \notin B
                   /\ <<x, j>> \in B => <<x, j>> \in A
        <4>1. CASE j \in DOMAIN h.obj[x].slots
          <5>1. j \in DOMAIN h2.obj[x].slots
                /\ h2.obj[x].slots[j] = IF gc_break_edge(h, marks, x, j) THEN Scalar ELSE h.obj[x].slots[j]
            BY <1>2, <4>1
          <5> HIDE DEF A, B, C
          <5>2. QED
            BY <2>1, <3>1, <4>1, <5>1
        <4>2. CASE j \notin DOMAIN h.obj[x].slots
          <5>1. j \notin DOMAIN h2.obj[x].slots
            BY <1>2, <4>2
          <5> HIDE DEF A, B, C
          <5>2. QED
            BY <3>1, <4>2, <5>1
        <4>3. QED
          BY <4>1, <4>2
      <3> HIDE DEF A, B, C
      <3>4. ASSUME NEW edge \in D \X (1 .. MaxSlots)
            PROVE  (edge \in C <=> edge \in A /\ edge \notin B) /\ (edge \in B => edge \in A)
        <4>1. edge[1] \in D /\ edge[2] \in 1 .. MaxSlots /\ edge = <<edge[1], edge[2]>>
          OBVIOUS
        <4>2. QED
          BY <3>3, <4>1
      <3>5. QED
        BY <3>2, <3>4
    <2>3. IsFiniteSet(A)
      BY <1>1, SlotsAreFinite
    <2> HIDE DEF A, B, C, c, e
    <2>4. Cardinality(A \ B) = Cardinality(A) - Cardinality(A \cap B)
      BY <2>3, FS_Difference
    <2>5. Cardinality(C) = Cardinality(A) - Cardinality(B)
      BY <2>2, <2>4
    <2>6. IsFiniteSet(B) /\ Cardinality(A) \in Nat /\ Cardinality(B) \in Nat
      BY <1>2, <2>3, FS_CardinalityType DEF B
    <2>7. c >= e + Cardinality(A) /\ e \in Nat
      BY <1>1, <2>1 DEF Covers, Counted, Tallies, A, c, e
    <2>8. c - Cardinality(B) >= e + Cardinality(C)
      BY <2>1, <2>5, <2>6, <2>7
    <2>9. h2.obj[o].count = c - Cardinality(B)
      BY <1>2 DEF B, c
    <2>10. QED
      BY <2>8, <2>9 DEF C, e
  <1>5. Counted(h2.obj, {}, ext)
    BY <1>2, <1>4 DEF Counted
  <1>6. Covers(h2, {}, ext)
    BY <1>1, <1>2, <1>3, <1>5 DEF Covers
  <1>7. QED
    BY <1>6 DEF h2

LEMMA SweepCovers ==
  ASSUME NEW h, NEW ext, Covers(h, {}, ext), NEW marks, NEW work \in Orders(Unowned(h, marks))
  PROVE  Covers(gc_sweep_unreachable(h, marks, work), {}, ext)
  <1> DEFINE g == Broken(h, marks)
             r == RetainAll(g, work)
             ext2 == Plus(ext, work)
             n == Cardinality(Unowned(h, marks))
  <1>1. IsHeap(h) /\ IsTable(h.obj) /\ ext \in Tallies
    BY DEF Covers, IsHeap
  <1>2. Covers(g, {}, ext) /\ DOMAIN g.obj = DOMAIN h.obj
    BY <1>1, BrokenCovers, BrokenFacts
  <1>3. Unowned(h, marks) \subseteq DOMAIN h.obj /\ IsFiniteSet(DOMAIN h.obj)
        /\ DOMAIN h.obj \subseteq Values
    <2>1. DOMAIN h.obj \subseteq Addresses
      BY <1>1 DEF IsTable
    <2>2. QED
      BY <2>1, HeapBounds, FS_Subset DEF Unowned, Values
  <1>4. n \in Nat
    <2>1. IsFiniteSet(Unowned(h, marks))
      BY <1>3, FS_Subset
    <2>2. QED
      BY <2>1, FS_CardinalityType
  <1>5. work \in [1 .. n -> Unowned(h, marks)]
    BY DEF Orders
  <1> HIDE DEF n, g
  <1>6. work \in Seq(Values) /\ \A i \in DOMAIN work : work[i] \in DOMAIN g.obj \cup {Scalar}
    <2>1. work \in [1 .. n -> Values] /\ \A i \in 1 .. n : work[i] \in DOMAIN h.obj
      BY <1>3, <1>5
    <2>2. QED
      BY <1>2, <1>4, <2>1
  <1>7. /\ ext2 \in Tallies
        /\ \A o \in Addresses : ext2[o] = ext[o] + Occ(work, o) /\ ext[o] \in Nat /\ Occ(work, o) \in Nat
    BY <1>1, <1>6, PlusFacts
  <1> HIDE DEF ext2
  <1>8. Covers(r, {}, ext2)
    BY <1>2, <1>6, <1>7, RetainAllCovers
  <1>9. Pinned({}, ext) /\ \A o \in Addresses : ext[o] + Occ(work, o) <= ext2[o]
    <2>1. \A o \in Addresses : ext[o] + Occ(work, o) \in Nat
      BY <1>7
    <2>2. QED
      BY <1>1, <1>7, <2>1 DEF Pinned
  <1> HIDE DEF r
  <1>10. Covers(ReleaseAll(r, work), {}, ext)
    BY <1>6, <1>8, <1>9, ReleaseAllCovers
  <1>11. QED
    BY <1>10 DEF gc_sweep_unreachable, g, r

-----------------------------------------------------------------------------
(* The containers' operations.                                               *)

LEMMA Reachable ==
  ASSUME NEW h, NEW P, NEW ext, Covers(h, P, ext), NEW v \in Values, v # Scalar => ext[v] > 0
  PROVE  v \in DOMAIN h.obj \cup {Scalar}
  BY DEF Covers, Values

LEMMA SlotIsReachable ==
  ASSUME NEW h, NEW ext, Covers(h, {}, ext), NEW a \in DOMAIN h.obj, NEW i \in DOMAIN h.obj[a].slots
  PROVE  h.obj[a].slots[i] \in DOMAIN h.obj \cup {Scalar} /\ h.obj[a].slots[i] \in Values
  <1>1. h.obj[a].slots[i] \in DOMAIN h.obj \cup {Scalar}
    BY DEF Covers, Grounded
  <1>2. DOMAIN h.obj \subseteq Addresses
    BY DEF Covers, IsHeap, IsTable
  <1>3. QED
    BY <1>1, <1>2 DEF Values

LEMMA PinnedSurvives ==
  ASSUME NEW h, NEW a, NEW ext, Covers(h, {a}, ext)
  PROVE  a \in DOMAIN h.obj /\ IsHeap(h) /\ IsTable(h.obj) /\ a \in Addresses
         /\ h.obj[a].slots \in Seq(Values)
  <1>1. a \in DOMAIN h.obj /\ IsHeap(h) /\ IsTable(h.obj)
    BY DEF Covers, IsHeap
  <1>2. QED
    BY <1>1, ObjectFacts

LEMMA Repin ==
  ASSUME NEW h, NEW a, NEW ext, Covers(h, {a}, ext), NEW h2, Rewritten(h, h2, a)
  PROVE  Covers(h2, {a}, ext)
  <1> DEFINE D == DOMAIN h.obj
  <1>1. /\ IsHeap(h2) /\ DOMAIN h2.obj = D /\ \A x \in D : x # a => h2.obj[x] = h.obj[x]
        /\ h2.obj[a].count = h.obj[a].count /\ a \in D
    BY DEF Rewritten, Covers
  <1>2. ASSUME NEW o PROVE SlotsIn(h2.obj, {a}, o) = SlotsIn(h.obj, {a}, o)
    <2>1. \A x : x \in D \ {a} <=> x \in DOMAIN h2.obj \ {a}
      BY <1>1
    <2>2. \A x \in D \ {a} : h2.obj[x].slots = h.obj[x].slots
      BY <1>1
    <2>3. QED
      BY <2>1, <2>2, SlotsSame
  <1>3. \A o \in D : h2.obj[o].count = h.obj[o].count
    BY <1>1
  <1>4. Counted(h2.obj, {a}, ext)
    BY <1>1, <1>2, <1>3 DEF Covers, Counted
  <1>5. Grounded(h2.obj, {a})
    BY <1>1 DEF Covers, Grounded
  <1>6. QED
    BY <1>1, <1>4, <1>5 DEF Covers

(* New slots for a container that is held, in exchange for references. *)
LEMMA Exchange ==
  ASSUME NEW h, NEW ext, Covers(h, {}, ext), NEW a \in DOMAIN h.obj, ext[a] > 0,
         NEW h2, Rewritten(h, h2, a), NEW ext2 \in Tallies,
         \A o \in Addresses : ext2[o] + Occ(h2.obj[a].slots, o) <= ext[o] + Occ(h.obj[a].slots, o)
  PROVE  Covers(h2, {}, ext2)
  <1> DEFINE s == h.obj[a].slots
  <1>1. s \in Seq(Values) /\ ext \in Tallies
    BY ObjectFacts DEF Covers, IsHeap
  <1>2. Covers(h, {a}, Plus(ext, s))
    BY Pin
  <1> HIDE DEF s
  <1>3. \A o \in Addresses : Plus(ext, s)[o] = ext[o] + Occ(s, o)
    BY <1>1, PlusFacts
  <1>4. \A o \in Addresses : ext2[o] + Occ(h2.obj[a].slots, o) <= Plus(ext, s)[o]
    BY <1>3 DEF s
  <1>5. QED
    BY <1>2, <1>4, Unpin

Reslotted(h, h2, a, s) == h2 = [h EXCEPT !.obj[a].slots = s]

LEMMA SlotsAt ==
  ASSUME NEW h, IsHeap(h), NEW a \in DOMAIN h.obj, NEW s \in Seq(Values), Len(s) <= MaxSlots,
         h.obj[a].type # "array" => Len(s) = Len(h.obj[a].slots),
         NEW h2, Reslotted(h, h2, a, s)
  PROVE  Rewritten(h, h2, a) /\ h2.obj[a].slots = s /\ h2.obj[a].type = h.obj[a].type
  <1> DEFINE b == [h.obj[a] EXCEPT !.slots = s]
  <1>1. h.obj[a] \in Objects /\ IsObject(h.obj[a])
    BY DEF IsHeap, IsTable, IsObject
  <1>2. IsObject(b) /\ b.count = h.obj[a].count /\ b.slots = s /\ b.type = h.obj[a].type
    BY <1>1 DEF IsObject, Objects
  <1>3. h2 = [h EXCEPT !.obj = [h.obj EXCEPT ![a] = b]]
    BY DEF Reslotted
  <1> HIDE DEF b
  <1>4. QED
    BY <1>2, <1>3, ObjectAt

Rekeyed(h, h2, a, k, s) == h2 = [h EXCEPT !.obj[a].keys = k, !.obj[a].slots = s]

LEMMA KeyedAt ==
  ASSUME NEW h, IsHeap(h), NEW a \in DOMAIN h.obj, NEW s \in Seq(Values), NEW k \in Seq(Keys),
         Len(s) <= MaxSlots, Len(k) = Len(s),
         NEW h2, Rekeyed(h, h2, a, k, s)
  PROVE  Rewritten(h, h2, a) /\ h2.obj[a].slots = s /\ h2.obj[a].type = h.obj[a].type
  <1> DEFINE b1 == [h.obj[a] EXCEPT !.keys = k]
             b == [b1 EXCEPT !.slots = s]
  <1>1. h.obj[a] \in Objects /\ IsObject(h.obj[a])
    BY DEF IsHeap, IsTable, IsObject
  <1>2. IsObject(b) /\ b.count = h.obj[a].count /\ b.slots = s /\ b.type = h.obj[a].type
    BY <1>1 DEF IsObject, Objects
  <1>3. h2 = [h EXCEPT !.obj = [h.obj EXCEPT ![a] = b]]
    <2> DEFINE g == [h EXCEPT !.obj = [h.obj EXCEPT ![a] = b1]]
    <2>1. g = [h EXCEPT !.obj = [h.obj EXCEPT ![a] = b1]]
      OBVIOUS
    <2>3. h2 = [g EXCEPT !.obj = [g.obj EXCEPT ![a] = [g.obj[a] EXCEPT !.slots = s]]]
      BY DEF Rekeyed
    <2> HIDE DEF b1, g
    <2>2. g.obj = [h.obj EXCEPT ![a] = b1] /\ g.obj[a] = b1
      BY <2>1 DEF IsHeap, IsTable
    <2>4. h2 = [g EXCEPT !.obj = [g.obj EXCEPT ![a] = b]]
      BY <2>2, <2>3
    <2> HIDE DEF b
    <2>5. [g.obj EXCEPT ![a] = b] = [h.obj EXCEPT ![a] = b]
      BY <2>2
    <2>6. h2 = [g EXCEPT !.obj = [h.obj EXCEPT ![a] = b]]
      BY <2>4, <2>5
    <2> DEFINE t == [h.obj EXCEPT ![a] = b]
               u == [h.obj EXCEPT ![a] = b1]
    <2> HIDE DEF t, u
    <2>7. h2 = [g EXCEPT !.obj = t] /\ g = [h EXCEPT !.obj = u]
      BY <2>1, <2>6 DEF t, u
    <2>8. h2 = [h EXCEPT !.obj = t]
      BY <2>7
    <2>9. QED
      BY <2>8 DEF t
  <1> HIDE DEF b
  <1>4. Rewritten(h, h2, a) /\ h2.obj[a] = b
    BY <1>2, <1>3, ObjectAt
  <1>5. QED
    BY <1>2, <1>4

LEMMA CoversFacts ==
  ASSUME NEW h, NEW P, NEW ext, Covers(h, P, ext)
  PROVE  /\ ext \in Tallies /\ IsHeap(h) /\ IsTable(h.obj) /\ DOMAIN h.obj \subseteq Addresses
         /\ DOMAIN h.obj \subseteq Values /\ \A o \in Addresses : ext[o] \in Nat
  BY DEF Covers, IsHeap, IsTable, Tallies, Values

LEMMA PlusOne ==
  ASSUME NEW ext \in Tallies, NEW v \in Values
  PROVE  /\ Plus(ext, <<v>>) \in Tallies /\ <<v>> \in Seq(Values)
         /\ \A o \in Addresses : /\ Plus(ext, <<v>>)[o] = ext[o] + One(v, o)
                                 /\ ext[o] \in Nat /\ One(v, o) \in {0, 1}
  <1> DEFINE q == <<v>>
  <1>1. q \in Seq(Values) /\ \A o : Occ(q, o) = One(v, o)
    BY OccOne
  <1> HIDE DEF q
  <1>2. /\ Plus(ext, q) \in Tallies
        /\ \A o \in Addresses : Plus(ext, q)[o] = ext[o] + Occ(q, o) /\ ext[o] \in Nat
    BY <1>1, PlusFacts
  <1>3. QED
    BY <1>1, <1>2, OneType DEF q

LEMMA AppendCovers ==
  ASSUME NEW h, NEW ext, Covers(h, {}, ext), NEW a \in DOMAIN h.obj, ext[a] > 0,
         h.obj[a].type = "array", Len(h.obj[a].slots) < MaxSlots,
         NEW v \in Values, v # Scalar => ext[v] > 0
  PROVE  Covers(array_append(h, a, v), {}, ext)
  <1> DEFINE g == value_retain(h, v)
             ext2 == Plus(ext, <<v>>)
             s == h.obj[a].slots
             r == Append(s, v)
             h2 == array_append(h, a, v)
  <1>1. v \in DOMAIN h.obj \cup {Scalar} /\ ext \in Tallies /\ IsTable(h.obj)
    <2>1. v \in DOMAIN h.obj \cup {Scalar}
      BY Reachable
    <2>2. QED
      BY <2>1, CoversFacts
  <1>2. /\ ext2 \in Tallies
        /\ \A o \in Addresses : ext2[o] = ext[o] + One(v, o) /\ ext[o] \in Nat /\ One(v, o) \in {0, 1}
    BY <1>1, PlusOne
  <1> HIDE DEF ext2
  <1>3. Covers(g, {}, ext2) /\ Kept(h, g) /\ DOMAIN g.obj = DOMAIN h.obj
    BY <1>1, <1>2, RetainCovers
  <1>4. g.obj[a].slots = s /\ g.obj[a].type = "array" /\ IsHeap(g) /\ a \in DOMAIN g.obj
    BY <1>3 DEF Kept, Covers
  <1>5. s \in Seq(Values) /\ a \in Addresses
    BY <1>1, ObjectFacts
  <1>6. /\ r \in Seq(Values) /\ Len(r) <= MaxSlots
        /\ \A o : Occ(r, o) = Occ(s, o) + One(v, o)
    <2>1. r \in Seq(Values) /\ Len(r) = Len(s) + 1 /\ Len(s) \in Nat /\ MaxSlots \in Nat
      BY <1>5, HeapBounds
    <2>2. Len(r) <= MaxSlots
      BY <2>1
    <2>3. QED
      BY <1>5, <2>1, <2>2, OccAppend
  <1>7. h2 = [g EXCEPT !.obj[a].slots = r]
    <2>1. h2 = [g EXCEPT !.obj[a].slots = Append(g.obj[a].slots, v)]
      BY DEF array_append
    <2> HIDE DEF g, h2
    <2>2. QED
      BY <1>4, <2>1
  <1> HIDE DEF g, h2, r
  <1>8. Rewritten(g, h2, a) /\ h2.obj[a].slots = r
    <2>1. Reslotted(g, h2, a, r)
      BY <1>7 DEF Reslotted
    <2>2. QED
      BY <1>4, <1>6, <2>1, SlotsAt
  <1>9. ext2[a] > 0
    BY <1>2, <1>5
  <1>10. \A o \in Addresses : ext[o] + Occ(h2.obj[a].slots, o) <= ext2[o] + Occ(g.obj[a].slots, o)
    <2>1. \A o \in Addresses : Occ(s, o) \in Nat
      BY <1>5, OccType
    <2> HIDE DEF s
    <2>2. ASSUME NEW o \in Addresses PROVE ext[o] + Occ(r, o) <= ext2[o] + Occ(s, o)
      <3>1. ext[o] + (Occ(s, o) + One(v, o)) <= (ext[o] + One(v, o)) + Occ(s, o)
        BY <1>2, <2>1
      <3>2. QED
        BY <1>2, <1>6, <3>1
    <2>3. QED
      BY <1>4, <1>8, <2>2 DEF s
  <1>11. Covers(h2, {}, ext)
    BY <1>1, <1>3, <1>4, <1>8, <1>9, <1>10, Exchange
  <1>12. QED
    BY <1>11 DEF h2

LEMMA SetCovers ==
  ASSUME NEW h, NEW ext, Covers(h, {}, ext), NEW a \in DOMAIN h.obj, ext[a] > 0,
         NEW i \in DOMAIN h.obj[a].slots, NEW v \in Values, v # Scalar => ext[v] > 0
  PROVE  Covers(array_set(h, a, i, v), {}, ext)
  <1> DEFINE s == h.obj[a].slots
             r == [s EXCEPT ![i] = v]
             g == value_retain(h, v)
             ext1 == Plus(ext, <<v>>)
             ext2 == Plus(ext, r)
             k == value_release(g, s[i])
             h2 == array_set(h, a, i, v)
  <1>1. /\ v \in DOMAIN h.obj \cup {Scalar} /\ ext \in Tallies /\ IsTable(h.obj)
        /\ s \in Seq(Values) /\ a \in Addresses
    <2>1. v \in DOMAIN h.obj \cup {Scalar}
      BY Reachable
    <2>2. ext \in Tallies /\ IsTable(h.obj)
      BY CoversFacts
    <2>3. QED
      BY <2>1, <2>2, ObjectFacts
  <1>2. /\ ext1 \in Tallies
        /\ \A o \in Addresses : ext1[o] = ext[o] + One(v, o) /\ ext[o] \in Nat /\ One(v, o) \in {0, 1}
    BY <1>1, PlusOne
  <1> HIDE DEF ext1
  <1>3. Covers(g, {}, ext1) /\ Kept(h, g) /\ DOMAIN g.obj = DOMAIN h.obj
    BY <1>1, <1>2, RetainCovers
  <1>4. g.obj[a].slots = s /\ ext1[a] > 0
    BY <1>1, <1>2, <1>3 DEF Kept
  <1>5. Covers(g, {a}, Plus(ext1, s))
    BY <1>3, <1>4, Pin
  <1>6. /\ r \in Seq(Values) /\ Len(r) = Len(s) /\ s[i] \in Values
        /\ \A o : Occ(r, o) + One(s[i], o) = Occ(s, o) + One(v, o)
    BY <1>1, OccReplace
  <1>7. /\ ext2 \in Tallies
        /\ \A o \in Addresses : ext2[o] = ext[o] + Occ(r, o) /\ Occ(r, o) \in Nat
    BY <1>1, <1>6, PlusFacts
  <1>8. \A o \in Addresses : ext2[o] + Occ(<<s[i]>>, o) <= Plus(ext1, s)[o]
    <2>1. ASSUME NEW o \in Addresses PROVE ext2[o] + One(s[i], o) <= Plus(ext1, s)[o]
      <3>1. Plus(ext1, s)[o] = ext1[o] + Occ(s, o) /\ Occ(s, o) \in Nat /\ One(s[i], o) \in {0, 1}
        BY <1>1, <1>2, PlusFacts, OneType
      <3> DEFINE n == Occ(r, o)
                 m == Occ(s, o)
                 u == One(s[i], o)
                 w == One(v, o)
                 e == ext[o]
      <3>2. n \in Nat /\ m \in Nat /\ u \in {0, 1} /\ w \in {0, 1} /\ e \in Nat /\ n + u = m + w
        BY <1>2, <1>6, <1>7, <3>1
      <3>3. ext2[o] = e + n /\ Plus(ext1, s)[o] = (e + w) + m
        BY <1>2, <1>7, <3>1
      <3> HIDE DEF n, m, u, w, e, ext2
      <3>4. e + n + u <= e + w + m
        BY <3>2
      <3>5. QED
        BY <3>3, <3>4 DEF u
    <2>2. QED
      BY <1>6, <2>1, OccOne
  <1>9. Pinned({a}, ext2)
    BY <1>1, <1>2, <1>7 DEF Pinned
  <1> HIDE DEF ext2
  <1>10. Covers(k, {a}, ext2) /\ Kept(g, k)
    <2> DEFINE q == <<s[i]>>
    <2>1. q \in Seq(Values) /\ k = ReleaseAll(g, q)
      BY <1>6 DEF value_release
    <2> HIDE DEF q, k, g
    <2>2. QED
      BY <1>5, <1>8, <1>9, <2>1, ReleaseAllCovers DEF q
  <1> HIDE DEF k, g
  <1>11. a \in DOMAIN k.obj /\ IsHeap(k) /\ k.obj[a].slots = s
    BY <1>4, <1>10, PinnedSurvives DEF Kept
  <1>12. h2 = [k EXCEPT !.obj[a].slots = r]
    <2>1. h2 = [k EXCEPT !.obj[a].slots = [k.obj[a].slots EXCEPT ![i] = v]]
      BY DEF array_set, k, g
    <2> HIDE DEF h2
    <2>2. QED
      BY <1>11, <2>1
  <1>13. Len(s) <= MaxSlots
    BY DEF Covers, IsHeap, IsTable, IsObject
  <1> HIDE DEF h2, r
  <1>14. Rewritten(k, h2, a) /\ h2.obj[a].slots = r
    <2>1. Reslotted(k, h2, a, r)
      BY <1>12 DEF Reslotted
    <2>2. QED
      BY <1>6, <1>11, <1>13, <2>1, SlotsAt
  <1>15. \A o \in Addresses : ext[o] + Occ(h2.obj[a].slots, o) <= ext2[o]
    <2>1. \A o \in Addresses : ext[o] + Occ(r, o) <= ext2[o]
      BY <1>2, <1>7
    <2>2. QED
      BY <1>14, <2>1
  <1>16. Covers(h2, {}, ext)
    BY <1>1, <1>10, <1>14, <1>15, Unpin
  <1>17. QED
    BY <1>16 DEF h2

LEMMA KeyIsAt ==
  ASSUME NEW h, IsHeap(h), NEW m \in DOMAIN h.obj, h.obj[m].type # "array", NEW key
  PROVE  KeyAt(h, m, key) = 0 \/ KeyAt(h, m, key) \in DOMAIN h.obj[m].slots
  <1> DEFINE at == {i \in DOMAIN h.obj[m].keys : h.obj[m].keys[i] = key}
  <1>1. DOMAIN h.obj[m].keys = DOMAIN h.obj[m].slots /\ DOMAIN h.obj[m].slots \subseteq Nat
    BY ObjectFacts DEF IsHeap
  <1>2. CASE at = {}
    BY <1>2 DEF KeyAt
  <1>3. CASE at # {}
    <2>1. at \in SUBSET Nat
      BY <1>1
    <2>2. Min(at) \in at
      BY <1>3, <2>1, LeastMember
    <2>3. KeyAt(h, m, key) = Min(at)
      BY <1>3 DEF KeyAt
    <2>4. QED
      BY <1>1, <2>2, <2>3
  <1>4. QED
    BY <1>2, <1>3

LEMMA Unpinned ==
  ASSUME NEW h, NEW a, NEW ext0, Covers(h, {a}, ext0), NEW ext \in Tallies,
         \A o \in Addresses : ext0[o] = ext[o] + Occ(h.obj[a].slots, o)
  PROVE  Covers(h, {}, ext)
  <1>1. IsHeap(h) /\ a \in DOMAIN h.obj /\ h.obj[a].slots \in Seq(Values)
    BY PinnedSurvives
  <1>2. Rewritten(h, h, a)
    BY <1>1 DEF Rewritten
  <1>3. \A o \in Addresses : ext[o] \in Nat /\ Occ(h.obj[a].slots, o) \in Nat
    BY <1>1, OccType DEF Tallies
  <1>4. \A o \in Addresses : ext[o] + Occ(h.obj[a].slots, o) <= ext0[o]
    BY <1>3
  <1>5. QED
    BY <1>2, <1>4, Unpin

(* The old value goes before the new one is counted. *)
Replaced(h, h2, m, i, v) ==
  h2 = value_retain([value_release(h, h.obj[m].slots[i]) EXCEPT !.obj[m].slots[i] = v], v)

LEMMA ReplaceCovers ==
  ASSUME NEW h, NEW ext, Covers(h, {}, ext), NEW m \in DOMAIN h.obj, ext[m] > 0,
         NEW i \in DOMAIN h.obj[m].slots, NEW v \in Values, v # Scalar => ext[v] > 0,
         NEW h2, Replaced(h, h2, m, i, v)
  PROVE  /\ Covers(h2, {}, ext) /\ m \in DOMAIN h2.obj /\ h2.obj[m].type = h.obj[m].type
         /\ Len(h2.obj[m].slots) = Len(h.obj[m].slots)
  <1> DEFINE s == h.obj[m].slots
             z == [s EXCEPT ![i] = Scalar]
             r == [s EXCEPT ![i] = v]
             ext2 == Plus(ext, z)
             ext3 == Plus(ext, r)
             q == <<s[i]>>
             k == ReleaseAll(h, q)
             g == [k EXCEPT !.obj[m].slots[i] = v]
  <1>1. ext \in Tallies /\ IsHeap(h) /\ IsTable(h.obj) /\ s \in Seq(Values) /\ m \in Addresses
        /\ Len(s) <= MaxSlots
    <2>1. ext \in Tallies /\ IsHeap(h) /\ IsTable(h.obj)
      BY CoversFacts
    <2>2. QED
      BY <2>1, ObjectFacts DEF IsTable, IsObject
  <1>2. /\ z \in Seq(Values) /\ r \in Seq(Values) /\ Len(r) = Len(s) /\ s[i] \in Values
        /\ \A o : Occ(z, o) + One(s[i], o) = Occ(s, o) + One(Scalar, o)
        /\ \A o : Occ(r, o) + One(s[i], o) = Occ(s, o) + One(v, o)
    <2>1. i \in DOMAIN s /\ Scalar \in Values
      BY ValuesFacts
    <2>2. Len(r) = Len(s)
      OBVIOUS
    <2> HIDE DEF s
    <2>3. z \in Seq(Values) /\ s[i] \in Values /\ \A o : Occ(z, o) + One(s[i], o) = Occ(s, o) + One(Scalar, o)
      BY <1>1, <2>1, OccReplace
    <2>4. r \in Seq(Values) /\ \A o : Occ(r, o) + One(s[i], o) = Occ(s, o) + One(v, o)
      BY <1>1, <2>1, OccReplace
    <2>5. QED
      BY <2>2, <2>3, <2>4
  <1>3. /\ ext2 \in Tallies /\ ext3 \in Tallies
        /\ \A o \in Addresses : /\ ext2[o] = ext[o] + Occ(z, o) /\ ext3[o] = ext[o] + Occ(r, o)
                                /\ ext[o] \in Nat /\ Occ(z, o) \in Nat /\ Occ(r, o) \in Nat
    BY <1>1, <1>2, PlusFacts
  <1>4. q \in Seq(Values) /\ \A o : Occ(q, o) = One(s[i], o)
    BY <1>2, OccOne
  <1>5. ASSUME NEW o \in Addresses
        PROVE  /\ Plus(ext, s)[o] = ext2[o] + Occ(q, o)
               /\ ext3[o] = ext2[o] + One(v, o)
    <2> DEFINE n == Occ(s, o)
               n1 == Occ(z, o)
               n2 == Occ(r, o)
               u == One(s[i], o)
               w == One(v, o)
               e == ext[o]
    <2>1. One(Scalar, o) = 0
      BY ValuesFacts DEF One
    <2>2. Plus(ext, s)[o] = e + n /\ n \in Nat /\ u \in {0, 1} /\ w \in {0, 1}
      BY <1>1, PlusFacts, OneType
    <2>3. n1 + u = n /\ n2 + u = n + w /\ ext2[o] = e + n1 /\ ext3[o] = e + n2
          /\ n1 \in Nat /\ n2 \in Nat /\ e \in Nat /\ Occ(q, o) = u
      <3>1. n1 + u = n + One(Scalar, o) /\ n2 + u = n + w
        BY <1>2
      <3>2. n1 + u = n
        BY <2>1, <2>2, <3>1
      <3>3. QED
        BY <1>3, <1>4, <3>1, <3>2
    <2> HIDE DEF n, n1, n2, u, w, e, ext2, ext3, q
    <2>4. e + n = (e + n1) + u /\ e + n2 = (e + n1) + w
      BY <2>2, <2>3
    <2>5. QED
      BY <2>2, <2>3, <2>4 DEF w
  <1>6. Covers(h, {m}, Plus(ext, s))
    BY Pin
  <1>7. Pinned({m}, ext2)
    <2>1. ext2[m] = ext[m] + Occ(z, m) /\ ext[m] \in Nat /\ Occ(z, m) \in Nat
      BY <1>1, <1>3
    <2>2. ext2[m] > 0
      BY <2>1
    <2> HIDE DEF ext2
    <2>3. QED
      BY <1>3, <2>2 DEF Pinned
  <1>8. \A o \in Addresses : ext2[o] + Occ(q, o) <= Plus(ext, s)[o]
    <2>1. \A o \in Addresses : Plus(ext, s)[o] \in Nat
      BY <1>1, PlusFacts DEF Tallies
    <2>2. QED
      BY <1>5, <2>1
  <1> HIDE DEF q, k, z, ext2, ext3
  <1>9. Covers(k, {m}, ext2) /\ Kept(h, k)
    BY <1>4, <1>6, <1>7, <1>8, ReleaseAllCovers DEF k
  <1>10. m \in DOMAIN k.obj /\ IsHeap(k) /\ k.obj[m].slots = s /\ k.obj[m].type = h.obj[m].type
    BY <1>9, PinnedSurvives DEF Kept
  <1>11. g = [k EXCEPT !.obj[m].slots = r]
    BY <1>10
  <1> HIDE DEF g, r
  <1>12. Rewritten(k, g, m) /\ g.obj[m].slots = r /\ g.obj[m].type = k.obj[m].type
    <2>1. IsHeap(k) /\ m \in DOMAIN k.obj /\ r \in Seq(Values) /\ Len(r) = Len(k.obj[m].slots)
          /\ Len(r) <= MaxSlots
      BY <1>1, <1>2, <1>10
    <2> HIDE DEF s
    <2>2. Reslotted(k, g, m, r)
      BY <1>11 DEF Reslotted
    <2>3. QED
      BY <2>1, <2>2, SlotsAt
  <1>13. Covers(g, {m}, ext2)
    BY <1>9, <1>12, Repin
  <1>14. v \in DOMAIN g.obj \cup {Scalar}
    <2>1. v # Scalar => ext2[v] > 0
      <3>1. v # Scalar => v \in Addresses
        BY DEF Values
      <3>2. v # Scalar => ext[v] \in Nat /\ Occ(z, v) \in Nat /\ ext2[v] = ext[v] + Occ(z, v)
        BY <1>3, <3>1
      <3>3. QED
        BY <3>2
    <2>2. QED
      BY <1>13, <2>1, Reachable
  <1>15. h2 = value_retain(g, v)
    BY DEF g, k, q, value_release, Replaced
  <1>16. Covers(h2, {m}, ext3) /\ Kept(g, h2) /\ DOMAIN h2.obj = DOMAIN g.obj
    BY <1>3, <1>5, <1>13, <1>14, <1>15, RetainCovers
  <1>17. m \in DOMAIN h2.obj /\ h2.obj[m].slots = r /\ h2.obj[m].type = h.obj[m].type
    BY <1>10, <1>12, <1>16, PinnedSurvives DEF Kept
  <1>18. Covers(h2, {}, ext)
    BY <1>1, <1>3, <1>16, <1>17, Unpinned
  <1>19. QED
    BY <1>2, <1>17, <1>18

KeySet(h, h2, m, key, v) == h2 = keyed_set(h, m, key, v)

LEMMA KeyedCovers ==
  ASSUME NEW h, NEW ext, Covers(h, {}, ext), NEW m \in DOMAIN h.obj, ext[m] > 0,
         h.obj[m].type # "array", NEW key \in Keys, NEW v \in Values, v # Scalar => ext[v] > 0,
         KeyAt(h, m, key) = 0 => Len(h.obj[m].slots) < MaxSlots,
         NEW h2, KeySet(h, h2, m, key, v)
  PROVE  /\ Covers(h2, {}, ext) /\ m \in DOMAIN h2.obj /\ h2.obj[m].type = h.obj[m].type
         /\ Len(h2.obj[m].slots) <= Len(h.obj[m].slots) + 1
  <1> DEFINE i == KeyAt(h, m, key)
             s == h.obj[m].slots
  <1>1. /\ ext \in Tallies /\ IsHeap(h) /\ IsTable(h.obj) /\ s \in Seq(Values) /\ m \in Addresses
        /\ h.obj[m].keys \in Seq(Keys) /\ Len(h.obj[m].keys) = Len(s) /\ Len(s) \in Nat
    <2>1. ext \in Tallies /\ IsHeap(h) /\ IsTable(h.obj)
      BY CoversFacts
    <2>2. s \in Seq(Values) /\ m \in Addresses /\ h.obj[m].keys \in Seq(Keys)
      BY <2>1, ObjectFacts
    <2>3. Len(h.obj[m].keys) = Len(s) /\ Len(s) \in Nat
      BY <2>1, <2>2 DEF IsTable, IsObject
    <2>4. QED
      BY <2>1, <2>2, <2>3
  <1>2. i = 0 \/ i \in DOMAIN s
    BY <1>1, KeyIsAt
  <1> HIDE DEF i
  <1>3. CASE i # 0
    <2>1. i \in DOMAIN s /\ i > 0
      BY <1>1, <1>2, <1>3
    <2>2. Replaced(h, h2, m, i, v)
      BY <2>1 DEF keyed_set, i, Replaced, KeySet
    <2>3. /\ Covers(h2, {}, ext) /\ m \in DOMAIN h2.obj /\ h2.obj[m].type = h.obj[m].type
          /\ Len(h2.obj[m].slots) = Len(h.obj[m].slots)
      BY <2>1, <2>2, ReplaceCovers
    <2>4. QED
      BY <1>1, <2>3
  <1>4. CASE i = 0
    <2> DEFINE g == value_retain(h, v)
               r == Append(s, v)
               w == Append(h.obj[m].keys, key)
               ext2 == Plus(ext, <<v>>)
    <2>1. v \in DOMAIN h.obj \cup {Scalar}
      BY Reachable
    <2>2. /\ ext2 \in Tallies
          /\ \A o \in Addresses : ext2[o] = ext[o] + One(v, o) /\ ext[o] \in Nat /\ One(v, o) \in {0, 1}
      BY <1>1, PlusOne
    <2> HIDE DEF ext2
    <2>3. Covers(g, {}, ext2) /\ Kept(h, g) /\ DOMAIN g.obj = DOMAIN h.obj
      BY <2>1, <2>2, RetainCovers
    <2>4. /\ g.obj[m].slots = s /\ g.obj[m].keys = h.obj[m].keys /\ g.obj[m].type = h.obj[m].type
          /\ IsHeap(g) /\ m \in DOMAIN g.obj
      BY <2>3 DEF Kept, Covers
    <2>5. Len(s) < MaxSlots
      BY <1>4 DEF i
    <2>6. /\ r \in Seq(Values) /\ Len(r) = Len(s) + 1 /\ Len(r) <= MaxSlots
          /\ w \in Seq(Keys) /\ Len(w) = Len(r) /\ \A o : Occ(r, o) = Occ(s, o) + One(v, o)
      <3>1. r \in Seq(Values) /\ Len(r) = Len(s) + 1
        BY <1>1
      <3>2. w \in Seq(Keys) /\ Len(w) = Len(s) + 1
        BY <1>1
      <3>3. MaxSlots \in Nat
        BY HeapBounds
      <3>4. Len(r) <= MaxSlots
        BY <1>1, <2>5, <3>1, <3>3
      <3>5. QED
        BY <1>1, <3>1, <3>2, <3>4, OccAppend
    <2>7. h2 = [g EXCEPT !.obj[m].keys = Append(@, key), !.obj[m].slots = Append(@, v)]
      BY <1>4 DEF keyed_set, i, KeySet
    <2> HIDE DEF g
    <2>8. Rekeyed(g, h2, m, w, r)
      <3> DEFINE f == [g EXCEPT !.obj[m].keys = Append(@, key)]
                 t == Append(g.obj[m].slots, v)
      <3>1. h2 = [f EXCEPT !.obj[m].slots = t]
        BY <2>7
      <3>2. t = r /\ f = [g EXCEPT !.obj[m].keys = w]
        BY <2>4
      <3> HIDE DEF f, t
      <3>3. h2 = [f EXCEPT !.obj[m].slots = r]
        BY <3>1, <3>2
      <3> HIDE DEF r, w
      <3>4. QED
        BY <3>2, <3>3 DEF Rekeyed
    <2> HIDE DEF r, w
    <2>9. Rewritten(g, h2, m) /\ h2.obj[m].slots = r /\ h2.obj[m].type = g.obj[m].type
      BY <2>4, <2>6, <2>8, KeyedAt
    <2>10. ext2[m] > 0
      BY <1>1, <2>2
    <2>11. \A o \in Addresses : ext[o] + Occ(h2.obj[m].slots, o) <= ext2[o] + Occ(g.obj[m].slots, o)
      <3>1. \A o \in Addresses : Occ(s, o) \in Nat
        BY <1>1, OccType
      <3> HIDE DEF s
      <3>2. ASSUME NEW o \in Addresses PROVE ext[o] + Occ(r, o) <= ext2[o] + Occ(s, o)
        <4>1. ext[o] + (Occ(s, o) + One(v, o)) <= (ext[o] + One(v, o)) + Occ(s, o)
          BY <2>2, <3>1
        <4>2. QED
          BY <2>2, <2>6, <4>1
      <3>3. QED
        BY <2>4, <2>9, <3>2 DEF s
    <2>12. Covers(h2, {}, ext)
      BY <1>1, <2>3, <2>4, <2>9, <2>10, <2>11, Exchange
    <2>13. m \in DOMAIN h2.obj
      BY <2>4, <2>9 DEF Rewritten
    <2>14. QED
      BY <1>1, <2>4, <2>6, <2>9, <2>12, <2>13
  <1>5. QED
    BY <1>3, <1>4

LEMMA TrimCovers ==
  ASSUME NEW h, NEW ext, Covers(h, {}, ext), NEW a \in DOMAIN h.obj, ext[a] > 0,
         h.obj[a].type = "array", NEW n \in Nat
  PROVE  Covers(array_trim(h, a, n), {}, ext)
  <1> DEFINE s == h.obj[a].slots
             c == IF n > Len(s) THEN 0 ELSE Len(s) - n
             r == SubSeq(s, 1, c)
             q == SubSeq(s, c + 1, Len(s))
             k == ReleaseAll(h, q)
             ext2 == Plus(ext, r)
             h2 == array_trim(h, a, n)
  <1>1. /\ ext \in Tallies /\ IsHeap(h) /\ IsTable(h.obj) /\ s \in Seq(Values) /\ a \in Addresses
        /\ Len(s) \in Nat /\ Len(s) <= MaxSlots /\ MaxSlots \in Nat
    <2>1. ext \in Tallies /\ IsHeap(h) /\ IsTable(h.obj)
      BY CoversFacts
    <2>2. s \in Seq(Values) /\ a \in Addresses
      BY <2>1, ObjectFacts
    <2>3. QED
      BY <2>1, <2>2, HeapBounds DEF IsTable, IsObject
  <1>2. c \in 0 .. Len(s)
    BY <1>1
  <1>3. h2 = [k EXCEPT !.obj[a].slots = SubSeq(@, 1, c)]
    BY DEF array_trim
  <1>4. Covers(h, {a}, Plus(ext, s))
    BY Pin
  <1> HIDE DEF c, h2
  <1>5. /\ r \in Seq(Values) /\ q \in Seq(Values) /\ Len(r) = c
        /\ \A o : Occ(s, o) = Occ(r, o) + Occ(q, o)
    <2> HIDE DEF s
    <2>1. QED
      BY <1>1, <1>2, Cut, OccCut
  <1>6. /\ ext2 \in Tallies
        /\ \A o \in Addresses : /\ ext2[o] = ext[o] + Occ(r, o) /\ Occ(r, o) \in Nat /\ ext[o] \in Nat
                                /\ Plus(ext, s)[o] = ext[o] + Occ(s, o) /\ Occ(q, o) \in Nat
    <2> HIDE DEF s, r, q
    <2>1. QED
      BY <1>1, <1>5, PlusFacts, OccType DEF r
  <1> HIDE DEF r, q, ext2
  <1>7. Pinned({a}, ext2)
    <2>1. ext2[a] = ext[a] + Occ(r, a) /\ ext[a] \in Nat /\ Occ(r, a) \in Nat
      BY <1>1, <1>6
    <2>2. ext2[a] > 0
      BY <2>1
    <2>3. QED
      BY <1>6, <2>2 DEF Pinned
  <1>8. \A o \in Addresses : ext2[o] + Occ(q, o) <= Plus(ext, s)[o]
    <2>1. ASSUME NEW o \in Addresses PROVE ext2[o] + Occ(q, o) = Plus(ext, s)[o] /\ Plus(ext, s)[o] \in Nat
      <3>1. Occ(s, o) = Occ(r, o) + Occ(q, o)
        BY <1>5
      <3> HIDE DEF s
      <3>2. QED
        BY <1>6, <3>1
    <2>2. QED
      BY <2>1
  <1>9. Covers(k, {a}, ext2) /\ Kept(h, k)
    <2> HIDE DEF s
    <2>1. QED
      BY <1>4, <1>5, <1>7, <1>8, ReleaseAllCovers
  <1> HIDE DEF k
  <1>10. a \in DOMAIN k.obj /\ IsHeap(k) /\ k.obj[a].slots = s /\ k.obj[a].type = "array"
    BY <1>9, PinnedSurvives DEF Kept
  <1>11. Reslotted(k, h2, a, r)
    <2>1. SubSeq(k.obj[a].slots, 1, c) = r
      BY <1>10 DEF r
    <2>2. QED
      BY <1>3, <2>1 DEF Reslotted
  <1>12. Rewritten(k, h2, a) /\ h2.obj[a].slots = r
    <2>1. Len(r) <= MaxSlots
      BY <1>1, <1>2, <1>5
    <2> HIDE DEF s
    <2>2. QED
      BY <1>5, <1>10, <1>11, <2>1, SlotsAt
  <1>13. \A o \in Addresses : ext[o] + Occ(h2.obj[a].slots, o) <= ext2[o]
    BY <1>6, <1>12
  <1>14. Covers(h2, {}, ext)
    BY <1>1, <1>9, <1>12, <1>13, Unpin
  <1>15. QED
    BY <1>14 DEF h2

LEMMA DeleteCovers ==
  ASSUME NEW h, NEW ext, Covers(h, {}, ext), NEW m \in DOMAIN h.obj, ext[m] > 0,
         h.obj[m].type = "map", NEW key
  PROVE  Covers(map_delete(h, m, key), {}, ext)
  <1> DEFINE i == KeyAt(h, m, key)
             s == h.obj[m].slots
             w == h.obj[m].keys
             r == RemoveAt(s, i)
             z == RemoveAt(w, i)
             q == <<s[i]>>
             k == ReleaseAll(h, q)
             ext2 == Plus(ext, r)
             h2 == map_delete(h, m, key)
  <1>1. /\ ext \in Tallies /\ IsHeap(h) /\ IsTable(h.obj) /\ s \in Seq(Values) /\ m \in Addresses
        /\ w \in Seq(Keys) /\ Len(w) = Len(s) /\ Len(s) \in Nat /\ Len(s) <= MaxSlots /\ MaxSlots \in Nat
    <2>1. ext \in Tallies /\ IsHeap(h) /\ IsTable(h.obj)
      BY CoversFacts
    <2>2. s \in Seq(Values) /\ m \in Addresses /\ w \in Seq(Keys)
      BY <2>1, ObjectFacts
    <2>3. Len(w) = Len(s) /\ Len(s) \in Nat /\ Len(s) <= MaxSlots
      BY <2>1, <2>2 DEF IsTable, IsObject
    <2>4. QED
      BY <2>1, <2>2, <2>3, HeapBounds
  <1>2. i = 0 \/ i \in DOMAIN s
    BY <1>1, KeyIsAt
  <1>3. CASE i = 0
    BY <1>3 DEF map_delete
  <1>4. CASE i # 0
    <2>1. h2 = [k EXCEPT !.obj[m].keys = RemoveAt(@, i), !.obj[m].slots = RemoveAt(@, i)]
      BY <1>4 DEF map_delete, value_release
    <2> HIDE DEF h2, i
    <2>2. i \in DOMAIN s /\ i \in DOMAIN w
      <3>1. i \in DOMAIN s
        BY <1>2, <1>4
      <3> HIDE DEF s, w
      <3>2. QED
        BY <1>1, <3>1
    <2>3. Covers(h, {m}, Plus(ext, s))
      BY Pin
    <2>4. /\ r \in Seq(Values) /\ Len(r) = Len(s) - 1 /\ z \in Seq(Keys) /\ Len(z) = Len(w) - 1
          /\ s[i] \in Values /\ q \in Seq(Values)
          /\ \A o : Occ(r, o) + One(s[i], o) = Occ(s, o) /\ Occ(q, o) = One(s[i], o)
      <3> HIDE DEF s, w
      <3>1. s[i] \in Values
        BY <1>1, <2>2
      <3>2. QED
        BY <1>1, <2>2, <3>1, RemoveFacts, OccRemove, OccOne
    <2>5. /\ ext2 \in Tallies
          /\ \A o \in Addresses : /\ ext2[o] = ext[o] + Occ(r, o) /\ Occ(r, o) \in Nat /\ ext[o] \in Nat
                                  /\ Plus(ext, s)[o] = ext[o] + Occ(s, o) /\ Occ(q, o) \in Nat
      <3> HIDE DEF s, r, q
      <3>1. QED
        BY <1>1, <2>4, PlusFacts, OccType DEF r
    <2> HIDE DEF r, z, q, ext2
    <2>6. Pinned({m}, ext2)
      <3>1. ext2[m] = ext[m] + Occ(r, m) /\ ext[m] \in Nat /\ Occ(r, m) \in Nat
        BY <1>1, <2>5
      <3>2. ext2[m] > 0
        BY <3>1
      <3>3. QED
        BY <2>5, <3>2 DEF Pinned
    <2>7. \A o \in Addresses : ext2[o] + Occ(q, o) <= Plus(ext, s)[o]
      <3>1. ASSUME NEW o \in Addresses PROVE ext2[o] + Occ(q, o) = Plus(ext, s)[o] /\ Plus(ext, s)[o] \in Nat
        <4>1. Occ(s, o) = Occ(r, o) + Occ(q, o)
          BY <2>4
        <4> HIDE DEF s
        <4>2. QED
          BY <2>5, <4>1
      <3>2. QED
        BY <3>1
    <2>8. Covers(k, {m}, ext2) /\ Kept(h, k)
      <3> HIDE DEF s
      <3>1. QED
        BY <2>3, <2>4, <2>6, <2>7, ReleaseAllCovers
    <2> HIDE DEF k
    <2>9. m \in DOMAIN k.obj /\ IsHeap(k) /\ k.obj[m].slots = s /\ k.obj[m].keys = w /\ k.obj[m].type = "map"
      BY <2>8, PinnedSurvives DEF Kept
    <2>10. Rekeyed(k, h2, m, z, r)
      <3> DEFINE f == [k EXCEPT !.obj[m].keys = RemoveAt(@, i)]
                 t == RemoveAt(k.obj[m].slots, i)
      <3>1. h2 = [f EXCEPT !.obj[m].slots = t]
        BY <2>1
      <3>2. t = r
        BY <2>9 DEF r
      <3>3. f = [k EXCEPT !.obj[m].keys = z]
        BY <2>9 DEF z
      <3> HIDE DEF f, t
      <3>4. h2 = [f EXCEPT !.obj[m].slots = r]
        BY <3>1, <3>2
      <3>5. QED
        BY <3>3, <3>4 DEF Rekeyed
    <2>11. Rewritten(k, h2, m) /\ h2.obj[m].slots = r
      <3>1. Len(r) <= MaxSlots /\ Len(z) = Len(r)
        <4> HIDE DEF s, w
        <4>1. QED
          BY <1>1, <2>4
      <3> HIDE DEF s, w
      <3>2. QED
        BY <2>4, <2>9, <2>10, <3>1, KeyedAt
    <2>12. \A o \in Addresses : ext[o] + Occ(h2.obj[m].slots, o) <= ext2[o]
      BY <2>5, <2>11
    <2>13. Covers(h2, {}, ext)
      BY <1>1, <2>8, <2>11, <2>12, Unpin
    <2>14. QED
      BY <2>13 DEF h2
  <1>5. QED
    BY <1>3, <1>4

-----------------------------------------------------------------------------
(* The instructions.  What the stack and the saved locals hold is the tally  *)
(* of the references that come from outside the containers.                  *)

Ext(st, sv) == [o \in Addresses |-> Occ(st, o) + Occ(sv, o)]

HeapInv ==
    /\ stack \in Seq(Values)
    /\ saved \in Seq(Values)
    /\ Covers(heap, {}, Ext(stack, saved))

LEMMA ExtFacts ==
  ASSUME NEW st \in Seq(Values), NEW sv \in Seq(Values)
  PROVE  /\ Ext(st, sv) \in Tallies
         /\ \A o \in Addresses : /\ Ext(st, sv)[o] = Occ(st, o) + Occ(sv, o)
                                 /\ Occ(st, o) \in Nat /\ Occ(sv, o) \in Nat
  <1>1. \A o \in Addresses : Occ(st, o) \in Nat /\ Occ(sv, o) \in Nat
    BY OccType
  <1>2. \A o \in Addresses : Occ(st, o) + Occ(sv, o) \in Nat
    BY <1>1
  <1>3. QED
    BY <1>1, <1>2 DEF Ext, Tallies

LEMMA HeldCounts ==
  ASSUME NEW st \in Seq(Values), NEW sv \in Seq(Values)
  PROVE  /\ \A i \in DOMAIN st : st[i] \in Values /\ (st[i] # Scalar => Ext(st, sv)[st[i]] > 0)
         /\ \A i \in DOMAIN sv : sv[i] \in Values /\ (sv[i] # Scalar => Ext(st, sv)[sv[i]] > 0)
  <1> DEFINE e == Ext(st, sv)
  <1>1. \A v \in Values : v # Scalar => v \in Addresses
    BY DEF Values
  <1>2. \A o \in Addresses : e[o] = Occ(st, o) + Occ(sv, o) /\ Occ(st, o) \in Nat /\ Occ(sv, o) \in Nat
    BY ExtFacts
  <1> HIDE DEF e
  <1>3. ASSUME NEW i \in DOMAIN st, st[i] # Scalar PROVE e[st[i]] > 0
    <2>1. st[i] \in Values
      OBVIOUS
    <2>2. st[i] \in Addresses /\ Occ(st, st[i]) >= 1
      BY <1>1, <1>3, <2>1, OccPositive
    <2>3. QED
      BY <1>2, <2>2
  <1>4. ASSUME NEW i \in DOMAIN sv, sv[i] # Scalar PROVE e[sv[i]] > 0
    <2>1. sv[i] \in Values
      OBVIOUS
    <2>2. sv[i] \in Addresses /\ Occ(sv, sv[i]) >= 1
      BY <1>1, <1>4, <2>1, OccPositive
    <2>3. QED
      BY <1>2, <2>2
  <1>5. QED
    BY <1>3, <1>4 DEF e

LEMMA RetainedOne ==
  ASSUME NEW h, NEW ext, Covers(h, {}, ext), NEW v \in Values, v # Scalar => ext[v] > 0,
         NEW ext2 \in Tallies, \A o \in Addresses : ext2[o] = ext[o] + One(v, o)
  PROVE  Covers(value_retain(h, v), {}, ext2) /\ Kept(h, value_retain(h, v))
         /\ DOMAIN value_retain(h, v).obj = DOMAIN h.obj
  <1>1. v \in DOMAIN h.obj \cup {Scalar}
    BY Reachable
  <1>2. QED
    BY <1>1, RetainCovers

LEMMA Released ==
  ASSUME NEW h, NEW ext, Covers(h, {}, ext), NEW vs \in Seq(Values),
         NEW ext2 \in Tallies, \A o \in Addresses : ext2[o] + Occ(vs, o) <= ext[o]
  PROVE  Covers(ReleaseAll(h, vs), {}, ext2) /\ Kept(h, ReleaseAll(h, vs))
  <1>1. Pinned({}, ext2)
    BY DEF Pinned
  <1>2. QED
    BY <1>1, ReleaseAllCovers

LEMMA ReleasedOne ==
  ASSUME NEW h, NEW ext, Covers(h, {}, ext), NEW v \in Values,
         NEW ext2 \in Tallies, \A o \in Addresses : ext2[o] + One(v, o) <= ext[o]
  PROVE  Covers(value_release(h, v), {}, ext2) /\ Kept(h, value_release(h, v))
  <1> DEFINE q == <<v>>
  <1>1. q \in Seq(Values) /\ \A o : Occ(q, o) = One(v, o)
    BY OccOne
  <1>2. value_release(h, v) = ReleaseAll(h, q)
    BY DEF value_release
  <1> HIDE DEF q
  <1>3. QED
    BY <1>1, <1>2, Released

LEMMA PrefixFacts ==
  ASSUME NEW s \in Seq(Values), NEW k \in 1 .. Len(s)
  PROVE  /\ SubSeq(s, 1, k - 1) \in Seq(Values) /\ SubSeq(s, 1, k) \in Seq(Values) /\ s[k] \in Values
         /\ Len(SubSeq(s, 1, k - 1)) = k - 1 /\ Len(SubSeq(s, 1, k)) = k
         /\ \A o : Occ(SubSeq(s, 1, k), o) = Occ(SubSeq(s, 1, k - 1), o) + One(s[k], o)
  <1> DEFINE a == SubSeq(s, 1, k - 1)
             b == SubSeq(s, 1, k)
             v == s[k]
             c == Append(a, v)
  <1>1. Len(s) \in Nat /\ k \in Nat /\ k > 0 /\ k <= Len(s) /\ k - 1 \in 0 .. Len(s) /\ k \in 0 .. Len(s)
        /\ k - 1 + 1 = k /\ v \in Values
    OBVIOUS
  <1>2. a \in Seq(Values) /\ Len(a) = k - 1 /\ b \in Seq(Values) /\ Len(b) = k
    BY <1>1, Cut
  <1>3. (\A i \in 1 .. k - 1 : a[i] = s[i]) /\ (\A i \in 1 .. k : b[i] = s[i])
    BY <1>1
  <1> HIDE DEF a, b
  <1>4. c \in Seq(Values) /\ Len(c) = k /\ \A i \in 1 .. k : c[i] = IF i = k THEN v ELSE a[i]
    BY <1>1, <1>2
  <1> HIDE DEF c
  <1>5. \A i \in 1 .. k : c[i] = b[i]
    <2>1. \A i \in 1 .. k : i # k => i \in 1 .. k - 1
      BY <1>1
    <2>2. QED
      BY <1>3, <1>4, <2>1
  <1>6. c = b
    BY <1>2, <1>4, <1>5, SeqEqual
  <1>7. \A o : Occ(c, o) = Occ(a, o) + One(v, o)
    BY <1>1, <1>2, OccAppend DEF c
  <1>8. QED
    BY <1>1, <1>2, <1>6, <1>7 DEF a, b

LEMMA TopFacts ==
  ASSUME stack \in Seq(Values), stack # <<>>
  PROVE  /\ Drop(1) \in Seq(Values) /\ Top(0) \in Values /\ Len(stack) - 0 \in DOMAIN stack
         /\ Top(0) = stack[Len(stack)] /\ Len(Drop(1)) = Len(stack) - 1
         /\ \A o : Occ(stack, o) = Occ(Drop(1), o) + One(Top(0), o)
  <1> DEFINE n == Len(stack)
  <1>1. n \in Nat /\ n \in 1 .. n /\ n - 0 = n /\ n \in DOMAIN stack
    OBVIOUS
  <1>2. SubSeq(stack, 1, n) = stack
    OBVIOUS
  <1> HIDE DEF n
  <1>3. /\ SubSeq(stack, 1, n - 1) \in Seq(Values) /\ stack[n] \in Values /\ Len(SubSeq(stack, 1, n - 1)) = n - 1
        /\ \A o : Occ(stack, o) = Occ(SubSeq(stack, 1, n - 1), o) + One(stack[n], o)
    <2>1. /\ SubSeq(stack, 1, n - 1) \in Seq(Values) /\ stack[n] \in Values /\ Len(SubSeq(stack, 1, n - 1)) = n - 1
          /\ \A o : Occ(SubSeq(stack, 1, n), o) = Occ(SubSeq(stack, 1, n - 1), o) + One(stack[n], o)
      BY <1>1, PrefixFacts DEF n
    <2>2. QED
      BY <1>2, <2>1
  <1>4. QED
    BY <1>1, <1>3 DEF Drop, Top, n

LEMMA TopTwo ==
  ASSUME stack \in Seq(Values), Len(stack) > 1
  PROVE  /\ Drop(2) \in Seq(Values) /\ Top(0) \in Values /\ Top(1) \in Values
         /\ Len(stack) - 0 \in DOMAIN stack /\ Len(stack) - 1 \in DOMAIN stack
         /\ \A o : Occ(stack, o) = Occ(Drop(2), o) + One(Top(1), o) + One(Top(0), o)
  <1> DEFINE n == Len(stack)
  <1>1. n \in Nat /\ n - 1 \in 1 .. n /\ n - 1 - 1 = n - 2 /\ stack # <<>> /\ n - 1 \in DOMAIN stack
    OBVIOUS
  <1>2. /\ Top(0) \in Values /\ Len(stack) - 0 \in DOMAIN stack
        /\ \A o : Occ(stack, o) = Occ(SubSeq(stack, 1, n - 1), o) + One(Top(0), o)
    BY <1>1, TopFacts DEF Drop
  <1> HIDE DEF n
  <1>3. /\ SubSeq(stack, 1, n - 2) \in Seq(Values) /\ stack[n - 1] \in Values
        /\ \A o : Occ(SubSeq(stack, 1, n - 1), o) = Occ(SubSeq(stack, 1, n - 2), o) + One(stack[n - 1], o)
    BY <1>1, PrefixFacts DEF n
  <1>4. Top(1) = stack[n - 1] /\ Drop(2) = SubSeq(stack, 1, n - 2)
    BY DEF Top, Drop, n
  <1>5. QED
    BY <1>1, <1>2, <1>3, <1>4 DEF n

LEMMA TopCounts ==
  ASSUME HeapInv
  PROVE  /\ stack # <<>> /\ Top(0) # Scalar => Ext(stack, saved)[Top(0)] > 0
         /\ Len(stack) > 1 /\ Top(1) # Scalar => Ext(stack, saved)[Top(1)] > 0
  <1>1. stack \in Seq(Values) /\ saved \in Seq(Values)
    BY DEF HeapInv
  <1>2. stack # <<>> => Len(stack) - 0 \in DOMAIN stack
    BY <1>1, TopFacts
  <1>3. Len(stack) > 1 => Len(stack) - 1 \in DOMAIN stack
    BY <1>1, TopTwo
  <1>4. QED
    BY <1>1, <1>2, <1>3, HeldCounts DEF Top

LEMMA ConstPreserves == ASSUME HeapInv, Const PROVE HeapInv'
  <1> DEFINE t == Append(stack, Scalar)
  <1>1. stack' = t /\ heap' = heap /\ saved' = saved
    BY DEF Const
  <1>2. stack \in Seq(Values) /\ saved \in Seq(Values) /\ Covers(heap, {}, Ext(stack, saved))
    BY DEF HeapInv
  <1>3. t \in Seq(Values) /\ \A o \in Addresses : Occ(t, o) = Occ(stack, o) + 0 /\ Occ(stack, o) \in Nat
    BY <1>2, OccAppend, OccType, ValuesFacts DEF One
  <1> HIDE DEF t
  <1>4. \A o \in Addresses : Ext(t, saved)[o] <= Ext(stack, saved)[o]
    BY <1>2, <1>3, ExtFacts
  <1>5. Covers(heap, {}, Ext(t, saved))
    BY <1>2, <1>3, <1>4, ExtFacts, Weaken
  <1>6. QED
    BY <1>1, <1>2, <1>3, <1>5 DEF HeapInv

LEMMA GetLocalPreserves == ASSUME HeapInv, NEW i \in DOMAIN stack, GetLocal(i) PROVE HeapInv'
  <1> DEFINE v == stack[i]
             t == Append(stack, v)
             e == Ext(stack, saved)
  <1>1. stack' = t /\ heap' = value_retain(heap, v) /\ saved' = saved
    BY DEF GetLocal
  <1>2. stack \in Seq(Values) /\ saved \in Seq(Values) /\ Covers(heap, {}, e)
    BY DEF HeapInv
  <1>3. v \in Values /\ (v # Scalar => e[v] > 0)
    BY <1>2, HeldCounts
  <1>4. t \in Seq(Values) /\ \A o : Occ(t, o) = Occ(stack, o) + One(v, o)
    BY <1>2, <1>3, OccAppend
  <1> HIDE DEF t, v
  <1>5. \A o \in Addresses : Ext(t, saved)[o] = e[o] + One(v, o)
    BY <1>2, <1>4, ExtFacts, OneType
  <1>6. Ext(t, saved) \in Tallies
    BY <1>2, <1>4, ExtFacts
  <1> HIDE DEF e
  <1>7. Covers(value_retain(heap, v), {}, Ext(t, saved))
    BY <1>2, <1>3, <1>5, <1>6, RetainedOne
  <1>8. QED
    BY <1>1, <1>2, <1>4, <1>7 DEF HeapInv

LEMMA PopPreserves == ASSUME HeapInv, Pop PROVE HeapInv'
  <1> DEFINE v == Top(0)
             t == Drop(1)
             e == Ext(stack, saved)
  <1>1. stack' = t /\ heap' = value_release(heap, v) /\ saved' = saved /\ stack # <<>>
    BY DEF Pop
  <1>2. stack \in Seq(Values) /\ saved \in Seq(Values) /\ Covers(heap, {}, e)
    BY DEF HeapInv
  <1>3. t \in Seq(Values) /\ v \in Values /\ \A o : Occ(stack, o) = Occ(t, o) + One(v, o)
    BY <1>1, <1>2, TopFacts
  <1> HIDE DEF t, v
  <1>4. Ext(t, saved) \in Tallies
    BY <1>2, <1>3, ExtFacts
  <1>5. \A o \in Addresses : Ext(t, saved)[o] + One(v, o) <= e[o]
    <2>1. \A o \in Addresses : /\ Ext(t, saved)[o] = Occ(t, o) + Occ(saved, o) /\ Occ(t, o) \in Nat
                               /\ Occ(saved, o) \in Nat /\ e[o] = Occ(stack, o) + Occ(saved, o)
      BY <1>2, <1>3, ExtFacts
    <2> HIDE DEF e
    <2>2. QED
      BY <1>3, <2>1, OneType
  <1> HIDE DEF e
  <1>6. Covers(value_release(heap, v), {}, Ext(t, saved))
    BY <1>2, <1>3, <1>4, <1>5, ReleasedOne
  <1>7. QED
    BY <1>1, <1>2, <1>3, <1>6 DEF HeapInv

(* The copy goes first to the stack, then to the saved locals. *)
LEMMA SetLocalPreserves ==
  ASSUME HeapInv, NEW i \in DOMAIN stack, NEW outermost, SetLocal(i, outermost)
  PROVE  HeapInv'
  <1> DEFINE v == Top(0)
             t == [stack EXCEPT ![i] = v]
             e == Ext(stack, saved)
             e1 == Plus(e, <<v>>)
             u == stack[i]
             stored == value_release(value_retain(heap, v), u)
             copied == outermost /\ i \in DOMAIN saved
  <1>1. stack' = t
        /\ heap' = (IF copied THEN value_retain(value_release(stored, saved[i]), v) ELSE stored)
        /\ saved' = (IF copied THEN [saved EXCEPT ![i] = v] ELSE saved)
    BY DEF SetLocal
  <1>2. stack \in Seq(Values) /\ saved \in Seq(Values) /\ Covers(heap, {}, e) /\ stack # <<>>
    BY DEF HeapInv
  <1>3. v \in Values /\ (v # Scalar => e[v] > 0)
    BY <1>2, TopFacts, TopCounts
  <1>4. t \in Seq(Values) /\ u \in Values /\ t[i] = v /\ i \in DOMAIN t
        /\ \A o : Occ(t, o) + One(u, o) = Occ(stack, o) + One(v, o)
    BY <1>2, <1>3, OccReplace
  <1>5. e \in Tallies /\ Ext(t, saved) \in Tallies
    BY <1>2, <1>4, ExtFacts
  <1>6. \A o \in Addresses : /\ Ext(t, saved)[o] = Occ(t, o) + Occ(saved, o) /\ Occ(t, o) \in Nat
                             /\ Occ(saved, o) \in Nat /\ e[o] = Occ(stack, o) + Occ(saved, o)
                             /\ Occ(stack, o) \in Nat
    BY <1>2, <1>4, ExtFacts
  <1> HIDE DEF e
  <1>7. e1 \in Tallies /\ \A o \in Addresses : e1[o] = e[o] + One(v, o)
    BY <1>3, <1>5, PlusOne
  <1> HIDE DEF e1, t, u, v
  <1>8. Covers(value_retain(heap, v), {}, e1)
    BY <1>2, <1>3, <1>7, RetainedOne
  <1>9. \A o \in Addresses : Ext(t, saved)[o] + One(u, o) <= e1[o]
    BY <1>4, <1>6, <1>7, OneType
  <1>10. Covers(stored, {}, Ext(t, saved))
    BY <1>4, <1>5, <1>8, <1>9, ReleasedOne
  <1> HIDE DEF stored
  <1>11. CASE ~copied
    BY <1>1, <1>2, <1>4, <1>10, <1>11 DEF HeapInv
  <1>12. CASE copied
    <2> DEFINE z == [saved EXCEPT ![i] = Scalar]
               r == [saved EXCEPT ![i] = v]
               y == saved[i]
               g == value_release(stored, y)
    <2>1. i \in DOMAIN saved /\ Scalar \in Values
      BY <1>12, ValuesFacts
    <2>2. /\ z \in Seq(Values) /\ y \in Values
          /\ \A o : Occ(z, o) + One(y, o) = Occ(saved, o) + One(Scalar, o)
      BY <1>2, <2>1, OccReplace
    <2>3. /\ r \in Seq(Values)
          /\ \A o : Occ(r, o) + One(y, o) = Occ(saved, o) + One(v, o)
      BY <1>2, <1>3, <2>1, OccReplace
    <2>4. heap' = value_retain(g, v) /\ saved' = r
      BY <1>1, <1>12
    <2> HIDE DEF z, r, y
    <2>5. Ext(t, z) \in Tallies /\ Ext(t, r) \in Tallies
      BY <1>4, <2>2, <2>3, ExtFacts
    <2>6. \A o \in Addresses : /\ Ext(t, z)[o] = Occ(t, o) + Occ(z, o) /\ Occ(z, o) \in Nat
                               /\ Ext(t, r)[o] = Occ(t, o) + Occ(r, o) /\ Occ(r, o) \in Nat
      BY <1>4, <2>2, <2>3, ExtFacts
    <2>7. \A o \in Addresses : One(Scalar, o) = 0
      BY ValuesFacts DEF One
    <2>8. \A o \in Addresses : Ext(t, z)[o] + One(y, o) <= Ext(t, saved)[o]
      BY <1>6, <2>2, <2>6, <2>7, OneType
    <2>9. Covers(g, {}, Ext(t, z))
      BY <1>10, <2>2, <2>5, <2>8, ReleasedOne
    <2> HIDE DEF g
    <2>10. v # Scalar => Ext(t, z)[v] > 0
      BY <1>4, <2>2, HeldCounts
    <2>11. \A o \in Addresses : Ext(t, r)[o] = Ext(t, z)[o] + One(v, o)
      <3>1. ASSUME NEW o \in Addresses PROVE Occ(r, o) = Occ(z, o) + One(v, o)
        <4> DEFINE n == Occ(saved, o)
                   n1 == Occ(z, o)
                   n2 == Occ(r, o)
                   x == One(y, o)
                   w == One(v, o)
        <4>1. n \in Nat /\ n1 \in Nat /\ n2 \in Nat /\ x \in {0, 1} /\ w \in {0, 1}
          BY <1>6, <2>6, OneType
        <4>2. n1 + x = n + 0 /\ n2 + x = n + w
          BY <2>2, <2>3, <2>7
        <4> HIDE DEF n, n1, n2, x, w
        <4>3. n2 = n1 + w
          BY <4>1, <4>2
        <4>4. QED
          BY <4>3 DEF n1, n2, w
      <3>2. QED
        BY <1>6, <2>6, <3>1, OneType
    <2>12. Covers(value_retain(g, v), {}, Ext(t, r))
      BY <1>3, <2>5, <2>9, <2>10, <2>11, RetainedOne
    <2>13. QED
      BY <1>1, <1>4, <2>3, <2>4, <2>12 DEF HeapInv
  <1>13. QED
    BY <1>11, <1>12

LEMMA ReturnPreserves ==
  ASSUME HeapInv, NEW frame \in DOMAIN stack, Return(frame)
  PROVE  HeapInv'
  <1> DEFINE v == Top(0)
             a == SubSeq(stack, 1, frame - 1)
             b == SubSeq(stack, frame, Len(stack))
             t == Append(a, v)
             g == value_retain(heap, v)
             e == Ext(stack, saved)
             e1 == Plus(e, <<v>>)
  <1>1. stack' = t /\ heap' = ReleaseAll(g, b) /\ saved' = saved
    BY DEF Return
  <1>2. stack \in Seq(Values) /\ saved \in Seq(Values) /\ Covers(heap, {}, e) /\ stack # <<>>
    BY DEF HeapInv
  <1>3. v \in Values /\ (v # Scalar => e[v] > 0)
    BY <1>2, TopFacts, TopCounts
  <1>4. a \in Seq(Values) /\ b \in Seq(Values) /\ \A o : Occ(stack, o) = Occ(a, o) + Occ(b, o)
    <2>1. frame - 1 \in 0 .. Len(stack) /\ frame - 1 + 1 = frame
      BY <1>2
    <2>2. QED
      BY <1>2, <2>1, OccCut
  <1> HIDE DEF a, b, v
  <1>5. t \in Seq(Values) /\ \A o : Occ(t, o) = Occ(a, o) + One(v, o)
    BY <1>3, <1>4, OccAppend
  <1> HIDE DEF t
  <1>6. e \in Tallies /\ Ext(t, saved) \in Tallies
    BY <1>2, <1>5, ExtFacts
  <1>7. \A o \in Addresses : /\ Ext(t, saved)[o] = Occ(t, o) + Occ(saved, o) /\ Occ(saved, o) \in Nat
                             /\ e[o] = Occ(stack, o) + Occ(saved, o) /\ Occ(a, o) \in Nat /\ Occ(b, o) \in Nat
    BY <1>2, <1>4, <1>5, ExtFacts, OccType
  <1> HIDE DEF e
  <1>8. e1 \in Tallies /\ \A o \in Addresses : e1[o] = e[o] + One(v, o)
    BY <1>3, <1>6, PlusOne
  <1> HIDE DEF e1
  <1>9. Covers(g, {}, e1)
    BY <1>2, <1>3, <1>8, RetainedOne
  <1> HIDE DEF g
  <1>10. \A o \in Addresses : Ext(t, saved)[o] + Occ(b, o) <= e1[o]
    BY <1>4, <1>5, <1>7, <1>8, OneType
  <1>11. Covers(ReleaseAll(g, b), {}, Ext(t, saved))
    BY <1>4, <1>6, <1>9, <1>10, Released
  <1>12. QED
    BY <1>1, <1>2, <1>5, <1>11 DEF HeapInv

(* A new container that counts what it is built from. *)
LEMMA BuiltCovers ==
  ASSUME NEW h, NEW ext, Covers(h, {}, ext), Free(h) # {}, NEW type \in {"array", "map", "row"},
         NEW keys \in Seq(Keys), NEW slots \in Seq(Values), Len(slots) <= MaxSlots,
         type # "array" => Len(keys) = Len(slots), \A o \in Addresses : Occ(slots, o) <= ext[o],
         NEW ext2 \in Tallies, \A o \in Addresses : ext2[o] = ext[o] + One(Fresh(h), o)
  PROVE  Covers(RetainAll(object_new(h, type, keys, slots), slots), {}, ext2)
  <1> DEFINE a == Fresh(h)
             new == object_new(h, type, keys, slots)
             r == RetainAll(new, slots)
             ext3 == Plus(ext2, slots)
  <1>1. IsHeap(h) /\ \A o \in Addresses : ext[o] \in Nat
    BY CoversFacts
  <1>2. Covers(new, {a}, ext2) /\ new.obj[a].slots = slots
    <2>1. Covers(new, {a}, ext2)
      BY NewCovers
    <2>2. new.obj[a].slots = slots
      BY <1>1, NewFacts
    <2>3. QED
      BY <2>1, <2>2
  <1> HIDE DEF new
  <1>3. ASSUME NEW i \in DOMAIN slots PROVE slots[i] \in DOMAIN new.obj \cup {Scalar}
    <2> DEFINE v == slots[i]
    <2>1. v \in Values /\ Occ(slots, v) >= 1 /\ Occ(slots, v) \in Nat
      BY OccPositive, OccType
    <2> HIDE DEF v
    <2>2. ASSUME v # Scalar PROVE ext2[v] > 0
      <3>1. v \in Addresses
        BY <2>1, <2>2 DEF Values
      <3>2. ext[v] \in Nat /\ ext[v] >= Occ(slots, v) /\ ext2[v] = ext[v] + One(a, v) /\ One(a, v) \in {0, 1}
        BY <1>1, <3>1, OneType
      <3>3. QED
        BY <2>1, <3>2
    <2>3. v \in DOMAIN new.obj \cup {Scalar}
      BY <1>2, <2>1, <2>2, Reachable
    <2>4. QED
      BY <2>3 DEF v
  <1>4. ext3 \in Tallies /\ \A o \in Addresses : ext3[o] = ext2[o] + Occ(slots, o)
    BY PlusFacts
  <1> HIDE DEF a, ext3
  <1>5. Covers(r, {a}, ext3) /\ Kept(new, r) /\ DOMAIN r.obj = DOMAIN new.obj
    BY <1>2, <1>3, <1>4, RetainAllCovers
  <1> HIDE DEF r
  <1>6. r.obj[a].slots = slots
    BY <1>2, <1>5, PinnedSurvives DEF Kept
  <1>7. Covers(r, {}, ext2)
    BY <1>4, <1>5, <1>6, Unpinned
  <1>8. QED
    BY <1>7 DEF r, new

LEMMA TakenFacts ==
  ASSUME stack \in Seq(Values), NEW n \in 0 .. Len(stack), NEW items,
         items = SubSeq(stack, Len(stack) - n + 1, Len(stack))
  PROVE  /\ Drop(n) \in Seq(Values) /\ items \in Seq(Values) /\ Len(items) = n
         /\ \A o : Occ(stack, o) = Occ(Drop(n), o) + Occ(items, o)
  <1> DEFINE k == Len(stack) - n
  <1>1. k \in 0 .. Len(stack) /\ Len(stack) - k = n
    OBVIOUS
  <1>2. items = SubSeq(stack, k + 1, Len(stack)) /\ Drop(n) = SubSeq(stack, 1, k)
    BY DEF Drop
  <1> HIDE DEF k
  <1>3. QED
    BY <1>1, <1>2, Cut, OccCut

(* What both array and struct literals do to the tally of the stack. *)
LEMMA BuiltTally ==
  ASSUME HeapInv, NEW n \in 0 .. Len(stack), NEW items,
         items = SubSeq(stack, Len(stack) - n + 1, Len(stack)), NEW a \in Addresses
  PROVE  /\ Append(Drop(n), a) \in Seq(Values) /\ items \in Seq(Values) /\ Len(items) = n
         /\ Plus(Ext(stack, saved), <<a>>) \in Tallies
         /\ Ext(Append(Drop(n), a), saved) \in Tallies
         /\ \A o \in Addresses :
              /\ Plus(Ext(stack, saved), <<a>>)[o] = Ext(stack, saved)[o] + One(a, o)
              /\ Occ(items, o) \in Nat /\ Ext(stack, saved)[o] \in Nat
              /\ Occ(items, o) <= Ext(stack, saved)[o]
              /\ Ext(Append(Drop(n), a), saved)[o] + Occ(items, o) = Plus(Ext(stack, saved), <<a>>)[o]
              /\ Ext(Append(Drop(n), a), saved)[o] <= Plus(Ext(stack, saved), <<a>>)[o]
  <1> DEFINE d == Drop(n)
             t == Append(d, a)
             e == Ext(stack, saved)
             e1 == Plus(e, <<a>>)
  <1>1. stack \in Seq(Values) /\ saved \in Seq(Values) /\ a \in Values
    BY ValuesFacts DEF HeapInv
  <1>2. d \in Seq(Values) /\ items \in Seq(Values) /\ Len(items) = n
        /\ \A o : Occ(stack, o) = Occ(d, o) + Occ(items, o)
    BY <1>1, TakenFacts
  <1> HIDE DEF d
  <1>3. t \in Seq(Values) /\ \A o : Occ(t, o) = Occ(d, o) + One(a, o)
    BY <1>1, <1>2, OccAppend
  <1> HIDE DEF t
  <1>4. e \in Tallies /\ Ext(t, saved) \in Tallies
    BY <1>1, <1>3, ExtFacts
  <1>5. \A o \in Addresses : /\ Ext(t, saved)[o] = Occ(t, o) + Occ(saved, o) /\ Occ(saved, o) \in Nat
                             /\ e[o] = Occ(stack, o) + Occ(saved, o) /\ Occ(d, o) \in Nat
                             /\ Occ(items, o) \in Nat
    BY <1>1, <1>2, <1>3, ExtFacts, OccType
  <1> HIDE DEF e
  <1>6. e1 \in Tallies /\ \A o \in Addresses : e1[o] = e[o] + One(a, o)
    BY <1>1, <1>4, PlusOne
  <1> HIDE DEF e1
  <1>7. ASSUME NEW o \in Addresses
        PROVE  /\ Occ(items, o) <= e[o] /\ Ext(t, saved)[o] + Occ(items, o) = e1[o]
               /\ Ext(t, saved)[o] <= e1[o] /\ e[o] \in Nat
    <2> DEFINE x == Occ(d, o)
               y == Occ(items, o)
               z == Occ(saved, o)
               w == One(a, o)
    <2>1. x \in Nat /\ y \in Nat /\ z \in Nat /\ w \in {0, 1}
      BY <1>5, OneType
    <2>2. Ext(t, saved)[o] = (x + w) + z /\ e[o] = (x + y) + z /\ e1[o] = e[o] + w
      BY <1>2, <1>3, <1>5, <1>6
    <2> HIDE DEF x, y, z, w
    <2>3. QED
      BY <2>1, <2>2 DEF y
  <1>8. QED
    BY <1>2, <1>3, <1>4, <1>5, <1>6, <1>7 DEF e1, e, t, d

LEMMA ArrayBuildPreserves ==
  ASSUME HeapInv, NEW n \in 0 .. Len(stack), ArrayBuild(n)
  PROVE  HeapInv'
  <1> DEFINE items == SubSeq(stack, Len(stack) - n + 1, Len(stack))
             a == Fresh(heap)
             t == Append(Drop(n), a)
             e == Ext(stack, saved)
             e1 == Plus(e, <<a>>)
             g == RetainAll(object_new(heap, "array", <<>>, items), items)
  <1>1. stack' = t /\ heap' = ReleaseAll(g, items) /\ saved' = saved /\ n <= MaxSlots /\ Free(heap) # {}
    BY DEF ArrayBuild, CanAllocate
  <1>2. saved \in Seq(Values) /\ Covers(heap, {}, e)
    BY DEF HeapInv
  <1>3. a \in Addresses
    BY <1>1, FreshIsFree
  <1>4. /\ t \in Seq(Values) /\ items \in Seq(Values) /\ Len(items) = n /\ e1 \in Tallies
        /\ Ext(t, saved) \in Tallies
        /\ \A o \in Addresses : /\ e1[o] = e[o] + One(a, o) /\ Occ(items, o) <= e[o]
                                /\ Ext(t, saved)[o] + Occ(items, o) = e1[o] /\ e[o] \in Nat
    BY <1>3, BuiltTally
  <1> HIDE DEF t, items, e1, e
  <1>5. Covers(g, {}, e1)
    <2>1. <<>> \in Seq(Keys) /\ "array" \in {"array", "map", "row"} /\ Len(items) <= MaxSlots
      BY <1>1, <1>4
    <2>2. QED
      BY <1>1, <1>2, <1>4, <2>1, BuiltCovers
  <1> HIDE DEF g, a
  <1>6. \A o \in Addresses : Ext(t, saved)[o] + Occ(items, o) <= e1[o]
    BY <1>4 DEF Tallies
  <1>7. Covers(ReleaseAll(g, items), {}, Ext(t, saved))
    BY <1>4, <1>5, <1>6, Released
  <1>8. QED
    BY <1>1, <1>2, <1>4, <1>7 DEF HeapInv

LEMMA KeyListFacts ==
  ASSUME NEW keys \in KeyLists
  PROVE  keys \in Seq(Keys) /\ Len(keys) \in Nat /\ Len(keys) <= MaxSlots
  <1>1. PICK n \in 0 .. MaxSlots : keys \in [1 .. n -> Keys]
    BY DEF KeyLists
  <1>2. n \in Nat /\ n <= MaxSlots
    BY HeapBounds
  <1>3. QED
    BY <1>1, <1>2

LEMMA StructBuildPreserves ==
  ASSUME HeapInv, NEW fields \in KeyLists, StructBuild(fields)
  PROVE  HeapInv'
  <1> DEFINE n == Len(fields)
             items == SubSeq(stack, Len(stack) - n + 1, Len(stack))
             a == Fresh(heap)
             t == Append(Drop(n), a)
             e == Ext(stack, saved)
             e1 == Plus(e, <<a>>)
             g == RetainAll(object_new(heap, "row", fields, items), items)
  <1>1. stack' = t /\ heap' = g /\ saved' = saved /\ n <= Len(stack) /\ Free(heap) # {}
    BY DEF StructBuild, CanAllocate
  <1>2. saved \in Seq(Values) /\ stack \in Seq(Values) /\ Covers(heap, {}, e)
    BY DEF HeapInv
  <1>3. a \in Addresses
    BY <1>1, FreshIsFree
  <1>4. n \in 0 .. Len(stack) /\ n <= MaxSlots /\ fields \in Seq(Keys)
    BY <1>1, <1>2, KeyListFacts
  <1> HIDE DEF n
  <1>5. /\ t \in Seq(Values) /\ items \in Seq(Values) /\ Len(items) = n /\ e1 \in Tallies
        /\ Ext(t, saved) \in Tallies
        /\ \A o \in Addresses : /\ e1[o] = e[o] + One(a, o) /\ Occ(items, o) <= e[o]
                                /\ Ext(t, saved)[o] <= e1[o]
    BY <1>3, <1>4, BuiltTally
  <1> HIDE DEF t, items, e1, e
  <1>6. Covers(g, {}, e1)
    <2>1. "row" \in {"array", "map", "row"} /\ Len(items) <= MaxSlots /\ Len(fields) = Len(items)
      BY <1>4, <1>5 DEF n
    <2>2. QED
      BY <1>1, <1>2, <1>4, <1>5, <2>1, BuiltCovers
  <1> HIDE DEF g, a
  <1>7. Covers(g, {}, Ext(t, saved))
    BY <1>5, <1>6, Weaken
  <1>8. QED
    BY <1>1, <1>2, <1>5, <1>7 DEF HeapInv

(* A value in place of the container on top, which is released. *)
LEMMA FetchPreserves ==
  ASSUME HeapInv, stack # <<>>, NEW v \in DOMAIN heap.obj \cup {Scalar}, Fetch(v)
  PROVE  HeapInv'
  <1> DEFINE u == Top(0)
             d == Drop(1)
             t == Append(d, v)
             g == value_retain(heap, v)
             e == Ext(stack, saved)
             e1 == Plus(e, <<v>>)
  <1>1. stack' = t /\ heap' = value_release(g, u) /\ saved' = saved
    BY DEF Fetch
  <1>2. saved \in Seq(Values) /\ stack \in Seq(Values) /\ Covers(heap, {}, e)
    BY DEF HeapInv
  <1>3. d \in Seq(Values) /\ u \in Values /\ \A o : Occ(stack, o) = Occ(d, o) + One(u, o)
    BY <1>2, TopFacts
  <1>4. v \in Values
    BY <1>2, CoversFacts, ValuesFacts
  <1> HIDE DEF d, u
  <1>5. t \in Seq(Values) /\ \A o : Occ(t, o) = Occ(d, o) + One(v, o)
    BY <1>3, <1>4, OccAppend
  <1> HIDE DEF t
  <1>6. e \in Tallies /\ Ext(t, saved) \in Tallies
    BY <1>2, <1>5, ExtFacts
  <1>7. \A o \in Addresses : /\ Ext(t, saved)[o] = Occ(t, o) + Occ(saved, o) /\ Occ(saved, o) \in Nat
                             /\ e[o] = Occ(stack, o) + Occ(saved, o) /\ Occ(d, o) \in Nat
    BY <1>2, <1>3, <1>5, ExtFacts
  <1> HIDE DEF e
  <1>8. e1 \in Tallies /\ \A o \in Addresses : e1[o] = e[o] + One(v, o)
    BY <1>4, <1>6, PlusOne
  <1> HIDE DEF e1
  <1>9. Covers(g, {}, e1)
    BY <1>2, <1>8, RetainCovers
  <1> HIDE DEF g
  <1>10. \A o \in Addresses : Ext(t, saved)[o] + One(u, o) <= e1[o]
    BY <1>3, <1>5, <1>7, <1>8, OneType
  <1>11. Covers(value_release(g, u), {}, Ext(t, saved))
    BY <1>3, <1>6, <1>9, <1>10, ReleasedOne
  <1>12. QED
    BY <1>1, <1>2, <1>5, <1>11 DEF HeapInv

(* The containers under the instructions are live. *)
LEMMA TopIsLive ==
  ASSUME HeapInv
  PROVE  /\ stack # <<>> /\ Top(0) # Scalar => Top(0) \in DOMAIN heap.obj
         /\ Len(stack) > 1 /\ Top(1) # Scalar => Top(1) \in DOMAIN heap.obj
  <1> DEFINE e == Ext(stack, saved)
  <1>1. stack \in Seq(Values) /\ Covers(heap, {}, e)
    BY DEF HeapInv
  <1>2. ASSUME stack # <<>>, Top(0) # Scalar PROVE Top(0) \in DOMAIN heap.obj
    <2>1. Top(0) \in Values /\ e[Top(0)] > 0
      BY <1>1, <1>2, TopFacts, TopCounts
    <2> HIDE DEF e
    <2>2. QED
      BY <1>1, <1>2, <2>1, Reachable
  <1>3. ASSUME Len(stack) > 1, Top(1) # Scalar PROVE Top(1) \in DOMAIN heap.obj
    <2>1. Top(1) \in Values /\ e[Top(1)] > 0
      BY <1>1, <1>3, TopTwo, TopCounts
    <2> HIDE DEF e
    <2>2. QED
      BY <1>1, <1>3, <2>1, Reachable
  <1>4. QED
    BY <1>2, <1>3

LEMMA IndexGetArrayPreserves ==
  ASSUME HeapInv, stack # <<>>, NEW i \in 1 .. MaxSlots, IndexGetArray(i)
  PROVE  HeapInv'
  <1> DEFINE v == heap.obj[Top(0)].slots[i]
  <1>1. Top(0) \in DOMAIN heap.obj /\ i \in DOMAIN heap.obj[Top(0)].slots /\ Fetch(v)
    BY TopIsLive DEF IndexGetArray, Is
  <1>2. v \in DOMAIN heap.obj \cup {Scalar}
    BY <1>1, SlotIsReachable DEF HeapInv
  <1> HIDE DEF v
  <1>3. QED
    BY <1>1, <1>2, FetchPreserves

LEMMA IndexGetRowPreserves ==
  ASSUME HeapInv, stack # <<>>, NEW field, IndexGetRow(field)
  PROVE  HeapInv'
  <1> DEFINE i == KeyAt(heap, Top(0), field)
             v == IF i = 0 THEN Scalar ELSE heap.obj[Top(0)].slots[i]
  <1>1. Top(0) \in DOMAIN heap.obj /\ heap.obj[Top(0)].type = "row" /\ Fetch(v)
    BY TopIsLive DEF IndexGetRow, Is
  <1>2. i = 0 \/ i \in DOMAIN heap.obj[Top(0)].slots
    BY <1>1, KeyIsAt DEF HeapInv, Covers
  <1> HIDE DEF i
  <1>3. v \in DOMAIN heap.obj \cup {Scalar}
    <2>1. CASE i = 0
      BY <2>1
    <2>2. CASE i # 0
      BY <1>1, <1>2, <2>2, SlotIsReachable DEF HeapInv
    <2>3. QED
      BY <2>1, <2>2
  <1> HIDE DEF v
  <1>4. QED
    BY <1>1, <1>3, FetchPreserves

(* A program that reads no containers out of maps reads scalars. *)
LEMMA IndexGetMapPreserves ==
  ASSUME HeapInv, stack # <<>>, ~MapIndexing, NEW key, IndexGetMap(key)
  PROVE  HeapInv'
  <1> DEFINE u == Top(0)
             d == Drop(1)
             t == Append(d, Scalar)
             e == Ext(stack, saved)
             v == heap.obj[Top(0)].slots[KeyAt(heap, Top(0), key)]
             g == value_release(heap, Scalar)
  <1>1. v = Scalar
    BY DEF IndexGetMap
  <1>2. heap' = value_release(value_release(value_retain(heap, v), v), u) /\ stack' = Append(d, v) /\ saved' = saved
    BY DEF IndexGetMap
  <1> HIDE DEF v
  <1>3. stack' = t /\ heap' = value_release(g, u)
    BY <1>1, <1>2 DEF value_retain
  <1>4. saved \in Seq(Values) /\ stack \in Seq(Values) /\ Covers(heap, {}, e)
    BY DEF HeapInv
  <1>5. d \in Seq(Values) /\ u \in Values /\ \A o : Occ(stack, o) = Occ(d, o) + One(u, o)
    BY <1>4, TopFacts
  <1> HIDE DEF d, u
  <1>6. t \in Seq(Values) /\ \A o \in Addresses : Occ(t, o) = Occ(d, o) + 0 /\ One(Scalar, o) = 0
    BY <1>5, OccAppend, ValuesFacts DEF One
  <1> HIDE DEF t
  <1>7. e \in Tallies /\ Ext(t, saved) \in Tallies
    BY <1>4, <1>6, ExtFacts
  <1>8. \A o \in Addresses : /\ Ext(t, saved)[o] = Occ(t, o) + Occ(saved, o) /\ Occ(saved, o) \in Nat
                             /\ e[o] = Occ(stack, o) + Occ(saved, o) /\ Occ(d, o) \in Nat
    BY <1>4, <1>5, <1>6, ExtFacts
  <1> HIDE DEF e
  <1>9. Covers(g, {}, e)
    <2>1. \A o \in Addresses : e[o] + One(Scalar, o) <= e[o]
      BY <1>6, <1>7 DEF Tallies
    <2>2. QED
      BY <1>4, <1>7, <2>1, ReleasedOne, ValuesFacts
  <1> HIDE DEF g
  <1>10. \A o \in Addresses : Ext(t, saved)[o] + One(u, o) <= e[o]
    BY <1>5, <1>6, <1>8, OneType
  <1>11. Covers(value_release(g, u), {}, Ext(t, saved))
    BY <1>5, <1>7, <1>9, <1>10, ReleasedOne
  <1>12. QED
    BY <1>2, <1>3, <1>4, <1>6, <1>11 DEF HeapInv

LEMMA OccTwo ==
  ASSUME NEW u \in Values, NEW v \in Values
  PROVE  <<u, v>> \in Seq(Values) /\ \A o : Occ(<<u, v>>, o) = One(u, o) + One(v, o)
  <1> DEFINE p == <<u>>
             q == <<u, v>>
  <1>1. p \in Seq(Values) /\ q = Append(p, v) /\ \A o : Occ(p, o) = One(u, o)
    BY OccOne
  <1> HIDE DEF p, q
  <1>2. q \in Seq(Values) /\ \A o : Occ(q, o) = One(u, o) + One(v, o)
    BY <1>1, OccAppend
  <1>3. QED
    BY <1>2 DEF q

(* The container and the value leave the stack. *)
LEMMA StorePreserves ==
  ASSUME HeapInv, Len(stack) > 1, NEW g, Covers(g, {}, Ext(stack, saved)), Store(g)
  PROVE  HeapInv'
  <1> DEFINE u == Top(0)
             v == Top(1)
             d == Drop(2)
             q == <<u, v>>
             e == Ext(stack, saved)
  <1>1. heap' = ReleaseAll(g, q) /\ stack' = d /\ saved' = saved
    BY DEF Store
  <1>2. saved \in Seq(Values) /\ stack \in Seq(Values)
    BY DEF HeapInv
  <1>3. d \in Seq(Values) /\ u \in Values /\ v \in Values
        /\ \A o : Occ(stack, o) = Occ(d, o) + One(v, o) + One(u, o)
    BY <1>2, TopTwo
  <1> HIDE DEF d, u, v
  <1>4. q \in Seq(Values) /\ \A o : Occ(q, o) = One(u, o) + One(v, o)
    BY <1>3, OccTwo
  <1> HIDE DEF q
  <1>5. e \in Tallies /\ Ext(d, saved) \in Tallies
    BY <1>2, <1>3, ExtFacts
  <1>6. \A o \in Addresses : /\ Ext(d, saved)[o] = Occ(d, o) + Occ(saved, o) /\ Occ(saved, o) \in Nat
                             /\ e[o] = Occ(stack, o) + Occ(saved, o) /\ Occ(d, o) \in Nat
    BY <1>2, <1>3, ExtFacts
  <1> HIDE DEF e
  <1>7. \A o \in Addresses : Ext(d, saved)[o] + Occ(q, o) <= e[o]
    BY <1>3, <1>4, <1>6, OneType
  <1>8. Covers(ReleaseAll(g, q), {}, Ext(d, saved))
    BY <1>4, <1>5, <1>7, Released DEF e
  <1>9. QED
    BY <1>1, <1>2, <1>3, <1>8 DEF HeapInv

LEMMA IndexSetArrayPreserves ==
  ASSUME HeapInv, Len(stack) > 1, NEW i \in 1 .. MaxSlots, IndexSetArray(i)
  PROVE  HeapInv'
  <1> DEFINE a == Top(1)
             v == Top(0)
             e == Ext(stack, saved)
             g == array_set(heap, a, i, v)
  <1>1. a # Scalar /\ a \in DOMAIN heap.obj /\ i \in DOMAIN heap.obj[a].slots /\ Store(g)
    BY TopIsLive DEF IndexSetArray, Is
  <1>2. stack \in Seq(Values) /\ stack # <<>> /\ Covers(heap, {}, e)
    BY DEF HeapInv
  <1>3. v \in Values /\ (v # Scalar => e[v] > 0) /\ e[a] > 0
    BY <1>1, <1>2, TopTwo, TopCounts
  <1> HIDE DEF a, v, e
  <1>4. Covers(g, {}, e)
    BY <1>1, <1>2, <1>3, SetCovers
  <1> HIDE DEF g
  <1>5. QED
    BY <1>1, <1>4, StorePreserves DEF e

LEMMA IndexSetKeyedPreserves ==
  ASSUME HeapInv, Len(stack) > 1, NEW key \in Keys, IndexSetKeyed(key)
  PROVE  HeapInv'
  <1> DEFINE a == Top(1)
             v == Top(0)
             e == Ext(stack, saved)
             g == keyed_set(heap, a, key, v)
  <1>1. /\ a # Scalar /\ a \in DOMAIN heap.obj /\ heap.obj[a].type # "array" /\ Store(g)
        /\ KeyAt(heap, a, key) = 0 => Len(heap.obj[a].slots) < MaxSlots
    BY TopIsLive DEF IndexSetKeyed, Is
  <1>2. stack \in Seq(Values) /\ stack # <<>> /\ Covers(heap, {}, e)
    BY DEF HeapInv
  <1>3. v \in Values /\ (v # Scalar => e[v] > 0) /\ e[a] > 0
    BY <1>1, <1>2, TopTwo, TopCounts
  <1>4. KeySet(heap, g, a, key, v)
    BY DEF KeySet
  <1> HIDE DEF a, v, e, g
  <1>5. Covers(g, {}, e)
    BY <1>1, <1>2, <1>3, <1>4, KeyedCovers
  <1>6. QED
    BY <1>1, <1>5, StorePreserves DEF e

LEMMA NativeAppendPreserves ==
  ASSUME HeapInv, Len(stack) > 1, NativeAppend
  PROVE  HeapInv'
  <1> DEFINE a == Top(1)
             v == Top(0)
             d == Drop(2)
             t == Append(d, a)
             q == <<a, v>>
             e == Ext(stack, saved)
             e1 == Plus(e, <<a>>)
             g == array_append(heap, a, v)
             k == value_retain(g, a)
  <1>1. /\ a # Scalar /\ a \in DOMAIN heap.obj /\ heap.obj[a].type = "array"
        /\ Len(heap.obj[a].slots) < MaxSlots
        /\ heap' = ReleaseAll(k, q) /\ stack' = t /\ saved' = saved
    BY TopIsLive DEF NativeAppend, Is
  <1>2. saved \in Seq(Values) /\ stack \in Seq(Values) /\ stack # <<>> /\ Covers(heap, {}, e)
    BY DEF HeapInv
  <1>3. d \in Seq(Values) /\ a \in Values /\ v \in Values
        /\ \A o : Occ(stack, o) = Occ(d, o) + One(a, o) + One(v, o)
    BY <1>2, TopTwo
  <1>4. (v # Scalar => e[v] > 0) /\ e[a] > 0
    BY <1>1, <1>2, TopCounts
  <1> HIDE DEF a, v, d
  <1>5. q \in Seq(Values) /\ \A o : Occ(q, o) = One(a, o) + One(v, o)
    BY <1>3, OccTwo
  <1>6. t \in Seq(Values) /\ \A o : Occ(t, o) = Occ(d, o) + One(a, o)
    BY <1>3, OccAppend
  <1> HIDE DEF q, t
  <1>7. e \in Tallies /\ Ext(t, saved) \in Tallies
    BY <1>2, <1>6, ExtFacts
  <1>8. \A o \in Addresses : /\ Ext(t, saved)[o] = Occ(t, o) + Occ(saved, o) /\ Occ(saved, o) \in Nat
                             /\ e[o] = Occ(stack, o) + Occ(saved, o) /\ Occ(d, o) \in Nat
    BY <1>2, <1>3, <1>6, ExtFacts
  <1> HIDE DEF e
  <1>9. Covers(g, {}, e)
    BY <1>1, <1>2, <1>3, <1>4, AppendCovers
  <1>10. e1 \in Tallies /\ \A o \in Addresses : e1[o] = e[o] + One(a, o)
    BY <1>3, <1>7, PlusOne
  <1> HIDE DEF g, e1
  <1>11. Covers(k, {}, e1)
    BY <1>3, <1>4, <1>9, <1>10, RetainedOne
  <1> HIDE DEF k
  <1>12. \A o \in Addresses : Ext(t, saved)[o] + Occ(q, o) <= e1[o]
    BY <1>3, <1>5, <1>6, <1>8, <1>10, OneType
  <1>13. Covers(ReleaseAll(k, q), {}, Ext(t, saved))
    BY <1>5, <1>7, <1>11, <1>12, Released
  <1>14. QED
    BY <1>1, <1>2, <1>6, <1>13 DEF HeapInv

LEMMA NativeResultPreserves ==
  ASSUME HeapInv, stack # <<>>, NEW g, Covers(g, {}, Ext(stack, saved)), NativeResult(g)
  PROVE  HeapInv'
  <1> DEFINE u == Top(0)
             e == Ext(stack, saved)
             e1 == Plus(e, <<u>>)
             k == value_retain(g, u)
  <1>1. heap' = value_release(k, u) /\ stack' = stack /\ saved' = saved
    BY DEF NativeResult
  <1>2. saved \in Seq(Values) /\ stack \in Seq(Values) /\ u \in Values /\ (u # Scalar => e[u] > 0)
    BY TopFacts, TopCounts DEF HeapInv
  <1>3. e \in Tallies /\ Covers(g, {}, e)
    BY <1>2, ExtFacts
  <1> HIDE DEF u, e
  <1>4. e1 \in Tallies /\ \A o \in Addresses : e1[o] = e[o] + One(u, o) /\ e[o] \in Nat /\ One(u, o) \in {0, 1}
    BY <1>2, <1>3, PlusOne
  <1> HIDE DEF e1
  <1>5. Covers(k, {}, e1)
    BY <1>2, <1>3, <1>4, RetainedOne
  <1> HIDE DEF k
  <1>6. \A o \in Addresses : e[o] + One(u, o) <= e1[o]
    BY <1>4
  <1>7. Covers(value_release(k, u), {}, e)
    BY <1>2, <1>3, <1>5, <1>6, ReleasedOne
  <1>8. QED
    BY <1>1, <1>2, <1>7 DEF HeapInv, e

LEMMA NativeTrimPreserves ==
  ASSUME HeapInv, stack # <<>>, NEW n \in 1 .. MaxSlots, NativeTrim(n)
  PROVE  HeapInv'
  <1> DEFINE a == Top(0)
             e == Ext(stack, saved)
             g == array_trim(heap, a, n)
  <1>1. a # Scalar /\ a \in DOMAIN heap.obj /\ heap.obj[a].type = "array" /\ NativeResult(g) /\ n \in Nat
    BY TopIsLive DEF NativeTrim, Is
  <1>2. Covers(heap, {}, e) /\ e[a] > 0
    BY <1>1, TopCounts DEF HeapInv
  <1> HIDE DEF a, e
  <1>3. Covers(g, {}, e)
    BY <1>1, <1>2, TrimCovers
  <1> HIDE DEF g
  <1>4. QED
    BY <1>1, <1>3, NativeResultPreserves DEF e

LEMMA NativeDeletePreserves ==
  ASSUME HeapInv, stack # <<>>, NEW key \in Keys, NativeDelete(key)
  PROVE  HeapInv'
  <1> DEFINE a == Top(0)
             e == Ext(stack, saved)
             g == map_delete(heap, a, key)
  <1>1. a # Scalar /\ a \in DOMAIN heap.obj /\ heap.obj[a].type = "map" /\ NativeResult(g)
    BY TopIsLive DEF NativeDelete, Is
  <1>2. Covers(heap, {}, e) /\ e[a] > 0
    BY <1>1, TopCounts DEF HeapInv
  <1> HIDE DEF a, e
  <1>3. Covers(g, {}, e)
    BY <1>1, <1>2, DeleteCovers
  <1> HIDE DEF g
  <1>4. QED
    BY <1>1, <1>3, NativeResultPreserves DEF e

(* A map literal: the pairs go in from the top of the stack down. *)
AddPair(h, st, m, keys, k) ==
  LET n == Len(keys)
      i == n + 1 - k
  IN  value_release(keyed_set(h, m, keys[i], st[Len(st) - (n - i)]), st[Len(st) - (n - i)])

IsBuilt(f, base, st, m, keys) ==
  f = [k \in 0 .. Len(keys) |-> IF k = 0 THEN base ELSE AddPair(f[k - 1], st, m, keys, k)]

Left(st, m, k) == Append(SubSeq(st, 1, Len(st) - k), m)

Holding(h, st, sv, m, k) ==
    /\ Covers(h, {}, Ext(Left(st, m, k), sv))
    /\ m \in DOMAIN h.obj
    /\ h.obj[m].type = "map"
    /\ Len(h.obj[m].slots) <= k

LEMMA LeftFacts ==
  ASSUME NEW st \in Seq(Values), NEW m \in Values, NEW k \in 1 .. Len(st)
  PROVE  /\ Left(st, m, k - 1) \in Seq(Values) /\ Left(st, m, k) \in Seq(Values)
         /\ st[Len(st) + 1 - k] \in Values
         /\ \A o : Occ(Left(st, m, k - 1), o) = Occ(Left(st, m, k), o) + One(st[Len(st) + 1 - k], o)
  <1> DEFINE j == Len(st) + 1 - k
             a == SubSeq(st, 1, j - 1)
             b == SubSeq(st, 1, j)
  <1>1. j \in 1 .. Len(st) /\ j - 1 = Len(st) - k /\ j = Len(st) - (k - 1)
    OBVIOUS
  <1>2. Left(st, m, k) = Append(a, m) /\ Left(st, m, k - 1) = Append(b, m)
    BY <1>1 DEF Left
  <1> HIDE DEF j
  <1>3. /\ a \in Seq(Values) /\ b \in Seq(Values) /\ st[j] \in Values
        /\ \A o : Occ(b, o) = Occ(a, o) + One(st[j], o)
    BY <1>1, PrefixFacts
  <1> HIDE DEF a, b
  <1>4. /\ Append(a, m) \in Seq(Values) /\ Append(b, m) \in Seq(Values)
        /\ \A o : Occ(Append(a, m), o) = Occ(a, o) + One(m, o)
        /\ \A o : Occ(Append(b, m), o) = Occ(b, o) + One(m, o)
    BY <1>3, OccAppend
  <1>5. ASSUME NEW o PROVE Occ(Append(b, m), o) = Occ(Append(a, m), o) + One(st[j], o)
    <2> DEFINE x == Occ(a, o)
               y == One(m, o)
               z == One(st[j], o)
    <2>1. x \in Nat /\ y \in {0, 1} /\ z \in {0, 1}
      BY <1>3, OccType, OneType
    <2>2. Occ(Append(b, m), o) = (x + z) + y /\ Occ(Append(a, m), o) = x + y
      BY <1>3, <1>4
    <2> HIDE DEF x, y, z
    <2>3. (x + z) + y = (x + y) + z
      BY <2>1
    <2>4. QED
      BY <2>2, <2>3 DEF z
  <1>6. QED
    BY <1>2, <1>3, <1>4, <1>5 DEF j

LEMMA PairCovers ==
  ASSUME NEW st \in Seq(Values), NEW sv \in Seq(Values), NEW m \in Addresses, NEW keys \in Seq(Keys),
         Len(keys) <= Len(st), Len(keys) <= MaxSlots, NEW k \in 1 .. Len(keys),
         NEW h, Holding(h, st, sv, m, k - 1)
  PROVE  Holding(AddPair(h, st, m, keys, k), st, sv, m, k)
  <1> DEFINE n == Len(keys)
             i == n + 1 - k
             v == st[Len(st) + 1 - k]
             key == keys[i]
             p == Left(st, m, k - 1)
             q == Left(st, m, k)
             e == Ext(p, sv)
             e2 == Ext(q, sv)
             g == keyed_set(h, m, key, v)
             h2 == value_release(g, v)
  <1>1. n \in Nat /\ Len(st) \in Nat /\ MaxSlots \in Nat /\ k \in Int /\ 1 <= k /\ k <= n
        /\ n <= Len(st) /\ n <= MaxSlots
    BY HeapBounds
  <1>2. k \in 1 .. Len(st) /\ i \in 1 .. n /\ Len(st) - (n - i) = Len(st) + 1 - k
    BY <1>1
  <1>3. AddPair(h, st, m, keys, k) = h2
    BY <1>2 DEF AddPair
  <1>4. key \in Keys /\ m \in Values
    BY <1>2, ValuesFacts
  <1>5. p \in Seq(Values) /\ q \in Seq(Values) /\ v \in Values /\ \A o : Occ(p, o) = Occ(q, o) + One(v, o)
    BY <1>2, <1>4, LeftFacts
  <1>6. p[Len(p)] = m /\ Len(p) \in DOMAIN p
    <2> DEFINE w == SubSeq(st, 1, Len(st) - (k - 1))
    <2>1. Len(st) - (k - 1) \in 0 .. Len(st)
      BY <1>1
    <2>2. w \in Seq(Values)
      BY <2>1, Cut
    <2>3. p = Append(w, m)
      BY DEF Left
    <2> HIDE DEF w
    <2>4. QED
      BY <1>4, <2>2, <2>3
  <1> HIDE DEF p, q, v, i, key, g
  <1>7. Covers(h, {}, e) /\ m \in DOMAIN h.obj /\ h.obj[m].type = "map" /\ Len(h.obj[m].slots) <= k - 1
    BY DEF Holding, p
  <1>8. \A o \in Addresses : /\ e[o] = Occ(p, o) + Occ(sv, o) /\ e2[o] = Occ(q, o) + Occ(sv, o)
                             /\ Occ(p, o) \in Nat /\ Occ(q, o) \in Nat /\ Occ(sv, o) \in Nat
    BY <1>5, ExtFacts
  <1>9. e2 \in Tallies
    BY <1>5, ExtFacts
  <1>10. e[m] > 0
    <2>1. m # Scalar
      BY ValuesFacts
    <2>2. QED
      BY <1>5, <1>6, <2>1, HeldCounts
  <1> HIDE DEF e, e2
  <1>11. v # Scalar => e[v] > 0
    <2>1. ASSUME v # Scalar PROVE e[v] > 0
      <3>1. v \in Addresses
        BY <1>5, <2>1 DEF Values
      <3>2. Occ(p, v) = Occ(q, v) + 1
        BY <1>5 DEF One
      <3>3. QED
        BY <1>8, <3>1, <3>2
    <2>2. QED
      BY <2>1
  <1>12. Len(h.obj[m].slots) < MaxSlots /\ Len(h.obj[m].slots) \in Nat
    <2>1. h.obj[m].slots \in Seq(Values)
      BY <1>7, CoversFacts, ObjectFacts
    <2>2. QED
      BY <1>1, <1>7, <2>1
  <1>13. /\ Covers(g, {}, e) /\ m \in DOMAIN g.obj /\ g.obj[m].type = "map"
         /\ Len(g.obj[m].slots) <= Len(h.obj[m].slots) + 1
    <2>1. KeySet(h, g, m, key, v)
      BY DEF KeySet, g
    <2>2. QED
      BY <1>4, <1>5, <1>7, <1>10, <1>11, <1>12, <2>1, KeyedCovers
  <1>14. \A o \in Addresses : e2[o] + One(v, o) <= e[o]
    <2>1. ASSUME NEW o \in Addresses PROVE e2[o] + One(v, o) <= e[o]
      <3> DEFINE x == Occ(q, o)
                 y == Occ(sv, o)
                 z == One(v, o)
      <3>1. x \in Nat /\ y \in Nat /\ z \in {0, 1} /\ e2[o] = x + y /\ e[o] = (x + z) + y
        BY <1>5, <1>8, OneType
      <3> HIDE DEF x, y, z
      <3>2. e2[o] + z <= e[o]
        BY <3>1
      <3>3. QED
        BY <3>2 DEF z
    <2>2. QED
      BY <2>1
  <1>15. Covers(h2, {}, e2) /\ Kept(g, h2)
    BY <1>5, <1>9, <1>13, <1>14, ReleasedOne
  <1> HIDE DEF h2
  <1>16. m \in DOMAIN h2.obj
    <2>1. e2[m] > 0
      <3>1. q[Len(q)] = m /\ Len(q) \in DOMAIN q /\ m # Scalar
        <4> DEFINE w == SubSeq(st, 1, Len(st) - k)
        <4>1. Len(st) - k \in 0 .. Len(st)
          BY <1>1
        <4>2. w \in Seq(Values)
          BY <4>1, Cut
        <4>3. q = Append(w, m)
          BY DEF Left, q
        <4> HIDE DEF w
        <4>4. QED
          BY <1>4, <4>2, <4>3, ValuesFacts
      <3>2. QED
        BY <1>5, <3>1, HeldCounts DEF e2
    <2>2. QED
      BY <1>4, <1>15, <2>1, Reachable, ValuesFacts
  <1>17. h2.obj[m].type = "map" /\ h2.obj[m].slots = g.obj[m].slots
    BY <1>13, <1>15, <1>16 DEF Kept
  <1>18. Len(h2.obj[m].slots) <= k
    <2>1. g.obj[m].slots \in Seq(Values)
      BY <1>13, CoversFacts, ObjectFacts
    <2>2. QED
      BY <1>1, <1>7, <1>12, <1>13, <1>17, <2>1
  <1>19. QED
    BY <1>3, <1>15, <1>16, <1>17, <1>18 DEF Holding, e2, q

(* The recursion of a map literal has a solution, and every stage holds. *)
LEMMA BuiltExists ==
  ASSUME NEW st \in Seq(Values), NEW sv \in Seq(Values), NEW m \in Addresses, NEW keys \in Seq(Keys),
         Len(keys) <= Len(st), Len(keys) <= MaxSlots, NEW base, Holding(base, st, sv, m, 0)
  PROVE  \E f : IsBuilt(f, base, st, m, keys)
  <1> DEFINE n == Len(keys)
             S == [k \in Nat |-> {h \in Heaps : Holding(h, st, sv, m, k)}]
             Fit(k, h) == k \in 1 .. n /\ Holding(h, st, sv, m, k - 1)
             step == [x \in Nat \X Heaps |-> IF Fit(x[1], x[2]) THEN AddPair(x[2], st, m, keys, x[1]) ELSE base]
  <1>1. n \in Nat
    OBVIOUS
  <1> HIDE DEF n
  <1>2. \A k, h : Holding(h, st, sv, m, k) => h \in Heaps
    BY HeapIsMember DEF Holding, Covers
  <1>3. \A k, h : Fit(k, h) => Holding(AddPair(h, st, m, keys, k), st, sv, m, k)
    BY PairCovers DEF n
  <1> HIDE DEF Fit
  <1>4. step \in [Nat \X Heaps -> Heaps]
        /\ \A k \in Nat, h \in Heaps : step[<<k, h>>] = IF Fit(k, h) THEN AddPair(h, st, m, keys, k) ELSE base
    BY <1>2, <1>3
  <1> HIDE DEF step
  <1>5. PICK f : Recursive(f, Heaps, base, step, n)
    BY <1>1, <1>2, <1>4, RecursionExists
  <1>6. f \in [0 .. n -> Heaps] /\ f[0] = base /\ \A k \in 1 .. n : f[k] = step[<<k, f[k - 1]>>]
    BY <1>5 DEF Recursive
  <1> DEFINE T == {k \in 0 .. n : ~Holding(f[k], st, sv, m, k)}
  <1>7. T = {}
    <2>1. SUFFICES ASSUME T # {} PROVE FALSE
      OBVIOUS
    <2>2. PICK k \in T : \A j \in T : k <= j
      <3>1. T \in SUBSET Nat
        BY <1>1
      <3>2. QED
        BY <2>1, <3>1, LeastMember
    <2>3. k # 0 /\ k \in 0 .. n /\ ~Holding(f[k], st, sv, m, k)
      BY <1>6, <2>2
    <2>4. k \in 1 .. n /\ k - 1 \in 0 .. n /\ k - 1 \notin T /\ k \in Nat
      BY <1>1, <2>2, <2>3
    <2>5. Fit(k, f[k - 1])
      BY <2>4 DEF Fit
    <2>6. f[k] = AddPair(f[k - 1], st, m, keys, k)
      BY <1>4, <1>6, <2>4, <2>5
    <2>7. Holding(f[k], st, sv, m, k)
      BY <1>3, <2>5, <2>6
    <2>8. QED
      BY <2>3, <2>7
  <1>8. ASSUME NEW k \in 0 .. n
        PROVE  f[k] = IF k = 0 THEN base ELSE AddPair(f[k - 1], st, m, keys, k)
    <2>1. CASE k = 0
      BY <1>6, <2>1
    <2>2. CASE k # 0
      <3>1. k \in 1 .. n /\ k - 1 \in 0 .. n /\ k \in Nat
        BY <1>1, <2>2
      <3>2. Fit(k, f[k - 1]) /\ f[k - 1] \in Heaps
        BY <1>6, <1>7, <3>1 DEF Fit
      <3>3. f[k] = AddPair(f[k - 1], st, m, keys, k)
        BY <1>4, <1>6, <3>1, <3>2
      <3>4. QED
        BY <2>2, <3>3
    <2>3. QED
      BY <2>1, <2>2
  <1>9. f = [k \in 0 .. n |-> f[k]]
    BY <1>6
  <1>10. [k \in 0 .. n |-> f[k]] = [k \in 0 .. n |-> IF k = 0 THEN base ELSE AddPair(f[k - 1], st, m, keys, k)]
    BY <1>8
  <1>11. QED
    BY <1>9, <1>10 DEF IsBuilt, n

LEMMA BuiltHolds ==
  ASSUME NEW st \in Seq(Values), NEW sv \in Seq(Values), NEW m \in Addresses, NEW keys \in Seq(Keys),
         Len(keys) <= Len(st), Len(keys) <= MaxSlots, NEW base, Holding(base, st, sv, m, 0),
         NEW f, IsBuilt(f, base, st, m, keys)
  PROVE  Holding(f[Len(keys)], st, sv, m, Len(keys))
  <1> DEFINE n == Len(keys)
             T == {k \in 0 .. n : ~Holding(f[k], st, sv, m, k)}
  <1>1. n \in Nat
    OBVIOUS
  <1>2. f = [k \in 0 .. n |-> IF k = 0 THEN base ELSE AddPair(f[k - 1], st, m, keys, k)]
    BY DEF IsBuilt
  <1> HIDE DEF n
  <1>3. f[0] = base /\ \A k \in 1 .. n : f[k] = AddPair(f[k - 1], st, m, keys, k)
    BY <1>1, <1>2
  <1>4. T = {}
    <2>1. SUFFICES ASSUME T # {} PROVE FALSE
      OBVIOUS
    <2>2. PICK k \in T : \A j \in T : k <= j
      <3>1. T \in SUBSET Nat
        BY <1>1
      <3>2. QED
        BY <2>1, <3>1, LeastMember
    <2>3. k # 0 /\ k \in 0 .. n /\ ~Holding(f[k], st, sv, m, k)
      BY <1>3, <2>2
    <2>4. k \in 1 .. n /\ k - 1 \in 0 .. n /\ k - 1 \notin T
      BY <1>1, <2>2, <2>3
    <2>5. Holding(f[k - 1], st, sv, m, k - 1)
      BY <2>4
    <2>6. Holding(AddPair(f[k - 1], st, m, keys, k), st, sv, m, k)
      BY <2>4, <2>5, PairCovers DEF n
    <2>7. QED
      BY <1>3, <2>3, <2>4, <2>6
  <1>5. n \in 0 .. n
    BY <1>1
  <1>6. QED
    BY <1>4, <1>5 DEF n

LEMMA EmptyMap ==
  ASSUME NEW h, NEW ext, Covers(h, {}, ext), Free(h) # {},
         NEW ext2 \in Tallies, \A o \in Addresses : ext2[o] = ext[o] + One(Fresh(h), o)
  PROVE  /\ Covers(object_new(h, "map", <<>>, <<>>), {Fresh(h)}, ext2)
         /\ object_new(h, "map", <<>>, <<>>).obj[Fresh(h)].slots = <<>>
         /\ object_new(h, "map", <<>>, <<>>).obj[Fresh(h)].type = "map"
  <1> DEFINE k == <<>>
             z == <<>>
             ty == "map"
             new == object_new(h, ty, k, z)
  <1>1. k \in Seq(Keys)
    OBVIOUS
  <1>2. z \in Seq(Values) /\ Len(z) <= MaxSlots /\ Len(k) = Len(z)
    BY HeapBounds
  <1>3. ty \in {"array", "map", "row"}
    OBVIOUS
  <1>4. IsHeap(h)
    BY CoversFacts
  <1> HIDE DEF k, z, ty
  <1>5. Covers(new, {Fresh(h)}, ext2)
    BY <1>1, <1>2, <1>3, NewCovers
  <1>6. new.obj[Fresh(h)].slots = z /\ new.obj[Fresh(h)].type = ty
    BY <1>1, <1>2, <1>3, <1>4, NewFacts
  <1>7. QED
    BY <1>5, <1>6 DEF k, z, ty

LEMMA MapBuildPreserves ==
  ASSUME HeapInv, NEW keys \in KeyLists, MapBuild(keys)
  PROVE  HeapInv'
  <1> DEFINE n == Len(keys)
             m == Fresh(heap)
             base == object_new(heap, "map", <<>>, <<>>)
             f == CHOOSE g : IsBuilt(g, base, stack, m, keys)
             t == Append(Drop(n), m)
             r == f[n]
             e == Ext(stack, saved)
             e1 == Ext(Append(stack, m), saved)
  <1>1. stack' = t /\ saved' = saved /\ n <= Len(stack) /\ Free(heap) # {}
    BY DEF MapBuild, CanAllocate
  <1>2. heap' = r
    BY DEF MapBuild, IsBuilt, AddPair, Top
  <1>3. saved \in Seq(Values) /\ stack \in Seq(Values) /\ Covers(heap, {}, e)
    BY DEF HeapInv
  <1>4. m \in Addresses /\ m \in Values
    BY <1>1, FreshIsFree, ValuesFacts
  <1>5. n <= MaxSlots /\ keys \in Seq(Keys) /\ n \in Nat
    BY KeyListFacts
  <1> HIDE DEF n, base, m
  <1>6. Holding(base, stack, saved, m, 0)
    <2>1. /\ Append(stack, m) \in Seq(Values)
          /\ \A o : Occ(Append(stack, m), o) = Occ(stack, o) + One(m, o)
      BY <1>3, <1>4, OccAppend
    <2>2. \A o \in Addresses : e1[o] = e[o] + One(m, o) /\ e1[o] \in Nat
      <3>1. ASSUME NEW o \in Addresses PROVE e1[o] = e[o] + One(m, o) /\ e1[o] \in Nat
        <4> DEFINE x == Occ(stack, o)
                   y == Occ(saved, o)
                   z == One(m, o)
        <4>1. x \in Nat /\ y \in Nat /\ z \in {0, 1} /\ e[o] = x + y /\ e1[o] = (x + z) + y
          BY <1>3, <2>1, ExtFacts, OneType
        <4> HIDE DEF x, y, z, e, e1
        <4>2. e1[o] = e[o] + z /\ e1[o] \in Nat
          BY <4>1
        <4>3. QED
          BY <4>2 DEF z
      <3>2. QED
        BY <3>1
    <2>3. e1 \in Tallies
      BY <1>3, <2>1, ExtFacts
    <2> HIDE DEF e, e1
    <2>4. Covers(base, {m}, e1) /\ base.obj[m].slots = <<>> /\ base.obj[m].type = "map"
      BY <1>1, <1>3, <2>2, <2>3, EmptyMap DEF m, base
    <2>5. \A o \in Addresses : e1[o] = e1[o] + Occ(base.obj[m].slots, o)
      <3>1. \A o : Occ(<<>>, o) = 0
        BY OccOne, ValuesFacts
      <3>2. QED
        BY <2>2, <2>4, <3>1
    <2>6. Covers(base, {}, e1) /\ m \in DOMAIN base.obj
      <3>1. Covers(base, {}, e1)
        BY <2>3, <2>4, <2>5, Unpinned
      <3>2. QED
        BY <2>4, <3>1, PinnedSurvives
    <2>7. Left(stack, m, 0) = Append(stack, m)
      <3>1. SubSeq(stack, 1, Len(stack) - 0) = stack
        BY <1>3
      <3>2. QED
        BY <3>1 DEF Left
    <2>8. Covers(base, {}, Ext(Left(stack, m, 0), saved))
      BY <2>6, <2>7 DEF e1
    <2>9. Len(base.obj[m].slots) <= 0
      <3>1. Len(<<>>) = 0
        OBVIOUS
      <3>2. Len(base.obj[m].slots) = 0
        BY <2>4, <3>1, Zenon
      <3>3. QED
        BY <3>2
    <2>10. QED
      BY <2>4, <2>6, <2>8, <2>9 DEF Holding
  <1>7. IsBuilt(f, base, stack, m, keys)
    <2>1. \E g : IsBuilt(g, base, stack, m, keys)
      BY <1>1, <1>3, <1>4, <1>5, <1>6, BuiltExists DEF n
    <2>2. QED
      BY <2>1
  <1> HIDE DEF f
  <1>8. Holding(r, stack, saved, m, n)
    BY <1>1, <1>3, <1>4, <1>5, <1>6, <1>7, BuiltHolds DEF n
  <1> HIDE DEF r
  <1>9. Left(stack, m, n) = t
    BY DEF Left, Drop
  <1>10. t \in Seq(Values)
    <2>1. n \in 0 .. Len(stack)
      BY <1>1, <1>3, <1>5
    <2>2. Drop(n) \in Seq(Values)
      BY <1>3, <2>1, Cut DEF Drop
    <2>3. QED
      BY <1>4, <2>2
  <1>11. QED
    BY <1>1, <1>2, <1>3, <1>8, <1>9, <1>10 DEF HeapInv, Holding

LEMMA ResetCovers ==
  ASSUME NEW h, NEW ext, Covers(h, {}, ext)
  PROVE  Covers([h EXCEPT !.allocations = 0], {}, ext)
  <1> DEFINE h2 == [h EXCEPT !.allocations = 0]
  <1>1. h = [obj |-> h.obj, registry |-> h.registry, allocations |-> h.allocations]
    BY DEF Covers, IsHeap
  <1>2. h2.obj = h.obj /\ h2.registry = h.registry /\ h2.allocations = 0
        /\ h2 = [obj |-> h2.obj, registry |-> h2.registry, allocations |-> h2.allocations]
    BY <1>1
  <1> HIDE DEF h2
  <1>3. IsHeap(h2)
    BY <1>2 DEF Covers, IsHeap
  <1>4. Covers(h2, {}, ext)
    BY <1>2, <1>3 DEF Covers
  <1>5. QED
    BY <1>4 DEF h2

LEMMA CollectPreserves ==
  ASSUME HeapInv, vm_gc_collect
  PROVE  HeapInv'
  <1> DEFINE marks == gc_mark_drain(heap, Roots)
             e == Ext(stack, saved)
  <1>1. PICK work \in Orders(Unowned(heap, marks)) :
          heap' = [gc_sweep_unreachable(heap, marks, work) EXCEPT !.allocations = 0]
    BY DEF vm_gc_collect
  <1>2. stack' = stack /\ saved' = saved
    BY DEF vm_gc_collect
  <1>3. stack \in Seq(Values) /\ saved \in Seq(Values) /\ Covers(heap, {}, e)
    BY DEF HeapInv
  <1> DEFINE swept == gc_sweep_unreachable(heap, marks, work)
  <1> HIDE DEF marks, e
  <1>4. Covers(swept, {}, e)
    BY <1>3, SweepCovers
  <1> HIDE DEF swept
  <1>5. Covers([swept EXCEPT !.allocations = 0], {}, e)
    BY <1>4, ResetCovers
  <1>6. Covers(heap', {}, e)
    BY <1>1, <1>5 DEF swept
  <1>7. QED
    BY <1>2, <1>3, <1>6 DEF HeapInv, e

LEMMA OccNone == <<>> \in Seq(Values) /\ \A o : Occ(<<>>, o) = 0
  <1>1. ASSUME NEW o PROVE Occ(<<>>, o) = 0
    <2>1. Places(<<>>, o) = {}
      BY DEF Places
    <2>2. QED
      BY <2>1, FS_EmptySet DEF Occ
  <1>2. QED
    BY <1>1

LEMMA FreePreserves ==
  ASSUME HeapInv, vm_free
  PROVE  HeapInv'
  <1> DEFINE vs == stack \o saved
             left == ReleaseAll(heap, vs)
             none == <<>>
             blank == [i \in DOMAIN saved |-> Scalar]
             e == Ext(stack, saved)
             e2 == Ext(none, blank)
  <1>1. PICK work \in Orders(Unowned(left, {})) : heap' = gc_sweep_unreachable(left, {}, work)
    BY DEF vm_free
  <1>2. stack' = none /\ saved' = blank
    BY DEF vm_free
  <1>3. stack \in Seq(Values) /\ saved \in Seq(Values) /\ Covers(heap, {}, e)
    BY DEF HeapInv
  <1>4. none \in Seq(Values) /\ \A o : Occ(none, o) = 0
    BY OccNone
  <1>5. blank \in Seq(Values) /\ \A i \in DOMAIN blank : blank[i] = Scalar
    BY <1>3, ValuesFacts
  <1> HIDE DEF none, blank
  <1>6. \A o \in Addresses : Occ(blank, o) = 0
    <2>1. ASSUME NEW o \in Addresses PROVE Occ(blank, o) = 0
      <3>1. o # Scalar /\ Occ(blank, o) \in Nat
        BY <1>5, OccType, ValuesFacts
      <3>2. ~(Occ(blank, o) > 0)
        BY <1>5, <3>1, OccPositive
      <3>3. QED
        BY <3>1, <3>2
    <2>2. QED
      BY <2>1
  <1>7. vs \in Seq(Values) /\ \A o : Occ(vs, o) = Occ(stack, o) + Occ(saved, o)
    BY <1>3, OccConcat
  <1> HIDE DEF vs
  <1>8. e2 \in Tallies /\ \A o \in Addresses : e2[o] = 0
    BY <1>4, <1>5, <1>6, ExtFacts
  <1>9. \A o \in Addresses : e[o] = Occ(vs, o) /\ Occ(vs, o) \in Nat
    BY <1>3, <1>7, ExtFacts, OccType
  <1> HIDE DEF e, e2
  <1>10. \A o \in Addresses : e2[o] + Occ(vs, o) <= e[o]
    BY <1>8, <1>9
  <1>11. Covers(left, {}, e2)
    BY <1>3, <1>7, <1>8, <1>10, Released
  <1> HIDE DEF left
  <1>12. Covers(gc_sweep_unreachable(left, {}, work), {}, e2)
    BY <1>11, SweepCovers
  <1>13. QED
    BY <1>1, <1>2, <1>4, <1>5, <1>12 DEF HeapInv, e2

LEMMA InitHolds == ASSUME Init PROVE HeapInv
  <1> DEFINE none == <<>>
             blank == [i \in 1 .. SavedSlots |-> Scalar]
             e == Ext(none, blank)
             h == [obj |-> <<>>, registry |-> <<>>, allocations |-> 0]
  <1>1. stack = none /\ saved = blank /\ heap = h
    BY DEF Init
  <1>2. none \in Seq(Values) /\ \A o : Occ(none, o) = 0
    BY OccNone
  <1>3. blank \in Seq(Values) /\ \A i \in DOMAIN blank : blank[i] = Scalar
    <2>1. SavedSlots \in Nat
      BY HeapBounds
    <2>2. QED
      BY <2>1, ValuesFacts
  <1>4. h.obj = <<>> /\ h.registry = <<>> /\ h.allocations = 0
        /\ h = [obj |-> h.obj, registry |-> h.registry, allocations |-> h.allocations]
    OBVIOUS
  <1> HIDE DEF blank, h
  <1>5. DOMAIN h.obj = {} /\ h.obj = [o \in DOMAIN h.obj |-> h.obj[o]]
    BY <1>4
  <1>6. IsHeap(h)
    <2>1. IsTable(h.obj)
      BY <1>5 DEF IsTable
    <2>2. Listed(h.registry, DOMAIN h.obj)
      BY <1>4, <1>5 DEF Listed
    <2>3. QED
      BY <1>4, <2>1, <2>2 DEF IsHeap
  <1> HIDE DEF none
  <1>7. \A o \in Addresses : Occ(blank, o) = 0
    <2>1. ASSUME NEW o \in Addresses PROVE Occ(blank, o) = 0
      <3>1. o # Scalar /\ Occ(blank, o) \in Nat
        BY <1>3, OccType, ValuesFacts
      <3>2. ~(Occ(blank, o) > 0)
        BY <1>3, <3>1, OccPositive
      <3>3. QED
        BY <3>1, <3>2
    <2>2. QED
      BY <2>1
  <1>8. e \in Tallies /\ \A o \in Addresses : e[o] = 0
    BY <1>2, <1>3, <1>7, ExtFacts
  <1> HIDE DEF e
  <1>9. Grounded(h.obj, {}) /\ Counted(h.obj, {}, e)
    BY <1>5 DEF Grounded, Counted
  <1>10. Covers(h, {}, e)
    BY <1>5, <1>6, <1>8, <1>9 DEF Covers
  <1>11. QED
    BY <1>1, <1>2, <1>3, <1>10 DEF HeapInv, e

-----------------------------------------------------------------------------
(* What the tally means for the state.                                       *)

LEMMA CoversImplies == ASSUME HeapInv PROVE CountsCoverReferences
  <1> DEFINE e == Ext(stack, saved)
             D == DOMAIN heap.obj
  <1>1. stack \in Seq(Values) /\ saved \in Seq(Values) /\ Covers(heap, {}, e)
    BY DEF HeapInv
  <1>2. IsHeap(heap) /\ IsTable(heap.obj) /\ D \subseteq Addresses /\ IsFiniteSet(D)
    <2>1. IsHeap(heap) /\ IsTable(heap.obj) /\ D \subseteq Addresses
      BY <1>1, CoversFacts
    <2>2. QED
      BY <2>1, FS_Subset, HeapBounds
  <1>3. Held \in Seq(Values) /\ \A o : Occ(Held, o) = Occ(stack, o) + Occ(saved, o)
    BY <1>1, OccConcat DEF Held
  <1>4. \A o \in Addresses : e[o] = Occ(Held, o)
    BY <1>1, <1>3, ExtFacts
  <1> HIDE DEF e
  <1>5. ASSUME NEW o \in D PROVE heap.obj[o].count >= References(o)
    <2>1. Holders(o) = e[o]
      BY <1>2, <1>4 DEF Holders, Occ, Places
    <2>2. SlotsWith(o) = Cardinality(SlotsIn(heap.obj, {}, o))
      <3>1. {s \in (DOMAIN heap.obj) \X (1 .. MaxSlots) :
               s[2] \in DOMAIN heap.obj[s[1]].slots /\ heap.obj[s[1]].slots[s[2]] = o} = SlotsIn(heap.obj, {}, o)
        BY DEF SlotsIn
      <3>2. QED
        BY <3>1 DEF SlotsWith
    <2>3. heap.obj[o].count >= e[o] + Cardinality(SlotsIn(heap.obj, {}, o))
      BY <1>1 DEF Covers, Counted
    <2>4. QED
      BY <2>1, <2>2, <2>3 DEF References
  <1>6. ToSet(Held) \subseteq D \cup {Scalar}
    <2>1. ASSUME NEW v \in ToSet(Held) PROVE v \in D \cup {Scalar}
      <3>1. PICK i \in DOMAIN Held : v = Held[i]
        BY DEF ToSet
      <3>2. v \in Values /\ Occ(Held, v) >= 1 /\ Occ(Held, v) \in Nat
        BY <1>3, <3>1, OccPositive, OccType
      <3>3. v # Scalar => e[v] > 0
        BY <1>4, <3>2 DEF Values
      <3>4. QED
        BY <1>1, <3>2, <3>3, Reachable
    <2>2. QED
      BY <2>1
  <1>7. Children(heap, D) \subseteq D \cup {Scalar}
    <2>1. \A o \in D : ToSet(heap.obj[o].slots) \subseteq D \cup {Scalar}
      BY <1>1, SlotIsReachable DEF ToSet
    <2>2. QED
      BY <2>1 DEF Children
  <1>8. ToSet(heap.registry) = D /\ Len(heap.registry) = Cardinality(D)
    <2> DEFINE r == heap.registry
               n == Len(r)
    <2>1. r \in Seq(D) /\ (\A i, j \in DOMAIN r : i # j => r[i] # r[j]) /\ \A o \in D : \E i \in DOMAIN r : r[i] = o
      BY <1>2 DEF IsHeap, Listed
    <2> HIDE DEF D
    <2>2. n \in Nat /\ DOMAIN r = 1 .. n /\ r \in [1 .. n -> D]
      BY <2>1
    <2>3. ToSet(r) = D
      BY <2>1, <2>2 DEF ToSet
    <2> HIDE DEF r, n
    <2>4. r \in Bijection(1 .. n, D)
      BY <2>1, <2>2 DEF Bijection, Injection, Surjection, IsInjective
    <2>5. IsFiniteSet(1 .. n) /\ Cardinality(1 .. n) = n
      BY <2>2, FS_Interval
    <2>6. Cardinality(D) = Cardinality(1 .. n)
      BY <2>4, <2>5, FS_Bijection DEF ExistsBijection
    <2>7. QED
      BY <2>3, <2>5, <2>6 DEF n, r
  <1>9. QED
    BY <1>5, <1>6, <1>7, <1>8 DEF CountsCoverReferences

-----------------------------------------------------------------------------
(* The theorem.                                                              *)

LEMMA InstructionPreserves ==
  ASSUME HeapInv, ~MapIndexing, Instruction
  PROVE  HeapInv'
  <1>1. stack \in Seq(Values)
    BY DEF HeapInv
  <1>2. CASE Const \/ Pop
    BY <1>2, ConstPreserves, PopPreserves
  <1>3. CASE \E i \in DOMAIN stack : GetLocal(i) \/ Return(i) \/ SetLocal(i, TRUE) \/ SetLocal(i, FALSE)
    BY <1>3, GetLocalPreserves, ReturnPreserves, SetLocalPreserves
  <1>4. CASE \E n \in 0 .. Len(stack) : ArrayBuild(n)
    BY <1>4, ArrayBuildPreserves
  <1>5. CASE \E keys \in KeyLists : MapBuild(keys)
    BY <1>5, MapBuildPreserves
  <1>6. CASE \E fields \in {k \in KeyLists : IsInjective(k)} : StructBuild(fields)
    <2>1. PICK fields \in KeyLists : StructBuild(fields)
      BY <1>6
    <2>2. QED
      BY <2>1, StructBuildPreserves
  <1>7. ASSUME stack # <<>>, \E i \in 1 .. MaxSlots : IndexGetArray(i) \/ NativeTrim(i)
        PROVE  HeapInv'
    BY <1>7, IndexGetArrayPreserves, NativeTrimPreserves
  <1>8. ASSUME stack # <<>>, \E key \in Keys : IndexGetRow(key) \/ IndexGetMap(key) \/ NativeDelete(key)
        PROVE  HeapInv'
    BY <1>8, IndexGetRowPreserves, IndexGetMapPreserves, NativeDeletePreserves
  <1>9. ASSUME Len(stack) > 1, NativeAppend
        PROVE  HeapInv'
    BY <1>9, NativeAppendPreserves
  <1>10. ASSUME Len(stack) > 1, NEW i \in 1 .. MaxSlots, IndexSetArray(i)
         PROVE  HeapInv'
    BY <1>10, IndexSetArrayPreserves
  <1>11. ASSUME Len(stack) > 1, NEW key \in Keys, IndexSetKeyed(key)
         PROVE  HeapInv'
    BY <1>11, IndexSetKeyedPreserves
  <1>12. QED
    BY <1>2, <1>3, <1>4, <1>5, <1>6, <1>7, <1>8, <1>9, <1>10, <1>11 DEF Instruction

LEMMA StepPreserves ==
  ASSUME HeapInv, ~MapIndexing, [Next]_vars
  PROVE  HeapInv'
  <1>1. CASE Instruction
    BY <1>1, InstructionPreserves
  <1>2. CASE vm_gc_collect
    BY <1>2, CollectPreserves
  <1>3. CASE vm_free
    BY <1>3, FreePreserves
  <1>4. CASE Exited
    BY <1>4 DEF Exited, vars, HeapInv
  <1>5. CASE UNCHANGED vars
    BY <1>5 DEF vars, HeapInv
  <1>6. QED
    BY <1>1, <1>2, <1>3, <1>4, <1>5 DEF Next

(* A container that a variable, a temporary or a container refers to is      *)
(* live and counts at least its references, whatever the program does with   *)
(* arrays, structs, maps, calls and collections, as long as it reads no      *)
(* container out of a map (map_get's extra release is the exception).        *)
THEOREM CountsAlwaysCover == ~MapIndexing => (Spec => []CountsCoverReferences)
  <1>1. SUFFICES ASSUME ~MapIndexing PROVE Spec => []CountsCoverReferences
    OBVIOUS
  <1>2. Init => HeapInv
    BY InitHolds
  <1>3. HeapInv /\ [Next]_vars => HeapInv'
    BY <1>1, StepPreserves
  <1>4. HeapInv => CountsCoverReferences
    BY CoversImplies
  <1>5. QED
    BY <1>2, <1>3, <1>4, PTL DEF Spec

=============================================================================
