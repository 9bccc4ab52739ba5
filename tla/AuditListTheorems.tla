------------------------- MODULE AuditListTheorems --------------------------
(***************************************************************************)
(* What the two pure functions of the audit components return: ORDER BY id *)
(* with LIMIT, for any finite set of ids, and the Merkle tree, for lists   *)
(* of distinct leaves of any length.                                       *)
(*                                                                         *)
(* Ascending is not recursive: the rank of an id is an injection of the    *)
(* ids into as many numbers, hence a bijection, and Ascending is its       *)
(* inverse.  The functions of the tree are recursive over the numbers up   *)
(* to a bound: each is unfolded by an induction over those numbers (UpTo), *)
(* which is what every other fact about the levels rests on.               *)
(***************************************************************************)
EXTENDS IdOrder, MerkleTree, FiniteSetTheorems, FunctionTheorems, SequenceTheorems, TLAPS

LEMMA RankRises ==
    ASSUME NEW ids \in SUBSET Nat, IsFiniteSet(ids), NEW n \in ids
    PROVE  /\ Rank(ids, n) \in 1 .. Cardinality(ids)
           /\ \A m \in ids : m < n => Rank(ids, m) < Rank(ids, n)
<1>. DEFINE upTo(k) == {i \in ids : i <= k}
<1>1. \A k : IsFiniteSet(upTo(k)) /\ Cardinality(upTo(k)) \in Nat
             /\ Cardinality(upTo(k)) <= Cardinality(ids)
  BY FS_Subset, FS_CardinalityType
<1>2. Cardinality(ids) \in Nat
  BY FS_CardinalityType
<1>3. n \in upTo(n)
  OBVIOUS
<1>4. Cardinality(upTo(n)) # 0
  BY <1>1, <1>3, FS_EmptySet
<1>5. ASSUME NEW m \in ids, m < n
      PROVE  Cardinality(upTo(m)) < Cardinality(upTo(n))
  <2>1. upTo(m) \in SUBSET upTo(n) /\ n \notin upTo(m)
    <3>1. m \in Nat /\ n \in Nat /\ \A i \in ids : i \in Nat
      OBVIOUS
    <3>2. \A i \in ids : i <= m => i <= n
      BY <1>5, <3>1
    <3>3. ~(n <= m)
      BY <1>5, <3>1
    <3>. QED  BY <3>2, <3>3
  <2>2. Cardinality(upTo(m)) <= Cardinality(upTo(n))
        /\ Cardinality(upTo(n)) # Cardinality(upTo(m))
    BY <1>1, <1>3, <2>1, FS_Subset
  <2>. QED  BY <1>1, <2>2
<1>. QED  BY <1>1, <1>2, <1>4, <1>5 DEF Rank

\* ORDER BY returns every id once, in ascending order.
THEOREM AscendingSorts ==
    ASSUME NEW ids \in SUBSET Nat, IsFiniteSet(ids)
    PROVE  /\ Cardinality(ids) \in Nat
           /\ Ascending(ids) \in [1 .. Cardinality(ids) -> ids]
           /\ Ascending(ids) \in Seq(ids)
           /\ Len(Ascending(ids)) = Cardinality(ids)
           /\ \A i \in 1 .. Cardinality(ids) : Rank(ids, Ascending(ids)[i]) = i
           /\ \A n \in ids : /\ Rank(ids, n) \in 1 .. Cardinality(ids)
                             /\ Ascending(ids)[Rank(ids, n)] = n
           /\ \A i, j \in 1 .. Cardinality(ids) :
                  i < j => Ascending(ids)[i] < Ascending(ids)[j]
<1>. DEFINE size == Cardinality(ids)
            rank == [n \in ids |-> Rank(ids, n)]
<1>1. size \in Nat
  BY FS_CardinalityType
<1>2. IsFiniteSet(1 .. size) /\ Cardinality(1 .. size) = size
  BY <1>1, FS_Interval
<1>3. \A m, n \in ids : m # n => Rank(ids, m) # Rank(ids, n)
  <2>. SUFFICES ASSUME NEW m \in ids, NEW n \in ids, m < n
                PROVE  Rank(ids, m) # Rank(ids, n)
    OBVIOUS
  <2>. QED  BY <1>1, RankRises
<1>4. rank \in Injection(ids, 1 .. size)
  BY <1>3, RankRises DEF Injection, IsInjective
<1>5. rank \in Surjection(ids, 1 .. size)
  BY <1>2, <1>4, FS_Injection
<1>6. \A i \in 1 .. size : \E n \in ids : Rank(ids, n) = i
  BY <1>5 DEF Surjection
<1>. HIDE DEF size, rank
<1>7. ASSUME NEW i \in 1 .. size
      PROVE  Ascending(ids)[i] \in ids /\ Rank(ids, Ascending(ids)[i]) = i
  BY <1>6 DEF Ascending, size
<1>8. Ascending(ids) \in [1 .. size -> ids]
  BY <1>7 DEF Ascending, size
<1>9. Ascending(ids) \in Seq(ids) /\ Len(Ascending(ids)) = size
  BY <1>1, <1>8, LenProperties, SeqDef
<1>10. \A n \in ids : Rank(ids, n) \in 1 .. size /\ Ascending(ids)[Rank(ids, n)] = n
  BY <1>3, <1>7, RankRises DEF size
<1>11. ASSUME NEW i \in 1 .. size, NEW j \in 1 .. size, i < j
       PROVE  Ascending(ids)[i] < Ascending(ids)[j]
  <2>. DEFINE m == Ascending(ids)[i]
              n == Ascending(ids)[j]
  <2>1. m \in Nat /\ n \in Nat /\ m \in ids /\ n \in ids
        /\ Rank(ids, m) = i /\ Rank(ids, n) = j
    BY <1>7
  <2>2. ~(n < m) /\ n # m
    BY <2>1, <1>1, <1>11, RankRises
  <2>. QED  BY <2>1, <2>2
<1>. QED  BY <1>1, <1>7, <1>8, <1>9, <1>10, <1>11 DEF size

\* A finite set of ids that is not empty has a smallest one.
LEMMA LeastId ==
    ASSUME NEW ids \in SUBSET Nat, IsFiniteSet(ids), ids # {}
    PROVE  \E m \in ids : \A n \in ids : m <= n
<1>1. Cardinality(ids) \in Nat \ {0}
  BY AscendingSorts, FS_EmptySet
<1>. DEFINE m == Ascending(ids)[1]
<1>2. m \in ids /\ Rank(ids, m) = 1
  BY <1>1, AscendingSorts
<1>3. ASSUME NEW n \in ids, n < m
      PROVE  FALSE
  <2>1. Rank(ids, n) \in 1 .. Cardinality(ids) /\ Rank(ids, n) < 1
    BY <1>2, <1>3, RankRises
  <2>. QED  BY <1>1, <2>1
<1>. HIDE DEF m
<1>4. \A n \in ids : m \in Nat /\ n \in Nat
  BY <1>2
<1>5. \A n \in ids : m <= n
  BY <1>3, <1>4
<1>. QED  BY <1>2, <1>5

\* Ids that are added behind all others change no rank.
LEMMA RankOfPrefix ==
    ASSUME NEW ids \in SUBSET Nat, NEW more \in SUBSET Nat,
           \A m \in more \ ids, n \in ids : n < m, ids \subseteq more,
           NEW n \in ids
    PROVE  Rank(more, n) = Rank(ids, n)
<1>1. \A m \in more : m <= n => m \in ids
  <2>. SUFFICES ASSUME NEW m \in more, m \notin ids
                PROVE  ~(m <= n)
    OBVIOUS
  <2>1. m \in Nat /\ n \in Nat /\ n < m
    OBVIOUS
  <2>. QED  BY <2>1
<1>2. {m \in more : m <= n} = {m \in ids : m <= n}
  BY <1>1
<1>. QED  BY <1>2 DEF Rank

\* A page only grows: ids that are added behind all others come after them.
THEOREM AscendingGrows ==
    ASSUME NEW ids \in SUBSET Nat, NEW more \in SUBSET Nat,
           IsFiniteSet(more), ids \subseteq more,
           \A m \in more \ ids, n \in ids : n < m
    PROVE  /\ Cardinality(ids) <= Cardinality(more)
           /\ \A i \in 1 .. Cardinality(ids) : Ascending(more)[i] = Ascending(ids)[i]
<1>1. IsFiniteSet(ids) /\ Cardinality(ids) <= Cardinality(more)
  BY FS_Subset
<1>2. ASSUME NEW i \in 1 .. Cardinality(ids)
      PROVE  Ascending(more)[i] = Ascending(ids)[i]
  <2>. DEFINE n == Ascending(ids)[i]
  <2>1. n \in ids /\ Rank(ids, n) = i
    BY <1>1, AscendingSorts
  <2>2. Rank(more, n) = i /\ n \in more
    BY <2>1, RankOfPrefix
  <2>. QED  BY <2>2, AscendingSorts
<1>. QED  BY <1>1, <1>2

\* LIMIT keeps the first rows.
LEMMA FirstRows ==
    ASSUME NEW S, NEW rows \in Seq(S), NEW n \in Nat
    PROVE  /\ FirstOf(rows, n) \in Seq(S)
           /\ Len(FirstOf(rows, n)) = IF Len(rows) < n THEN Len(rows) ELSE n
           /\ \A i \in 1 .. Len(FirstOf(rows, n)) :
                  i \in 1 .. Len(rows) /\ FirstOf(rows, n)[i] = rows[i]
<1>. DEFINE k == IF Len(rows) < n THEN Len(rows) ELSE n
<1>1. k \in Nat /\ k <= Len(rows) /\ Len(rows) \in Nat /\ DOMAIN rows = 1 .. Len(rows)
  BY LenProperties
<1>2. \A i \in 1 .. k : rows[i] \in S
  BY <1>1, ElementOfSeq
<1>3. SubSeq(rows, 1, k) \in Seq(S) /\ Len(SubSeq(rows, 1, k)) = k
      /\ \A i \in 1 .. k : SubSeq(rows, 1, k)[i] = rows[i]
  BY <1>1, <1>2, SubSeqProperties
<1>. QED  BY <1>1, <1>3 DEF FirstOf

-----------------------------------------------------------------------------
(* The tree.                                                               *)

\* A set of numbers that has 0 and, with each number below n, the next, has all up to n.
LEMMA UpTo ==
    ASSUME NEW n \in Nat, NEW S, 0 \in S,
           \A k \in 0 .. n : k \in S /\ k < n => k + 1 \in S
    PROVE  \A k \in 0 .. n : k \in S
<1>. DEFINE bad == {k \in 0 .. n : k \notin S}
<1>1. bad \in SUBSET Nat /\ IsFiniteSet(bad)
  <2>1. bad \in SUBSET (0 .. n) /\ IsFiniteSet(0 .. n)
    BY FS_Interval
  <2>. QED  BY <2>1, FS_Subset
<1>2. CASE bad # {}
  <2>1. PICK m \in bad : \A k \in bad : m <= k
    BY <1>1, <1>2, LeastId
  <2>2. m # 0 /\ m - 1 \in 0 .. n /\ m - 1 < n
    BY <2>1
  <2>3. m - 1 \in S
    BY <2>1, <2>2
  <2>4. m - 1 + 1 \in S
    BY <2>2, <2>3
  <2>. QED  BY <2>1, <2>4
<1>. QED  BY <1>2

\* A list is a function on 1 .. m, and m is its length.
IsList(f, m) == m \in Nat /\ f = [i \in 1 .. m |-> f[i]]

LEMMA ListLen ==
    ASSUME NEW m \in Nat, NEW f, f = [i \in 1 .. m |-> f[i]]
    PROVE  Len(f) = m /\ DOMAIN f = 1 .. m
<1>. DEFINE T == {f[i] : i \in 1 .. m}
<1>1. f \in [1 .. m -> T]
  OBVIOUS
<1>2. f \in Seq(T)
  BY <1>1, SeqDef
<1>. QED  BY <1>1, <1>2, LenProperties

\* nextLevel halves a level, rounding up.
LEMMA NextLevelPairs ==
    ASSUME NEW m \in Nat, NEW f, IsList(f, m)
    PROVE  /\ IsList(NextLevel(f), (m + 1) \div 2)
           /\ \A i \in 1 .. (m + 1) \div 2 :
                 /\ 2 * i - 1 \in 1 .. m
                 /\ NextLevel(f)[i] = Combine(f[2 * i - 1],
                                              IF 2 * i <= m THEN f[2 * i] ELSE f[2 * i - 1])
<1>1. Len(f) = m
  BY ListLen DEF IsList
<1>2. (m + 1) \div 2 \in Nat
  OBVIOUS
<1>. QED  BY <1>1, <1>2 DEF NextLevel, IsList

\* The levels of a list of leaves, unfolded.
LeafLevel(s) == [i \in DOMAIN s |-> Hash(s[i])]
Above(level) == IF Len(level) > 1 THEN NextLevel(level) ELSE level

LEMMA LevelsUnfold ==
    ASSUME NEW s, Len(s) \in Nat
    PROVE  Levels(s) = [k \in 0 .. Len(s) |-> IF k = 0 THEN LeafLevel(s)
                                              ELSE Above(Levels(s)[k - 1])]
<1>. DEFINE UpToLevel(g, n) == g = [k \in 0 .. n |-> IF k = 0 THEN LeafLevel(s)
                                                    ELSE Above(g[k - 1])]
            S == {n \in 0 .. Len(s) : \E g : UpToLevel(g, n)}
<1>1. 0 \in S
  <2>1. UpToLevel([k \in 0 .. 0 |-> LeafLevel(s)], 0)
    OBVIOUS
  <2>. HIDE DEF UpToLevel
  <2>. QED  BY <2>1
<1>2. ASSUME NEW n \in 0 .. Len(s), n \in S, n < Len(s)
      PROVE  n + 1 \in S
  <2>1. PICK g : UpToLevel(g, n)
    BY <1>2
  <2>. DEFINE h == [k \in 0 .. n + 1 |-> IF k <= n THEN g[k] ELSE Above(g[n])]
  <2>2. UpToLevel(h, n + 1)
    <3>1. \A k \in 0 .. n : g[k] = IF k = 0 THEN LeafLevel(s) ELSE Above(g[k - 1])
      BY <2>1
    <3>2. \A k \in 0 .. n + 1 : h[k] = IF k = 0 THEN LeafLevel(s) ELSE Above(h[k - 1])
      BY <1>2, <3>1
    <3>. QED  BY <3>2
  <2>. HIDE DEF UpToLevel, h
  <2>3. n + 1 \in 0 .. Len(s)
    BY <1>2
  <2>. QED  BY <2>2, <2>3
<1>. HIDE DEF S
<1>3. Len(s) \in S
  <2>1. \A n \in 0 .. Len(s) : n \in S /\ n < Len(s) => n + 1 \in S
    BY <1>2
  <2>2. \A n \in 0 .. Len(s) : n \in S
    BY <1>1, <2>1, UpTo, Zenon
  <2>. QED  BY <2>2
<1>4. \E g : UpToLevel(g, Len(s))
  BY <1>3 DEF S
<1>. QED  BY <1>4 DEF Levels, LeafLevel, Above

\* A level of distinct nodes.
Distinct(f) ==
    /\ IsList(f, Len(f)) /\ Len(f) >= 1
    /\ \A i, j \in 1 .. Len(f) : f[i] = f[j] => i = j

LEMMA AboveIsDistinct ==
    ASSUME NEW f, Distinct(f)
    PROVE  /\ Distinct(Above(f))
           /\ Len(Above(f)) = IF Len(f) > 1 THEN (Len(f) + 1) \div 2 ELSE 1
<1>1. CASE Len(f) > 1
  <2>. DEFINE g == NextLevel(f)
              m == (Len(f) + 1) \div 2
  <2>1. /\ IsList(g, m)
        /\ \A i \in 1 .. m : /\ 2 * i - 1 \in 1 .. Len(f)
                              /\ \E right : g[i] = Combine(f[2 * i - 1], right)
    <3>1. IsList(f, Len(f)) /\ Len(f) \in Nat
      BY DEF Distinct, IsList
    <3>. QED  BY <3>1, NextLevelPairs
  <2>. HIDE DEF g
  <2>2. Len(g) = m /\ m \in Nat /\ m >= 1
    BY <1>1, <2>1, ListLen DEF IsList, Distinct
  <2>3. ASSUME NEW i \in 1 .. m, NEW j \in 1 .. m, g[i] = g[j]
        PROVE  i = j
    <3>1. f[2 * i - 1] = f[2 * j - 1]
      BY <2>1, <2>3 DEF Combine
    <3>2. 2 * i - 1 = 2 * j - 1
      BY <2>1, <3>1 DEF Distinct
    <3>. QED  BY <3>2
  <2>4. Above(f) = g
    BY <1>1 DEF Above, g
  <2>5. Distinct(g)
    BY <2>1, <2>2, <2>3 DEF Distinct
  <2>. QED  BY <1>1, <2>2, <2>4, <2>5
<1>2. CASE ~(Len(f) > 1)
  <2>1. Len(f) = 1
    BY <1>2 DEF Distinct, IsList
  <2>. QED  BY <1>2, <2>1 DEF Above
<1>. QED  BY <1>1, <1>2

\* Half of two or more, rounded up, is less.
LEMMA HalfLess ==
    ASSUME NEW l \in Nat, NEW k \in Nat, NEW n \in Nat, l > 1, l + k <= n
    PROVE  (l + 1) \div 2 + (k + 1) <= n
<1>1. (l + 1) \div 2 <= l - 1
  OBVIOUS
<1>2. (l + 1) \div 2 \in Nat
  OBVIOUS
<1>. QED  BY <1>1, <1>2

\* The levels of distinct leaves are of distinct nodes, the last of a single one.
LEMMA LevelsAreDistinct ==
    ASSUME NEW s, Distinct(s)
    PROVE  /\ DOMAIN Levels(s) = 0 .. Len(s)
           /\ Levels(s)[0] = LeafLevel(s)
           /\ \A k \in 0 .. Len(s) : k < Len(s) => Levels(s)[k + 1] = Above(Levels(s)[k])
           /\ \A k \in 0 .. Len(s) : Distinct(Levels(s)[k])
           /\ Len(Levels(s)[Len(s)]) = 1
<1>. DEFINE n == Len(s)
            L == Levels(s)
            S == {k \in 0 .. n : Distinct(L[k]) /\ (Len(L[k]) = 1 \/ Len(L[k]) + k <= n)}
<1>1. n \in Nat /\ n >= 1
  BY DEF Distinct, IsList
<1>2. L = [k \in 0 .. n |-> IF k = 0 THEN LeafLevel(s) ELSE Above(L[k - 1])]
  BY <1>1, LevelsUnfold
<1>. HIDE DEF L
<1>3. DOMAIN L = 0 .. n /\ L[0] = LeafLevel(s)
  BY <1>1, <1>2
<1>4. ASSUME NEW k \in 0 .. n, k < n
      PROVE  L[k + 1] = Above(L[k])
  BY <1>1, <1>2, <1>4
<1>5. Distinct(L[0]) /\ Len(L[0]) = n
  <2>1. L[0] = [i \in 1 .. n |-> Hash(s[i])]
    BY <1>3 DEF LeafLevel, Distinct, IsList
  <2>2. L[0] = [i \in 1 .. n |-> L[0][i]]
    BY <2>1
  <2>3. Len(L[0]) = n
    BY <1>1, <2>2, ListLen
  <2>4. \A i, j \in 1 .. n : L[0][i] = L[0][j] => i = j
    BY <2>1 DEF Hash, Distinct
  <2>. QED  BY <1>1, <2>2, <2>3, <2>4 DEF Distinct, IsList
<1>6. 0 \in S
  BY <1>1, <1>5
<1>7. ASSUME NEW k \in 0 .. n, k \in S, k < n
      PROVE  k + 1 \in S
  <2>1. /\ Distinct(L[k]) /\ (Len(L[k]) = 1 \/ Len(L[k]) + k <= n)
        /\ Len(L[k]) \in Nat /\ Len(L[k]) >= 1
    BY <1>7 DEF Distinct, IsList
  <2>2. /\ Distinct(L[k + 1])
        /\ Len(L[k + 1]) = IF Len(L[k]) > 1 THEN (Len(L[k]) + 1) \div 2 ELSE 1
    BY <1>4, <1>7, <2>1, AboveIsDistinct
  <2>3. Len(L[k + 1]) = 1 \/ Len(L[k + 1]) + (k + 1) <= n
    <3>1. PICK l \in Nat : /\ l = Len(L[k]) /\ l >= 1 /\ (l = 1 \/ l + k <= n)
                           /\ Len(L[k + 1]) = IF l > 1 THEN (l + 1) \div 2 ELSE 1
      BY <2>1, <2>2
    <3>2. k \in Nat /\ n \in Nat /\ (l = 1 \/ l + k <= n)
      BY <1>1, <3>1
    <3>. HIDE DEF n
    <3>3. l > 1 => l + k <= n
      BY <3>2
    <3>4. l > 1 => (l + 1) \div 2 + (k + 1) <= n
      BY <3>2, <3>3, HalfLess
    <3>. QED  BY <3>1, <3>4 DEF n
  <2>4. k + 1 \in 0 .. n
    BY <1>1, <1>7
  <2>. QED  BY <2>2, <2>3, <2>4
<1>8. \A k \in 0 .. n : k \in S
  <2>. HIDE DEF S
  <2>1. \A k \in 0 .. n : k \in S /\ k < n => k + 1 \in S
    BY <1>7
  <2>. QED  BY <1>1, <1>6, <2>1, UpTo, Zenon
<1>9. Len(L[n]) = 1
  <2>1. Distinct(L[n]) /\ (Len(L[n]) = 1 \/ Len(L[n]) + n <= n)
    BY <1>1, <1>8
  <2>. QED  BY <1>1, <2>1 DEF Distinct, IsList
<1>. QED  BY <1>3, <1>4, <1>8, <1>9 DEF L

\* The loop over the levels of a list stops at depth d, and each level is the next of
\* the one below.
LoopTo(s, d) ==
    /\ d \in Nat /\ d <= Len(s)
    /\ Levels(s)[0] = LeafLevel(s)
    /\ Len(Levels(s)[d]) = 1
    /\ \A k \in 0 .. d : Distinct(Levels(s)[k])
    /\ \A k \in 0 .. d : k < d => /\ Len(Levels(s)[k]) > 1
                                /\ Levels(s)[k + 1] = NextLevel(Levels(s)[k])
    /\ ComputeMerkleRoot(s) = Levels(s)[d][1]

LEMMA LoopStops ==
    ASSUME NEW s, Distinct(s)
    PROVE  LoopTo(s, Depth(Levels(s)))
<1>. DEFINE n == Len(s)
            L == Levels(s)
            d == Depth(L)
            single == {k \in 0 .. n : Len(L[k]) = 1}
<1>1. /\ n \in Nat /\ DOMAIN L = 0 .. n /\ L[0] = LeafLevel(s) /\ Len(L[n]) = 1
      /\ \A k \in 0 .. n : k < n => L[k + 1] = Above(L[k])
      /\ \A k \in 0 .. n : Distinct(L[k]) /\ Len(L[k]) \in Nat /\ Len(L[k]) >= 1
  BY LevelsAreDistinct DEF Distinct, IsList
<1>. HIDE DEF n, L, d
<1>2. single \in SUBSET Nat /\ IsFiniteSet(single) /\ single # {}
  <2>1. single \in SUBSET (0 .. n) /\ IsFiniteSet(0 .. n) /\ n \in single
    BY <1>1, FS_Interval
  <2>. QED  BY <2>1, FS_Subset
<1>3. PICK m \in single : \A k \in single : m <= k
  BY <1>2, LeastId
<1>4. \A k \in 0 .. m - 1 : Len(L[k]) > 1
  <2>1. m \in 0 .. n
    BY <1>3
  <2>. HIDE DEF single
  <2>2. ASSUME NEW k \in 0 .. n, k < m
        PROVE  Len(L[k]) > 1
    <3>1. Len(L[k]) # 1
      <4>1. k \notin single
        BY <1>1, <1>3, <2>1, <2>2
      <4>. QED  BY <4>1 DEF single
    <3>2. Len(L[k]) \in Nat /\ Len(L[k]) >= 1
      BY <1>1
    <3>3. \A l \in Nat : l >= 1 /\ l # 1 => l > 1
      OBVIOUS
    <3>. QED  BY <3>1, <3>2, <3>3, Zenon
  <2>3. \A k \in 0 .. m - 1 : k \in 0 .. n /\ k < m
    BY <1>1, <2>1
  <2>. QED  BY <2>2, <2>3
<1>5. /\ d \in 0 .. n /\ Len(L[d]) = 1
      /\ \A k \in 0 .. d - 1 : Len(L[k]) > 1
  <2>1. m \in DOMAIN L /\ Len(L[m]) = 1
    BY <1>1, <1>3
  <2>. HIDE DEF single
  <2>. QED  BY <1>1, <1>4, <2>1 DEF Depth, d
<1>6. ASSUME NEW k \in 0 .. d, k < d
      PROVE  Len(L[k]) > 1 /\ L[k + 1] = NextLevel(L[k])
  <2>1. k \in 0 .. d - 1 /\ k \in 0 .. n /\ k < n
    BY <1>1, <1>5, <1>6
  <2>. QED  BY <1>1, <1>5, <2>1 DEF Above
<1>7. L[n] = L[d]
  <2>. DEFINE S == {k \in 0 .. n : k < d \/ L[k] = L[d]}
  <2>1. 0 \in S
    BY <1>1, <1>5
  <2>2. ASSUME NEW k \in 0 .. n, k \in S, k < n
        PROVE  k + 1 \in S
    <3>1. k + 1 \in 0 .. n
      BY <1>1, <2>2
    <3>2. CASE k < d
      <4>1. k + 1 < d \/ k + 1 = d
        BY <1>1, <1>5, <3>2
      <4>. QED  BY <3>1, <4>1
    <3>3. CASE L[k] = L[d]
      <4>1. L[k + 1] = Above(L[d])
        BY <1>1, <2>2, <3>3
      <4>2. Above(L[d]) = L[d]
        BY <1>5 DEF Above
      <4>. QED  BY <3>1, <4>1, <4>2
    <3>. QED  BY <2>2, <3>2, <3>3
  <2>3. \A k \in 0 .. n : k \in S
    <3>. HIDE DEF S
    <3>1. \A k \in 0 .. n : k \in S /\ k < n => k + 1 \in S
      BY <2>2
    <3>. QED  BY <1>1, <2>1, <3>1, UpTo, Zenon
  <2>. QED  BY <1>1, <1>5, <2>3
<1>8. ComputeMerkleRoot(s) = L[d][1]
  BY <1>7 DEF n, L, ComputeMerkleRoot
<1>9. d \in Nat /\ d <= n /\ \A k \in 0 .. d : k \in 0 .. n
  BY <1>1, <1>5
<1>10. \A k \in 0 .. d : Distinct(L[k])
  BY <1>1, <1>9
<1>. QED  BY <1>1, <1>5, <1>6, <1>8, <1>9, <1>10 DEF n, L, d, LoopTo

\* Levels of distinct nodes with the same next level are the same.
LEMMA NextLevelBinds ==
    ASSUME NEW f, NEW g, Distinct(f), Distinct(g), NextLevel(f) = NextLevel(g)
    PROVE  f = g
<1>. DEFINE m == Len(f)
            n == Len(g)
            N == NextLevel(f)
<1>1. /\ m \in Nat /\ IsList(f, m) /\ m >= 1 /\ n \in Nat /\ IsList(g, n) /\ n >= 1
      /\ \A i, j \in 1 .. m : f[i] = f[j] => i = j
      /\ \A i, j \in 1 .. n : g[i] = g[j] => i = j
  BY DEF Distinct, IsList
<1>2. /\ IsList(N, (m + 1) \div 2)
      /\ \A i \in 1 .. (m + 1) \div 2 :
            /\ 2 * i - 1 \in 1 .. m
            /\ N[i] = Combine(f[2 * i - 1], IF 2 * i <= m THEN f[2 * i] ELSE f[2 * i - 1])
  BY <1>1, NextLevelPairs
<1>3. /\ IsList(N, (n + 1) \div 2)
      /\ \A i \in 1 .. (n + 1) \div 2 :
            /\ 2 * i - 1 \in 1 .. n
            /\ N[i] = Combine(g[2 * i - 1], IF 2 * i <= n THEN g[2 * i] ELSE g[2 * i - 1])
  BY <1>1, NextLevelPairs
<1>. HIDE DEF m, n, N
<1>4. (m + 1) \div 2 = (n + 1) \div 2 /\ (m + 1) \div 2 \in Nat
  BY <1>1, <1>2, <1>3, ListLen DEF IsList
<1>. DEFINE half == (m + 1) \div 2
<1>5. ASSUME NEW i \in 1 .. half
      PROVE  /\ f[2 * i - 1] = g[2 * i - 1]
             /\ (IF 2 * i <= m THEN f[2 * i] ELSE f[2 * i - 1])
                  = (IF 2 * i <= n THEN g[2 * i] ELSE g[2 * i - 1])
             /\ 2 * i - 1 \in 1 .. m /\ 2 * i - 1 \in 1 .. n
  BY <1>2, <1>3, <1>4 DEF Combine
<1>6. ASSUME NEW i \in 1 .. half
      PROVE  /\ 2 * i <= m <=> 2 * i <= n
             /\ 2 * i <= m => f[2 * i] = g[2 * i]
  <2>1. 2 * i <= m => f[2 * i] # f[2 * i - 1]
    BY <1>1, <1>5
  <2>2. 2 * i <= n => g[2 * i] # g[2 * i - 1]
    BY <1>1, <1>5
  <2>. QED  BY <1>5, <2>1, <2>2
<1>7. m = n
  <2>1. half >= 1 /\ half \in Nat
    BY <1>1
  <2>2. 2 * half <= m <=> 2 * half <= n
    BY <1>6, <2>1
  <2>. QED  BY <1>1, <1>4, <2>2
<1>8. ASSUME NEW j \in 1 .. m
      PROVE  f[j] = g[j]
  <2>. DEFINE i == (j + 1) \div 2
  <2>1. i \in 1 .. half /\ (j = 2 * i - 1 \/ j = 2 * i)
    BY <1>1
  <2>. QED  BY <1>5, <1>6, <2>1
<1>. QED  BY <1>1, <1>7, <1>8 DEF IsList

\* Trees of different depths have different roots: down the left edge of both, a
\* leaf would be a node.
LEMMA DepthsDiffer ==
    ASSUME NEW s, NEW t, Distinct(s), Distinct(t),
           Depth(Levels(s)) < Depth(Levels(t))
    PROVE  ComputeMerkleRoot(s) # ComputeMerkleRoot(t)
<1>. SUFFICES ASSUME ComputeMerkleRoot(s) = ComputeMerkleRoot(t)
              PROVE  FALSE
  OBVIOUS
<1>. DEFINE L == Levels(s)
            M == Levels(t)
            d == Depth(L)
            e == Depth(M)
<1>0. LoopTo(s, d) /\ LoopTo(t, e) /\ d < e
  BY LoopStops
<1>. HIDE DEF L, M, d, e
<1>1. /\ d \in Nat /\ L[0] = LeafLevel(s)
      /\ \A k \in 0 .. d : Distinct(L[k])
      /\ \A k \in 0 .. d : k < d => L[k + 1] = NextLevel(L[k])
  BY <1>0 DEF LoopTo, L
<1>2. /\ e \in Nat
      /\ \A k \in 0 .. e : Distinct(M[k])
      /\ \A k \in 0 .. e : k < e => M[k + 1] = NextLevel(M[k])
  BY <1>0 DEF LoopTo, L, M
<1>3. d < e /\ L[d][1] = M[e][1]
  BY <1>0 DEF LoopTo, L, M
<1>4. ASSUME NEW f, Distinct(f)
      PROVE  \E right : NextLevel(f)[1] = Combine(f[1], right)
  <2>1. Len(f) \in Nat /\ IsList(f, Len(f)) /\ Len(f) >= 1
    BY <1>4 DEF Distinct, IsList
  <2>2. 1 \in 1 .. (Len(f) + 1) \div 2 /\ 2 * 1 - 1 = 1
    BY <2>1
  <2>. QED  BY <2>1, <2>2, NextLevelPairs
<1>. DEFINE S == {k \in 0 .. d : L[d - k][1] = M[e - k][1]}
<1>5. 0 \in S
  BY <1>1, <1>2, <1>3
<1>6. ASSUME NEW k \in 0 .. d, k \in S, k < d
      PROVE  k + 1 \in S
  <2>. DEFINE x == d - (k + 1)
              y == e - (k + 1)
  <2>1. /\ x \in 0 .. d /\ x < d /\ x + 1 = d - k
        /\ y \in 0 .. e /\ y < e /\ y + 1 = e - k
    BY <1>1, <1>2, <1>3, <1>6
  <2>2. L[x + 1][1] = M[y + 1][1]
    BY <1>6, <2>1
  <2>. HIDE DEF x, y
  <2>3. NextLevel(L[x])[1] = NextLevel(M[y])[1] /\ Distinct(L[x]) /\ Distinct(M[y])
    BY <1>1, <1>2, <2>1, <2>2
  <2>4. L[x][1] = M[y][1]
    BY <1>4, <2>3 DEF Combine
  <2>5. k + 1 \in 0 .. d
    BY <1>1, <1>6
  <2>. QED  BY <2>4, <2>5 DEF x, y
<1>7. \A k \in 0 .. d : k \in S
  <2>. HIDE DEF S
  <2>1. \A k \in 0 .. d : k \in S /\ k < d => k + 1 \in S
    BY <1>6
  <2>. QED  BY <1>1, <1>5, <2>1, UpTo, Zenon
<1>8. L[0][1] = M[e - d][1]
  <2>1. d \in 0 .. d /\ d - d = 0
    BY <1>1
  <2>. QED  BY <1>7, <2>1
<1>9. \E left, right : M[e - d][1] = Combine(left, right)
  <2>. DEFINE y == e - d - 1
  <2>1. y \in 0 .. e /\ y < e /\ y + 1 = e - d
    BY <1>1, <1>2, <1>3
  <2>. HIDE DEF y
  <2>2. M[e - d] = NextLevel(M[y]) /\ Distinct(M[y])
    BY <1>2, <2>1
  <2>. QED  BY <1>4, <2>2
<1>10. L[0][1] = Hash(s[1])
  <2>1. 1 \in DOMAIN s
    BY DEF Distinct, IsList
  <2>. QED  BY <1>1, <2>1 DEF LeafLevel
<1>11. \A leaf, left, right : Hash(leaf) # Combine(left, right)
  BY DEF Hash, Combine
<1>. QED  BY <1>8, <1>9, <1>10, <1>11

\* The root of distinct leaves binds them.
THEOREM RootBinds ==
    ASSUME NEW s, NEW t, Distinct(s), Distinct(t),
           ComputeMerkleRoot(s) = ComputeMerkleRoot(t)
    PROVE  s = t
<1>. DEFINE L == Levels(s)
            M == Levels(t)
            d == Depth(L)
<1>1. /\ d \in Nat /\ L[0] = LeafLevel(s) /\ Len(L[d]) = 1
      /\ \A k \in 0 .. d : Distinct(L[k])
      /\ \A k \in 0 .. d : k < d => L[k + 1] = NextLevel(L[k])
  <2>1. LoopTo(s, d)
    BY LoopStops
  <2>. QED  BY <2>1 DEF LoopTo
<1>2. d = Depth(M)
  <2>1. Depth(L) \in Nat /\ Depth(M) \in Nat
    BY LoopStops DEF LoopTo
  <2>2. ~(Depth(L) < Depth(M)) /\ ~(Depth(M) < Depth(L))
    BY DepthsDiffer
  <2>. QED  BY <2>1, <2>2
<1>3. /\ M[0] = LeafLevel(t) /\ Len(M[d]) = 1
      /\ \A k \in 0 .. d : Distinct(M[k])
      /\ \A k \in 0 .. d : k < d => M[k + 1] = NextLevel(M[k])
      /\ L[d][1] = M[d][1]
  <2>1. LoopTo(t, d) /\ LoopTo(s, d)
    BY <1>2, LoopStops
  <2>. QED  BY <2>1 DEF LoopTo
<1>. HIDE DEF L, M, d
<1>. DEFINE S == {k \in 0 .. d : L[d - k] = M[d - k]}
<1>4. L[d] = M[d]
  <2>1. IsList(L[d], 1) /\ IsList(M[d], 1)
    <3>1. d \in 0 .. d
      BY <1>1
    <3>. QED  BY <1>1, <1>3, <3>1 DEF Distinct
  <2>. QED  BY <1>3, <2>1 DEF IsList
<1>5. 0 \in S
  BY <1>1, <1>4
<1>6. ASSUME NEW k \in 0 .. d, k \in S, k < d
      PROVE  k + 1 \in S
  <2>. DEFINE x == d - (k + 1)
  <2>1. x \in 0 .. d /\ x < d /\ x + 1 = d - k
    BY <1>1, <1>6
  <2>2. L[x + 1] = M[x + 1]
    BY <1>6, <2>1
  <2>. HIDE DEF x
  <2>3. NextLevel(L[x]) = NextLevel(M[x]) /\ Distinct(L[x]) /\ Distinct(M[x])
    BY <1>1, <1>3, <2>1, <2>2
  <2>4. L[x] = M[x]
    BY <2>3, NextLevelBinds
  <2>5. k + 1 \in 0 .. d
    BY <1>1, <1>6
  <2>. QED  BY <2>4, <2>5 DEF x
<1>7. \A k \in 0 .. d : k \in S
  <2>. HIDE DEF S
  <2>1. \A k \in 0 .. d : k \in S /\ k < d => k + 1 \in S
    BY <1>6
  <2>. QED  BY <1>1, <1>5, <2>1, UpTo, Zenon
<1>8. L[0] = M[0]
  <2>1. d \in 0 .. d /\ d - d = 0
    BY <1>1
  <2>. QED  BY <1>7, <2>1
<1>9. /\ s = [i \in DOMAIN s |-> s[i]] /\ t = [i \in DOMAIN t |-> t[i]]
  BY DEF Distinct, IsList
<1>10. DOMAIN s = DOMAIN t /\ \A i \in DOMAIN s : s[i] = t[i]
  BY <1>1, <1>3, <1>8 DEF LeafLevel, Hash
<1>. QED  BY <1>9, <1>10

\* The index of a node's path on each level, unfolded.
LEMMA IndicesUnfold ==
    ASSUME NEW i \in Nat, NEW d \in Nat
    PROVE  /\ Indices(i, d)[0] = i
           /\ \A k \in 0 .. d : Indices(i, d)[k] \in Nat
           /\ \A k \in 0 .. d : k < d => Indices(i, d)[k + 1] = Indices(i, d)[k] \div 2
<1>. DEFINE UpToLevel(g, n) == g = [k \in 0 .. n |-> IF k = 0 THEN i ELSE g[k - 1] \div 2]
            S == {n \in 0 .. d : \E g : UpToLevel(g, n)}
<1>1. 0 \in S
  <2>1. UpToLevel([k \in 0 .. 0 |-> i], 0)
    OBVIOUS
  <2>. HIDE DEF UpToLevel
  <2>. QED  BY <2>1
<1>2. ASSUME NEW n \in 0 .. d, n \in S, n < d
      PROVE  n + 1 \in S
  <2>1. PICK g : UpToLevel(g, n)
    BY <1>2
  <2>. DEFINE h == [k \in 0 .. n + 1 |-> IF k <= n THEN g[k] ELSE g[n] \div 2]
  <2>2. UpToLevel(h, n + 1)
    <3>1. \A k \in 0 .. n : g[k] = IF k = 0 THEN i ELSE g[k - 1] \div 2
      BY <2>1
    <3>2. \A k \in 0 .. n + 1 : h[k] = IF k = 0 THEN i ELSE h[k - 1] \div 2
      BY <1>2, <3>1
    <3>. QED  BY <3>2
  <2>. HIDE DEF UpToLevel, h
  <2>3. n + 1 \in 0 .. d
    BY <1>2
  <2>. QED  BY <2>2, <2>3
<1>. HIDE DEF S
<1>3. d \in S
  <2>1. \A n \in 0 .. d : n \in S /\ n < d => n + 1 \in S
    BY <1>2
  <2>2. \A n \in 0 .. d : n \in S
    BY <1>1, <2>1, UpTo, Zenon
  <2>. QED  BY <2>2
<1>4. \E g : UpToLevel(g, d)
  BY <1>3 DEF S
<1>. DEFINE idx == Indices(i, d)
<1>5. idx = [k \in 0 .. d |-> IF k = 0 THEN i ELSE idx[k - 1] \div 2]
  BY <1>4 DEF Indices
<1>. HIDE DEF idx, UpToLevel
<1>6. idx[0] = i
  BY <1>5
<1>7. ASSUME NEW k \in 0 .. d, k < d
      PROVE  idx[k + 1] = idx[k] \div 2
  BY <1>5, <1>7
<1>. DEFINE T == {k \in 0 .. d : idx[k] \in Nat}
<1>8. 0 \in T
  BY <1>6
<1>9. ASSUME NEW k \in 0 .. d, k \in T, k < d
      PROVE  k + 1 \in T
  <2>1. \A x \in Nat : x \div 2 \in Nat
    OBVIOUS
  <2>. QED  BY <1>7, <1>9, <2>1
<1>10. \A k \in 0 .. d : k \in T
  <2>. HIDE DEF T
  <2>1. \A k \in 0 .. d : k \in T /\ k < d => k + 1 \in T
    BY <1>9
  <2>. QED  BY <1>8, <2>1, UpTo, Zenon
<1>. QED  BY <1>6, <1>7, <1>10 DEF idx

\* One step of VerifyInclusionProof.
OneStep(step, cur) ==
    IF step.Side = "L" THEN Combine(step.Hash, cur) ELSE Combine(cur, step.Hash)

LEMMA CurrentsUnfold ==
    ASSUME NEW leaf, NEW steps, Len(steps) \in Nat
    PROVE  /\ Currents(leaf, steps)[0] = Hash(leaf)
           /\ \A k \in 0 .. Len(steps) : k < Len(steps) =>
                 Currents(leaf, steps)[k + 1] = OneStep(steps[k + 1], Currents(leaf, steps)[k])
<1>. DEFINE d == Len(steps)
            UpToStep(g, n) == g = [k \in 0 .. n |-> IF k = 0 THEN Hash(leaf)
                                                   ELSE OneStep(steps[k], g[k - 1])]
            S == {n \in 0 .. d : \E g : UpToStep(g, n)}
<1>1. 0 \in S
  <2>1. UpToStep([k \in 0 .. 0 |-> Hash(leaf)], 0)
    OBVIOUS
  <2>. HIDE DEF UpToStep
  <2>. QED  BY <2>1
<1>2. ASSUME NEW n \in 0 .. d, n \in S, n < d
      PROVE  n + 1 \in S
  <2>1. PICK g : UpToStep(g, n)
    BY <1>2
  <2>. DEFINE h == [k \in 0 .. n + 1 |-> IF k <= n THEN g[k] ELSE OneStep(steps[k], g[n])]
  <2>2. UpToStep(h, n + 1)
    <3>1. \A k \in 0 .. n : g[k] = IF k = 0 THEN Hash(leaf) ELSE OneStep(steps[k], g[k - 1])
      BY <2>1
    <3>2. \A k \in 0 .. n + 1 :
            h[k] = IF k = 0 THEN Hash(leaf) ELSE OneStep(steps[k], h[k - 1])
      BY <1>2, <3>1
    <3>. QED  BY <3>2
  <2>. HIDE DEF UpToStep, h
  <2>3. n + 1 \in 0 .. d
    BY <1>2
  <2>. QED  BY <2>2, <2>3
<1>. HIDE DEF S
<1>3. d \in S
  <2>1. \A n \in 0 .. d : n \in S /\ n < d => n + 1 \in S
    BY <1>2
  <2>2. \A n \in 0 .. d : n \in S
    BY <1>1, <2>1, UpTo, Zenon
  <2>. QED  BY <2>2
<1>4. \E g : UpToStep(g, d)
  BY <1>3 DEF S
<1>. DEFINE cur == Currents(leaf, steps)
<1>5. cur = [k \in 0 .. d |-> IF k = 0 THEN Hash(leaf) ELSE OneStep(steps[k], cur[k - 1])]
  BY <1>4 DEF Currents, OneStep
<1>. HIDE DEF cur, UpToStep
<1>6. ASSUME NEW k \in 0 .. d, k < d
      PROVE  cur[k + 1] = OneStep(steps[k + 1], cur[k])
  BY <1>5, <1>6
<1>. QED  BY <1>5, <1>6 DEF cur

\* A step goes from a node to the one above it, and from nothing else.
StepAt(f, x) == [Side |-> IF x % 2 = 0 THEN "R" ELSE "L", Hash |-> Sibling(f, x)]

LEMMA StepGoesUp ==
    ASSUME NEW f, Distinct(f), NEW x \in 0 .. Len(f) - 1, NEW c
    PROVE  /\ x \div 2 \in 0 .. Len(NextLevel(f)) - 1
           /\ (OneStep(StepAt(f, x), c) = NextLevel(f)[x \div 2 + 1]) <=> (c = f[x + 1])
<1>. DEFINE m == Len(f)
            q == x \div 2
            N == NextLevel(f)
<1>1. m \in Nat /\ IsList(f, m)
  BY DEF Distinct, IsList
<1>2. /\ IsList(N, (m + 1) \div 2)
      /\ \A i \in 1 .. (m + 1) \div 2 :
            N[i] = Combine(f[2 * i - 1], IF 2 * i <= m THEN f[2 * i] ELSE f[2 * i - 1])
  BY <1>1, NextLevelPairs
<1>3. Len(N) = (m + 1) \div 2
  BY <1>2, ListLen DEF IsList
<1>. HIDE DEF m, N
<1>4. x \in 0 .. m - 1
  BY DEF m
<1>5. q + 1 \in 1 .. (m + 1) \div 2 /\ q \in 0 .. (m + 1) \div 2 - 1
  BY <1>1, <1>4
<1>6. N[q + 1] = Combine(f[2 * (q + 1) - 1],
                         IF 2 * (q + 1) <= m THEN f[2 * (q + 1)] ELSE f[2 * (q + 1) - 1])
  BY <1>2, <1>5
<1>7. CASE x % 2 = 0
  <2>1. 2 * (q + 1) - 1 = x + 1 /\ 2 * (q + 1) = x + 2
    BY <1>1, <1>4, <1>7
  <2>2. Sibling(f, x) = IF x + 2 <= m THEN f[x + 2] ELSE f[x + 1]
    BY <1>1, <1>4, <1>7 DEF Sibling, m
  <2>3. OneStep(StepAt(f, x), c) = Combine(c, Sibling(f, x))
    BY <1>7 DEF OneStep, StepAt
  <2>4. N[q + 1] = Combine(f[x + 1], Sibling(f, x))
    BY <1>6, <2>1, <2>2
  <2>. QED  BY <1>3, <1>5, <2>3, <2>4 DEF Combine, N
<1>8. CASE x % 2 = 1
  <2>1. 2 * (q + 1) - 1 = x /\ 2 * (q + 1) = x + 1 /\ x + 1 <= m
    BY <1>1, <1>4, <1>8
  <2>2. Sibling(f, x) = f[x]
    BY <1>8 DEF Sibling
  <2>3. OneStep(StepAt(f, x), c) = Combine(Sibling(f, x), c)
    BY <1>8 DEF OneStep, StepAt
  <2>4. N[q + 1] = Combine(Sibling(f, x), f[x + 1])
    BY <1>6, <2>1, <2>2
  <2>. QED  BY <1>3, <1>5, <2>3, <2>4 DEF Combine, N
<1>9. x % 2 = 0 \/ x % 2 = 1
  BY <1>1, <1>4
<1>. QED  BY <1>7, <1>8, <1>9

\* The proof built for a position of a list of distinct leaves verifies against its
\* root for the leaf at that position and for nothing else.
THEOREM ProofFits ==
    ASSUME NEW s, Distinct(s), NEW i \in 0 .. Len(s) - 1, NEW leaf
    PROVE  VerifyInclusionProof(leaf, BuildInclusionProof(s, i), ComputeMerkleRoot(s))
             <=> leaf = s[i + 1]
<1>. DEFINE L == Levels(s)
            d == Depth(L)
            idx == Indices(i, d)
            steps == BuildInclusionProof(s, i)
            cur == Currents(leaf, steps)
<1>1. /\ d \in Nat /\ L[0] = LeafLevel(s) /\ Len(L[d]) = 1
      /\ \A k \in 0 .. d : Distinct(L[k])
      /\ \A k \in 0 .. d : k < d => L[k + 1] = NextLevel(L[k])
      /\ ComputeMerkleRoot(s) = L[d][1]
  <2>1. LoopTo(s, d)
    BY LoopStops
  <2>. QED  BY <2>1 DEF LoopTo
<1>2. i \in Nat /\ Len(s) \in Nat /\ IsList(s, Len(s)) /\ i + 1 \in DOMAIN s
  BY DEF Distinct, IsList
<1>3. /\ idx[0] = i
      /\ \A k \in 0 .. d : k < d => idx[k + 1] = idx[k] \div 2
  BY <1>1, <1>2, IndicesUnfold
<1>4. steps = [k \in 1 .. d |-> StepAt(L[k - 1], idx[k - 1])]
  BY DEF BuildInclusionProof, StepAt
<1>. HIDE DEF L, d, idx, steps
<1>5. Len(steps) = d
  <2>1. steps = [k \in 1 .. d |-> steps[k]]
    BY <1>4
  <2>. QED  BY <1>1, <2>1, ListLen
<1>6. /\ cur[0] = Hash(leaf)
      /\ \A k \in 0 .. d : k < d => cur[k + 1] = OneStep(steps[k + 1], cur[k])
  <2>1. Len(steps) \in Nat
    BY <1>1, <1>5
  <2>2. /\ cur[0] = Hash(leaf)
        /\ \A k \in 0 .. Len(steps) :
             k < Len(steps) => cur[k + 1] = OneStep(steps[k + 1], cur[k])
    BY <2>1, CurrentsUnfold
  <2>. HIDE DEF cur
  <2>. QED  BY <1>5, <2>2
<1>. HIDE DEF cur
<1>. DEFINE Fits(k) == /\ idx[k] \in 0 .. Len(L[k]) - 1
                       /\ (cur[k] = L[k][idx[k] + 1]) <=> (leaf = s[i + 1])
            S == {k \in 0 .. d : Fits(k)}
<1>7. Fits(0)
  <2>1. /\ L[0] = [j \in 1 .. Len(s) |-> Hash(s[j])] /\ i + 1 \in 1 .. Len(s)
    BY <1>1, <1>2 DEF LeafLevel, IsList
  <2>2. L[0] = [j \in 1 .. Len(s) |-> L[0][j]]
    BY <2>1
  <2>3. Len(L[0]) = Len(s)
    BY <1>2, <2>2, ListLen
  <2>4. L[0][i + 1] = Hash(s[i + 1])
    BY <2>1
  <2>5. cur[0] = L[0][i + 1] <=> leaf = s[i + 1]
    BY <1>6, <2>4 DEF Hash
  <2>. QED  BY <1>3, <2>3, <2>5
<1>8. ASSUME NEW k \in 0 .. d, Fits(k), k < d
      PROVE  Fits(k + 1)
  <2>. DEFINE f == L[k]
              x == idx[k]
  <2>1. k + 1 \in 1 .. d /\ (k + 1) - 1 = k
    BY <1>1, <1>8
  <2>2. steps[k + 1] = StepAt(f, x)
    BY <1>4, <2>1
  <2>3. /\ L[k + 1] = NextLevel(f) /\ idx[k + 1] = x \div 2
        /\ cur[k + 1] = OneStep(StepAt(f, x), cur[k])
    BY <1>1, <1>3, <1>6, <1>8, <2>2
  <2>4. Distinct(f)
    BY <1>1
  <2>5. x \in 0 .. Len(f) - 1
    BY <1>8
  <2>6. (cur[k] = f[x + 1]) <=> (leaf = s[i + 1])
    BY <1>8
  <2>. HIDE DEF f, x
  <2>7. /\ x \div 2 \in 0 .. Len(NextLevel(f)) - 1
        /\ (OneStep(StepAt(f, x), cur[k]) = NextLevel(f)[x \div 2 + 1]) <=> (cur[k] = f[x + 1])
    BY <2>4, <2>5, StepGoesUp
  <2>. QED  BY <2>3, <2>6, <2>7
<1>9. \A k \in 0 .. d : k \in S
  <2>. HIDE DEF Fits
  <2>1. 0 \in S /\ \A k \in 0 .. d : k \in S /\ k < d => k + 1 \in S
    BY <1>1, <1>7, <1>8
  <2>2. d \in Nat
    BY <1>1
  <2>. HIDE DEF S
  <2>. QED  BY <2>1, <2>2, UpTo, Zenon
<1>10. Fits(d)
  <2>. HIDE DEF Fits
  <2>. QED  BY <1>1, <1>9
<1>11. idx[d] = 0 /\ ((cur[d] = L[d][1]) <=> (leaf = s[i + 1]))
  <2>1. idx[d] \in 0 .. 1 - 1 /\ ((cur[d] = L[d][idx[d] + 1]) <=> (leaf = s[i + 1]))
    BY <1>1, <1>10
  <2>2. idx[d] = 0
    BY <2>1
  <2>. QED  BY <2>1, <2>2
<1>12. VerifyInclusionProof(leaf, steps, ComputeMerkleRoot(s)) <=> L[d][1] = cur[d]
  BY <1>1, <1>5 DEF VerifyInclusionProof, cur
<1>. QED  BY <1>11, <1>12 DEF steps

\* The widths of the reference tree, unfolded.
LEMMA WidthsUnfold ==
    ASSUME NEW n \in Nat
    PROVE  /\ Widths(n)[0] = 1
           /\ \A k \in 0 .. n : Widths(n)[k] \in Nat /\ Widths(n)[k] >= 1
           /\ \A k \in 0 .. n : k < n => Widths(n)[k + 1] = 2 * Widths(n)[k]
<1>. DEFINE UpToLevel(g, m) == g = [k \in 0 .. m |-> IF k = 0 THEN 1 ELSE 2 * g[k - 1]]
            S == {m \in 0 .. n : \E g : UpToLevel(g, m)}
<1>1. 0 \in S
  <2>1. UpToLevel([k \in 0 .. 0 |-> 1], 0)
    OBVIOUS
  <2>. HIDE DEF UpToLevel
  <2>. QED  BY <2>1
<1>2. ASSUME NEW m \in 0 .. n, m \in S, m < n
      PROVE  m + 1 \in S
  <2>1. PICK g : UpToLevel(g, m)
    BY <1>2
  <2>. DEFINE h == [k \in 0 .. m + 1 |-> IF k <= m THEN g[k] ELSE 2 * g[m]]
  <2>2. UpToLevel(h, m + 1)
    <3>1. \A k \in 0 .. m : g[k] = IF k = 0 THEN 1 ELSE 2 * g[k - 1]
      BY <2>1
    <3>2. \A k \in 0 .. m + 1 : h[k] = IF k = 0 THEN 1 ELSE 2 * h[k - 1]
      BY <1>2, <3>1
    <3>. QED  BY <3>2
  <2>. HIDE DEF UpToLevel, h
  <2>3. m + 1 \in 0 .. n
    BY <1>2
  <2>. QED  BY <2>2, <2>3
<1>. HIDE DEF S
<1>3. n \in S
  <2>1. \A m \in 0 .. n : m \in S /\ m < n => m + 1 \in S
    BY <1>2
  <2>2. \A m \in 0 .. n : m \in S
    BY <1>1, <2>1, UpTo, Zenon
  <2>. QED  BY <2>2
<1>4. \E g : UpToLevel(g, n)
  BY <1>3 DEF S
<1>. DEFINE width == Widths(n)
<1>5. width = [k \in 0 .. n |-> IF k = 0 THEN 1 ELSE 2 * width[k - 1]]
  BY <1>4 DEF Widths
<1>. HIDE DEF width, UpToLevel
<1>6. width[0] = 1
  BY <1>5
<1>7. ASSUME NEW k \in 0 .. n, k < n
      PROVE  width[k + 1] = 2 * width[k]
  BY <1>5, <1>7
<1>. DEFINE T == {k \in 0 .. n : width[k] \in Nat /\ width[k] >= 1}
<1>8. 0 \in T
  BY <1>6
<1>9. ASSUME NEW k \in 0 .. n, k \in T, k < n
      PROVE  k + 1 \in T
  BY <1>7, <1>9
<1>10. \A k \in 0 .. n : k \in T
  <2>. HIDE DEF T
  <2>1. \A k \in 0 .. n : k \in T /\ k < n => k + 1 \in T
    BY <1>9
  <2>. QED  BY <1>8, <2>1, UpTo, Zenon
<1>. QED  BY <1>6, <1>7, <1>10 DEF width

\* The reference tree, unfolded: the nodes of a height over those of the one below.
NodesAt(n, h) == {k \in 0 .. n - 1 : k * Widths(n)[h] < n}
Upper(n, below, h) ==
    [i \in NodesAt(n, h) |->
        Combine(below[2 * i], IF (2 * i + 1) * Widths(n)[h - 1] < n
                              THEN below[2 * i + 1] ELSE below[2 * i])]

LEMMA SubtreesUnfold ==
    ASSUME NEW s, Len(s) \in Nat
    PROVE  /\ Subtrees(s)[0] = [i \in NodesAt(Len(s), 0) |-> Hash(s[i + 1])]
           /\ \A k \in 0 .. Len(s) : k < Len(s) =>
                 Subtrees(s)[k + 1] = Upper(Len(s), Subtrees(s)[k], k + 1)
<1>. DEFINE n == Len(s)
            Lowest == [i \in NodesAt(n, 0) |-> Hash(s[i + 1])]
            UpToLevel(g, m) == g = [k \in 0 .. m |-> IF k = 0 THEN Lowest
                                                     ELSE Upper(n, g[k - 1], k)]
            S == {m \in 0 .. n : \E g : UpToLevel(g, m)}
<1>1. 0 \in S
  <2>1. UpToLevel([k \in 0 .. 0 |-> Lowest], 0)
    OBVIOUS
  <2>. HIDE DEF UpToLevel
  <2>. QED  BY <2>1
<1>2. ASSUME NEW m \in 0 .. n, m \in S, m < n
      PROVE  m + 1 \in S
  <2>1. PICK g : UpToLevel(g, m)
    BY <1>2
  <2>. DEFINE h == [k \in 0 .. m + 1 |-> IF k <= m THEN g[k] ELSE Upper(n, g[m], m + 1)]
  <2>2. UpToLevel(h, m + 1)
    <3>. HIDE DEF Lowest
    <3>1. \A k \in 0 .. m : g[k] = IF k = 0 THEN Lowest ELSE Upper(n, g[k - 1], k)
      BY <2>1
    <3>2. \A k \in 0 .. m + 1 : h[k] = IF k = 0 THEN Lowest ELSE Upper(n, h[k - 1], k)
      BY <1>2, <3>1
    <3>. QED  BY <3>2
  <2>. HIDE DEF UpToLevel, h
  <2>3. m + 1 \in 0 .. n
    BY <1>2
  <2>. QED  BY <2>2, <2>3
<1>. HIDE DEF S
<1>3. n \in S
  <2>1. \A m \in 0 .. n : m \in S /\ m < n => m + 1 \in S
    BY <1>2
  <2>2. \A m \in 0 .. n : m \in S
    BY <1>1, <2>1, UpTo, Zenon
  <2>. QED  BY <2>2
<1>4. \E g : UpToLevel(g, n)
  BY <1>3 DEF S
<1>. DEFINE tree == Subtrees(s)
<1>5. tree = [k \in 0 .. n |-> IF k = 0 THEN Lowest ELSE Upper(n, tree[k - 1], k)]
  <2>. DEFINE Body(g) ==
                [k \in 0 .. n |->
                    [i \in NodesAt(n, k) |->
                       IF k = 0 THEN Hash(s[i + 1])
                       ELSE Combine(g[k - 1][2 * i],
                                    IF (2 * i + 1) * Widths(n)[k - 1] < n
                                    THEN g[k - 1][2 * i + 1] ELSE g[k - 1][2 * i])]]
  <2>1. tree = CHOOSE g : g = Body(g)
    BY DEF Subtrees, NodesAt
  <2>2. \A g : UpToLevel(g, n) <=> g = Body(g)
    BY DEF Upper
  <2>. HIDE DEF Body, tree, UpToLevel
  <2>3. tree = Body(tree)
    BY <1>4, <2>1, <2>2
  <2>4. UpToLevel(tree, n)
    BY <2>2, <2>3
  <2>. QED  BY <2>4 DEF UpToLevel
<1>. HIDE DEF tree, Lowest, UpToLevel
<1>6. ASSUME NEW k \in 0 .. n, k < n
      PROVE  tree[k + 1] = Upper(n, tree[k], k + 1)
  BY <1>5, <1>6
<1>7. tree[0] = Lowest
  BY <1>5
<1>. QED  BY <1>6, <1>7 DEF tree, Lowest

\* Half of the nodes, each over twice the leaves, cover a list as tightly.
LEMMA HalvesCover ==
    ASSUME NEW m \in Nat, NEW w \in Nat, NEW n \in Nat, m >= 1, w >= 1,
           (m - 1) * w < n, n <= m * w
    PROVE  ((m + 1) \div 2 - 1) * (2 * w) < n /\ n <= ((m + 1) \div 2) * (2 * w)
<1>. DEFINE q == (m + 1) \div 2
<1>1. q \in Nat /\ q >= 1 /\ (m = 2 * q \/ m = 2 * q - 1)
  OBVIOUS
<1>. HIDE DEF q
<1>2. q * (2 * w) = (2 * q) * w /\ (q - 1) * (2 * w) = (2 * q - 2) * w
  BY <1>1
<1>3. (2 * q) * w = (2 * q - 1) * w + w /\ (2 * q - 1) * w = (2 * q - 2) * w + w
  BY <1>1
<1>4. (2 * q) * w \in Nat /\ (2 * q - 2) * w \in Nat
  BY <1>1
<1>5. CASE m = 2 * q
  BY <1>2, <1>3, <1>4, <1>5
<1>6. CASE m = 2 * q - 1
  BY <1>2, <1>3, <1>4, <1>6
<1>. QED  BY <1>1, <1>5, <1>6 DEF q

\* Which indices are of nodes that have a leaf.
LEMMA NodesCounted ==
    ASSUME NEW m \in Nat, NEW w \in Nat, NEW n \in Nat, m >= 1, w >= 1,
           (m - 1) * w < n, n <= m * w, NEW i \in Nat
    PROVE  i * w < n <=> i <= m - 1
<1>1. i * w \in Nat /\ m * w \in Nat /\ (m - 1) * w \in Nat
  OBVIOUS
<1>2. CASE i <= m - 1
  <2>1. i * w <= (m - 1) * w
    BY <1>2
  <2>. QED  BY <1>1, <1>2, <2>1
<1>3. CASE i >= m
  <2>1. m * w <= i * w
    BY <1>3
  <2>. QED  BY <1>1, <1>3, <2>1
<1>. QED  BY <1>2, <1>3

\* The levels of the loop are as tight over the leaves as those of the reference.
LEMMA LevelsCover ==
    ASSUME NEW s, Distinct(s), NEW d, LoopTo(s, d)
    PROVE  \A k \in 0 .. d :
             /\ Len(Levels(s)[k]) \in Nat /\ Len(Levels(s)[k]) >= 1
             /\ (Len(Levels(s)[k]) - 1) * Widths(Len(s))[k] < Len(s)
             /\ Len(s) <= Len(Levels(s)[k]) * Widths(Len(s))[k]
<1>. DEFINE n == Len(s)
            L == Levels(s)
            W == Widths(n)
            Covers(k) == /\ (Len(L[k]) - 1) * W[k] < n
                         /\ n <= Len(L[k]) * W[k]
            S == {k \in 0 .. d : Covers(k)}
<1>1. /\ d \in Nat /\ d <= n /\ L[0] = LeafLevel(s)
      /\ \A k \in 0 .. d : Distinct(L[k])
      /\ \A k \in 0 .. d : k < d => L[k + 1] = NextLevel(L[k])
  BY DEF LoopTo
<1>2. n \in Nat /\ n >= 1 /\ IsList(s, n)
  BY DEF Distinct, IsList
<1>3. \A k \in 0 .. d : /\ Len(L[k]) \in Nat /\ Len(L[k]) >= 1
                        /\ IsList(L[k], Len(L[k]))
  BY <1>1 DEF Distinct, IsList
<1>4. /\ W[0] = 1
      /\ \A k \in 0 .. d : W[k] \in Nat /\ W[k] >= 1
      /\ \A k \in 0 .. d : k < d => W[k + 1] = 2 * W[k]
  <2>1. \A k \in 0 .. d : k \in 0 .. n /\ (k < d => k < n)
    BY <1>1, <1>2
  <2>. QED  BY <1>2, <2>1, WidthsUnfold
<1>. HIDE DEF n, L, W
<1>5. Covers(0)
  <2>1. L[0] = [i \in 1 .. n |-> Hash(s[i])]
    BY <1>1, <1>2 DEF LeafLevel, IsList
  <2>2. L[0] = [i \in 1 .. n |-> L[0][i]]
    BY <2>1
  <2>3. Len(L[0]) = n
    BY <1>2, <2>2, ListLen
  <2>. QED  BY <1>2, <1>4, <2>3
<1>6. ASSUME NEW k \in 0 .. d, Covers(k), k < d
      PROVE  Covers(k + 1)
  <2>1. /\ L[k + 1] = NextLevel(L[k]) /\ W[k + 1] = 2 * W[k]
        /\ W[k] \in Nat /\ W[k] >= 1
    BY <1>1, <1>4, <1>6
  <2>2. Len(L[k + 1]) = (Len(L[k]) + 1) \div 2
    <3>1. IsList(NextLevel(L[k]), (Len(L[k]) + 1) \div 2)
      BY <1>3, NextLevelPairs
    <3>. QED  BY <2>1, <3>1, ListLen DEF IsList
  <2>3. PICK m \in Nat : m = Len(L[k]) /\ m >= 1 /\ (m - 1) * W[k] < n /\ n <= m * W[k]
    BY <1>3, <1>6
  <2>. HIDE DEF Covers
  <2>4. /\ ((m + 1) \div 2 - 1) * (2 * W[k]) < n
        /\ n <= ((m + 1) \div 2) * (2 * W[k])
    BY <1>2, <2>1, <2>3, HalvesCover
  <2>. QED  BY <2>1, <2>2, <2>3, <2>4 DEF Covers
<1>7. \A k \in 0 .. d : k \in S
  <2>. HIDE DEF Covers
  <2>1. 0 \in S /\ \A k \in 0 .. d : k \in S /\ k < d => k + 1 \in S
    BY <1>1, <1>5, <1>6
  <2>2. d \in Nat
    BY <1>1
  <2>. HIDE DEF S
  <2>. QED  BY <2>1, <2>2, UpTo, Zenon
<1>8. \A k \in 0 .. d : Covers(k)
  <2>. HIDE DEF Covers
  <2>. QED  BY <1>7
<1>. QED  BY <1>3, <1>8 DEF n, L, W

\* The loop stops at the height of the reference.
LEMMA DepthIsHeight ==
    ASSUME NEW s, Distinct(s), NEW d, LoopTo(s, d)
    PROVE  HeightOf(Len(s)) = d
<1>. DEFINE n == Len(s)
            L == Levels(s)
            W == Widths(n)
<1>1. /\ d \in Nat /\ d <= n /\ Len(L[d]) = 1
      /\ \A k \in 0 .. d : k < d => Len(L[k]) > 1
  BY DEF LoopTo
<1>2. n \in Nat
  BY DEF Distinct, IsList
<1>3. \A k \in 0 .. d : /\ Len(L[k]) \in Nat /\ (Len(L[k]) - 1) * W[k] < n
                        /\ n <= Len(L[k]) * W[k]
  BY LevelsCover
<1>4. \A k \in 0 .. n : W[k] \in Nat
  BY <1>2, WidthsUnfold
<1>. HIDE DEF n, L, W
<1>5. n <= W[d]
  <2>1. d \in 0 .. d /\ d \in 0 .. n
    BY <1>1, <1>2
  <2>2. n <= Len(L[d]) * W[d] /\ W[d] \in Nat
    BY <1>3, <1>4, <2>1
  <2>3. n <= 1 * W[d]
    BY <1>1, <2>2
  <2>. QED  BY <1>2, <2>2, <2>3
<1>6. ASSUME NEW k \in 0 .. d, k < d
      PROVE  W[k] < n
  <2>1. PICK m \in Nat : m = Len(L[k]) /\ (m - 1) * W[k] < n /\ m > 1
    BY <1>1, <1>3, <1>6
  <2>2. W[k] \in Nat
    BY <1>1, <1>2, <1>4
  <2>3. W[k] <= (m - 1) * W[k]
    BY <2>1, <2>2
  <2>. QED  BY <1>2, <2>1, <2>2, <2>3
<1>7. ASSUME NEW h \in 0 .. n, n <= W[h], \A k \in 0 .. h - 1 : W[k] < n
      PROVE  h = d
  <2>1. CASE h < d
    <3>1. W[h] < n /\ W[h] \in Nat
      BY <1>1, <1>4, <1>6, <2>1
    <3>. QED  BY <1>2, <1>7, <3>1
  <2>2. CASE d < h
    <3>1. d \in 0 .. h - 1 /\ d \in 0 .. n
      BY <1>1, <1>2, <2>2
    <3>2. W[d] < n /\ W[d] \in Nat
      BY <1>4, <1>7, <3>1
    <3>. QED  BY <1>2, <1>5, <3>2
  <2>. QED  BY <1>1, <2>1, <2>2
<1>8. d \in 0 .. n /\ \A k \in 0 .. d - 1 : W[k] < n
  BY <1>1, <1>2, <1>6
<1>. QED  BY <1>5, <1>7, <1>8 DEF HeightOf, n, W

\* The loop builds the tree of the reference.
THEOREM RootIsReference ==
    ASSUME NEW s, Distinct(s)
    PROVE  ComputeMerkleRoot(s) = Subtrees(s)[HeightOf(Len(s))][0]
<1>. DEFINE n == Len(s)
            L == Levels(s)
            W == Widths(n)
            T == Subtrees(s)
            d == Depth(L)
<1>1. /\ d \in Nat /\ d <= n /\ L[0] = LeafLevel(s) /\ Len(L[d]) = 1
      /\ \A k \in 0 .. d : Distinct(L[k])
      /\ \A k \in 0 .. d : k < d => L[k + 1] = NextLevel(L[k])
      /\ ComputeMerkleRoot(s) = L[d][1]
      /\ HeightOf(n) = d
  <2>1. LoopTo(s, d) /\ HeightOf(n) = d
    BY LoopStops, DepthIsHeight
  <2>. QED  BY <2>1 DEF LoopTo
<1>2. n \in Nat /\ n >= 1 /\ IsList(s, n)
  BY DEF Distinct, IsList
<1>3. \A k \in 0 .. d : /\ Len(L[k]) \in Nat /\ Len(L[k]) >= 1
                        /\ (Len(L[k]) - 1) * W[k] < n /\ n <= Len(L[k]) * W[k]
  BY LoopStops, LevelsCover
<1>4. \A k \in 0 .. d : k \in 0 .. n /\ W[k] \in Nat /\ W[k] >= 1
  BY <1>1, <1>2, WidthsUnfold
<1>5. /\ T[0] = [i \in NodesAt(n, 0) |-> Hash(s[i + 1])]
      /\ \A k \in 0 .. d : k < d => T[k + 1] = Upper(n, T[k], k + 1)
  BY <1>1, <1>2, <1>4, SubtreesUnfold
<1>. HIDE DEF n, L, W, T, d
<1>6. ASSUME NEW k \in 0 .. d, NEW i \in Nat
      PROVE  /\ i * W[k] < n <=> i <= Len(L[k]) - 1
             /\ i \in NodesAt(n, k) <=> i <= Len(L[k]) - 1
  <2>1. PICK m \in Nat : m = Len(L[k]) /\ m >= 1 /\ (m - 1) * W[k] < n /\ n <= m * W[k]
    BY <1>3
  <2>2. PICK w \in Nat : w = W[k] /\ w >= 1
    BY <1>4
  <2>3. i * w < n <=> i <= m - 1
    BY <1>2, <2>1, <2>2, NodesCounted
  <2>4. i * w < n => i \in 0 .. n - 1
    <3>1. i <= i * w /\ i * w \in Nat
      BY <2>2
    <3>. QED  BY <1>2, <3>1
  <2>. QED  BY <2>1, <2>2, <2>3, <2>4 DEF NodesAt, W
<1>. DEFINE Same(k) == \A i \in 0 .. Len(L[k]) - 1 : T[k][i] = L[k][i + 1]
            S == {k \in 0 .. d : Same(k)}
<1>7. Same(0)
  <2>1. L[0] = [i \in 1 .. n |-> Hash(s[i])]
    BY <1>1, <1>2 DEF LeafLevel, IsList
  <2>2. L[0] = [i \in 1 .. n |-> L[0][i]]
    BY <2>1
  <2>3. Len(L[0]) = n
    BY <1>2, <2>2, ListLen
  <2>4. ASSUME NEW i \in 0 .. n - 1
        PROVE  T[0][i] = L[0][i + 1]
    <3>1. i \in NodesAt(n, 0)
      <4>1. 0 \in 0 .. d /\ i \in Nat /\ i <= n - 1
        BY <1>1, <1>2
      <4>. QED  BY <1>6, <2>3, <4>1
    <3>2. T[0][i] = Hash(s[i + 1]) /\ i + 1 \in 1 .. n
      BY <1>2, <1>5, <3>1
    <3>. QED  BY <2>1, <3>2
  <2>. QED  BY <2>3, <2>4
<1>8. ASSUME NEW k \in 0 .. d, Same(k), k < d
      PROVE  Same(k + 1)
  <2>. DEFINE f == L[k]
              N == L[k + 1]
  <2>1. PICK m \in Nat : m = Len(f) /\ m >= 1
    BY <1>3
  <2>2. k + 1 \in 0 .. d /\ (k + 1) - 1 = k
    BY <1>1, <1>8
  <2>3. /\ N = NextLevel(f) /\ IsList(f, m)
        /\ T[k + 1] = Upper(n, T[k], k + 1)
    BY <1>1, <1>5, <1>8, <2>1 DEF Distinct
  <2>4. /\ IsList(N, (m + 1) \div 2)
        /\ \A i \in 1 .. (m + 1) \div 2 :
              N[i] = Combine(f[2 * i - 1], IF 2 * i <= m THEN f[2 * i] ELSE f[2 * i - 1])
    BY <2>3, NextLevelPairs
  <2>5. Len(N) = (m + 1) \div 2
    BY <2>4, ListLen DEF IsList
  <2>6. \A i \in 0 .. m - 1 : T[k][i] = f[i + 1]
    BY <1>8, <2>1
  <2>7. \A i \in Nat : i * W[k] < n <=> i <= m - 1
    BY <1>6, <2>1
  <2>8. \A i \in 0 .. Len(N) - 1 : i \in NodesAt(n, k + 1)
    <3>1. PICK l \in Nat : l = Len(N)
      <4>1. (m + 1) \div 2 \in Nat
        BY <2>4 DEF IsList
      <4>. QED  BY <2>5, <4>1, Zenon
    <3>2. \A j \in Nat : j \in NodesAt(n, k + 1) <=> j <= Len(L[k + 1]) - 1
      BY <1>6, <2>2
    <3>3. \A i \in 0 .. l - 1 : i \in Nat /\ i <= l - 1
      OBVIOUS
    <3>. QED  BY <3>1, <3>2, <3>3
  <2>. HIDE DEF f, N
  <2>9. ASSUME NEW i \in 0 .. Len(N) - 1
        PROVE  T[k + 1][i] = N[i + 1]
    <3>1. /\ i \in Nat /\ i + 1 \in 1 .. (m + 1) \div 2 /\ 2 * i <= m - 1
          /\ 2 * (i + 1) - 1 = 2 * i + 1 /\ 2 * (i + 1) = (2 * i + 1) + 1
          /\ 2 * i + 1 \in Nat /\ 2 * i \in 0 .. m - 1
      BY <2>1, <2>5
    <3>2. N[i + 1] = Combine(f[2 * i + 1], IF 2 * (i + 1) <= m THEN f[(2 * i + 1) + 1]
                                           ELSE f[2 * i + 1])
      BY <2>4, <3>1
    <3>3. T[k + 1][i] = Combine(T[k][2 * i], IF (2 * i + 1) * W[k] < n
                                            THEN T[k][2 * i + 1] ELSE T[k][2 * i])
      BY <2>2, <2>3, <2>8 DEF Upper, W
    <3>4. (2 * i + 1) * W[k] < n <=> 2 * (i + 1) <= m
      <4>1. (2 * i + 1) * W[k] < n <=> 2 * i + 1 <= m - 1
        BY <2>7, <3>1
      <4>2. 2 * i + 1 <= m - 1 <=> 2 * (i + 1) <= m
        BY <2>1, <3>1
      <4>. QED  BY <4>1, <4>2
    <3>5. T[k][2 * i] = f[2 * i + 1]
      BY <2>6, <3>1
    <3>6. 2 * (i + 1) <= m => T[k][2 * i + 1] = f[(2 * i + 1) + 1]
      BY <2>1, <2>6, <3>1
    <3>. QED  BY <3>2, <3>3, <3>4, <3>5, <3>6
  <2>. QED  BY <2>9 DEF N
<1>9. \A k \in 0 .. d : k \in S
  <2>. HIDE DEF Same
  <2>1. 0 \in S /\ \A k \in 0 .. d : k \in S /\ k < d => k + 1 \in S
    BY <1>1, <1>7, <1>8
  <2>2. d \in Nat
    BY <1>1
  <2>. HIDE DEF S
  <2>. QED  BY <2>1, <2>2, UpTo, Zenon
<1>10. Same(d)
  <2>. HIDE DEF Same
  <2>. QED  BY <1>1, <1>9
<1>11. T[d][0] = L[d][1]
  <2>1. 0 \in 0 .. Len(L[d]) - 1 /\ 0 + 1 = 1
    BY <1>1
  <2>. QED  BY <1>10, <2>1
<1>. QED  BY <1>1, <1>11 DEF n, T

=============================================================================
