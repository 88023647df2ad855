--------------------------- MODULE ListingProofs ---------------------------
(***************************************************************************)
(* What Listing computes: every element of a finite set once, in order.    *)
(***************************************************************************)
EXTENDS Listing, Sequences, SequenceTheorems, FiniteSetTheorems, NaturalsInduction,
        WellFoundedInduction, TLAPS

\* Induction over the naturals, of a set.
LEMMA SetInduction ==
  ASSUME NEW S \in SUBSET Nat, 0 \in S, \A n \in S : n + 1 \in S
  PROVE  S = Nat
<1> DEFINE T == Nat \ S
           Less == {ss \in Nat \X Nat : ss[1] < ss[2]}
<1>1. IsWellFoundedOn(Less, Nat)
  BY NatLessThanWellFounded DEF OpToRel
<1>2. \A x, y \in Nat : <<y, x>> \in Less <=> y < x
  OBVIOUS
<1> HIDE DEF Less
<1>3. SUFFICES ASSUME T # {} PROVE FALSE
  OBVIOUS
<1>4. T \subseteq Nat
  OBVIOUS
<1>5. PICK x \in T : \A y \in T : ~ (<<y, x>> \in Less)
  BY <1>1, <1>3, <1>4, WFMin
<1>6. x \in Nat /\ x # 0 /\ x - 1 \in Nat /\ x - 1 < x
  BY <1>5
<1>7. x - 1 \notin T
  BY <1>2, <1>5, <1>6
<1> QED
  BY <1>5, <1>6, <1>7

\* before describes a strict total order on S.
StrictOrder(before, S) ==
  /\ \A x \in S : before[x] \subseteq S /\ x \notin before[x]
  /\ \A x, y \in S : y \in before[x] => before[y] \subseteq before[x]
  /\ \A x, y \in S : x = y \/ x \in before[y] \/ y \in before[x]

\* An element has more elements before it than any of those has.
LEMMA RankGrows ==
  ASSUME NEW S, IsFiniteSet(S), NEW before, StrictOrder(before, S),
         NEW y \in S, NEW x \in before[y]
  PROVE  Cardinality(before[x]) < Cardinality(before[y])
<1>0. x \in S
  BY DEF StrictOrder
<1>1. IsFiniteSet(before[x]) /\ IsFiniteSet(before[y])
  BY <1>0, FS_Subset DEF StrictOrder
<1>2. x \notin before[x] /\ before[x] \cup {x} \in SUBSET before[y]
  BY <1>0 DEF StrictOrder
<1>3. Cardinality(before[x] \cup {x}) = Cardinality(before[x]) + 1
  BY <1>1, <1>2, FS_AddElement
<1>4. Cardinality(before[x] \cup {x}) <= Cardinality(before[y])
  BY <1>1, <1>2, FS_Subset
<1>5. Cardinality(before[x]) \in Nat /\ Cardinality(before[y]) \in Nat
  BY <1>1, FS_CardinalityType
<1> QED
  BY <1>3, <1>4, <1>5

\* A listing has each element of the set once and respects the order.
LEMMA ListedOrder ==
  ASSUME NEW S, IsFiniteSet(S), NEW before, StrictOrder(before, S)
  PROVE  /\ Cardinality(S) \in Nat
         /\ Listed(S, before) \in Seq(S) /\ Len(Listed(S, before)) = Cardinality(S)
         /\ DOMAIN Listed(S, before) = 1 .. Cardinality(S)
         /\ \A n \in 1 .. Cardinality(S) : Listed(S, before)[n] \in S
         /\ \A x \in S : \E n \in 1 .. Cardinality(S) : Listed(S, before)[n] = x
         /\ \A m, n \in 1 .. Cardinality(S) :
              m < n => Listed(S, before)[m] \in before[Listed(S, before)[n]]
<1> DEFINE c == Cardinality(S)
           rank == [x \in S |-> Cardinality(before[x]) + 1]
           l == Listed(S, before)
<1>1. c \in Nat /\ IsFiniteSet(1 .. c) /\ Cardinality(1 .. c) = c
  BY FS_CardinalityType, FS_Interval
<1>2. \A x \in S : Cardinality(before[x]) \in 0 .. c - 1
  <2> TAKE x \in S
  <2>1. IsFiniteSet(S \ {x}) /\ Cardinality(S \ {x}) = c - 1
    BY FS_RemoveElement
  <2>2. before[x] \in SUBSET (S \ {x})
    BY DEF StrictOrder
  <2> QED
    BY <2>1, <2>2, FS_Subset, FS_CardinalityType, <1>1
<1>3. rank \in [S -> 1 .. c] /\ \A x \in S : rank[x] = Cardinality(before[x]) + 1
  BY <1>1, <1>2
<1>4. \A y \in S : \A x \in before[y] : x \in S /\ rank[x] < rank[y]
  <2> TAKE y \in S
  <2> TAKE x \in before[y]
  <2>1. x \in S
    BY DEF StrictOrder
  <2>2. Cardinality(before[x]) < Cardinality(before[y])
    BY RankGrows
  <2> QED
    BY <1>2, <2>1, <2>2
<1> HIDE DEF rank
<1>5. \A x, y \in S : rank[x] = rank[y] => x = y
  <2> SUFFICES ASSUME NEW x \in S, NEW y \in S, x # y PROVE rank[x] # rank[y]
    OBVIOUS
  <2>1. rank[x] < rank[y] \/ rank[y] < rank[x]
    BY <1>4 DEF StrictOrder
  <2> QED
    BY <1>1, <1>3, <2>1
<1>6. rank \in Injection(S, 1 .. c)
  BY <1>3, <1>5 DEF Injection, IsInjective
<1>7. rank \in Surjection(S, 1 .. c)
  BY <1>1, <1>6, FS_Injection
<1>8. \A n \in 1 .. c : \E x \in S : rank[x] = n
  BY <1>7 DEF Surjection
<1>9. ASSUME NEW n \in 1 .. c
      PROVE  l[n] \in S /\ rank[l[n]] = n
  <2>1. l[n] = CHOOSE x \in S : Cardinality(before[x]) = n - 1
    BY DEF Listed
  <2>2. PICK x \in S : rank[x] = n
    BY <1>8
  <2>3. Cardinality(before[x]) = n - 1
    BY <1>1, <1>2, <1>3, <2>2
  <2>4. l[n] \in S /\ Cardinality(before[l[n]]) = n - 1
    BY <2>1, <2>3
  <2> QED
    BY <2>4, <1>1, <1>3
<1>10. DOMAIN l = 1 .. c /\ l \in [1 .. c -> S]
  BY <1>9 DEF Listed
<1> HIDE DEF l
<1>11. l \in Seq(S) /\ Len(l) = c
  BY <1>1, <1>10, IsASeq, LenProperties
<1>12. \A x \in S : \E n \in 1 .. c : l[n] = x
  BY <1>3, <1>5, <1>9
<1>13. \A m, n \in 1 .. c : m < n => l[m] \in before[l[n]]
  <2> TAKE m, n \in 1 .. c
  <2> HAVE m < n
  <2>1. l[m] \in S /\ l[n] \in S /\ rank[l[m]] = m /\ rank[l[n]] = n
    BY <1>9
  <2>2. ~ (rank[l[n]] < rank[l[m]]) /\ l[m] # l[n]
    BY <1>1, <2>1
  <2> QED
    BY <1>4, <2>1, <2>2 DEF StrictOrder
<1> QED
  BY <1>1, <1>9, <1>10, <1>11, <1>12, <1>13 DEF l

LEMMA AscendingOrder ==
  ASSUME NEW K \in SUBSET Int, IsFiniteSet(K)
  PROVE  /\ Cardinality(K) \in Nat
         /\ Ascending(K) \in Seq(K) /\ Len(Ascending(K)) = Cardinality(K)
         /\ DOMAIN Ascending(K) = 1 .. Cardinality(K)
         /\ \A n \in 1 .. Cardinality(K) : Ascending(K)[n] \in K
         /\ \A x \in K : \E n \in 1 .. Cardinality(K) : Ascending(K)[n] = x
         /\ \A m, n \in 1 .. Cardinality(K) : m < n => Ascending(K)[m] < Ascending(K)[n]
<1> DEFINE before == [k \in K |-> {j \in K : j < k}]
           l == Listed(K, before)
<1>1. \A j, k \in K : j \in before[k] <=> j < k
  OBVIOUS
<1>2. \A k \in K : before[k] \subseteq K /\ k \in Int
  OBVIOUS
<1>3. Ascending(K) = l
  BY DEF Ascending
<1> HIDE DEF before
<1>4. StrictOrder(before, K)
  <2>1. \A x \in K : before[x] \subseteq K /\ x \notin before[x]
    BY <1>1, <1>2
  <2>2. \A x, y \in K : y \in before[x] => before[y] \subseteq before[x]
    <3> SUFFICES ASSUME NEW x \in K, NEW y \in K, y \in before[x], NEW z \in before[y]
                 PROVE  z \in before[x]
      OBVIOUS
    <3>1. z \in K /\ z < y /\ y < x
      BY <1>1, <1>2
    <3> QED
      BY <1>1, <1>2, <3>1
  <2>3. \A x, y \in K : x = y \/ x \in before[y] \/ y \in before[x]
    BY <1>1, <1>2
  <2> QED
    BY <2>1, <2>2, <2>3 DEF StrictOrder
<1>5. /\ Cardinality(K) \in Nat
      /\ l \in Seq(K) /\ Len(l) = Cardinality(K)
      /\ DOMAIN l = 1 .. Cardinality(K)
      /\ \A n \in 1 .. Cardinality(K) : l[n] \in K
      /\ \A x \in K : \E n \in 1 .. Cardinality(K) : l[n] = x
      /\ \A m, n \in 1 .. Cardinality(K) : m < n => l[m] \in before[l[n]]
  BY <1>4, ListedOrder
<1> HIDE DEF l
<1> QED
  BY <1>1, <1>3, <1>5

\* A stable sort: a permutation of the positions, ordered by key and, between
\* equal keys, by position.
LEMMA StableOrderSorts ==
  ASSUME NEW key \in Seq(Int)
  PROVE  /\ Len(key) \in Nat /\ DOMAIN key = 1 .. Len(key)
         /\ \A n \in 1 .. Len(key) : StableOrder(key)[n] \in 1 .. Len(key)
         /\ \A x \in 1 .. Len(key) : \E n \in 1 .. Len(key) : StableOrder(key)[n] = x
         /\ \A m, n \in 1 .. Len(key) : m < n =>
              LET j == StableOrder(key)[m]
                  k == StableOrder(key)[n]
              IN  key[j] < key[k] \/ (key[j] = key[k] /\ j < k)
<1> DEFINE S == DOMAIN key
           before == [k \in S |-> {j \in S : key[j] < key[k] \/ (key[j] = key[k] /\ j < k)}]
           l == Listed(S, before)
<1>1. Len(key) \in Nat /\ S = 1 .. Len(key) /\ \A x \in S : key[x] \in Int
  BY LenProperties
<1>2. IsFiniteSet(S) /\ Cardinality(S) = Len(key) /\ S \subseteq Int
  BY <1>1, FS_Interval
<1>3. \A j, k \in S : j \in before[k] <=> key[j] < key[k] \/ (key[j] = key[k] /\ j < k)
  OBVIOUS
<1>4. \A k \in S : before[k] \subseteq S
  OBVIOUS
<1>5. StableOrder(key) = l
  BY Zenon DEF StableOrder
<1> HIDE DEF S, before
<1>6. StrictOrder(before, S)
  BY <1>1, <1>2, <1>3, <1>4 DEF StrictOrder
<1>7. /\ \A n \in 1 .. Cardinality(S) : l[n] \in S
      /\ \A x \in S : \E n \in 1 .. Cardinality(S) : l[n] = x
      /\ \A m, n \in 1 .. Cardinality(S) : m < n => l[m] \in before[l[n]]
  BY <1>2, <1>6, ListedOrder
<1> HIDE DEF l
<1>8. \A m, n \in 1 .. Len(key) : m < n =>
        key[l[m]] < key[l[n]] \/ (key[l[m]] = key[l[n]] /\ l[m] < l[n])
  BY <1>1, <1>2, <1>3, <1>7
<1> QED
  BY <1>1, <1>2, <1>5, <1>7, <1>8 DEF S

\* The function f on 1 .. n lists numbers of S from the smallest up.
Enumerates(f, n, S) ==
  /\ f \in [1 .. n -> S]
  /\ \A j, k \in 1 .. n : j < k => f[j] < f[k]

\* All of them, if there are no more than n.
LEMMA EnumeratesAll ==
  ASSUME NEW n \in Nat, NEW S \in SUBSET Int, IsFiniteSet(S), Cardinality(S) = n,
         NEW f, Enumerates(f, n, S)
  PROVE  \A x \in S : \E k \in 1 .. n : f[k] = x
<1>1. \A j, k \in 1 .. n : f[j] = f[k] => j = k
  <2> SUFFICES ASSUME NEW j \in 1 .. n, NEW k \in 1 .. n, f[j] = f[k], j # k PROVE FALSE
    OBVIOUS
  <2>1. PICK x \in S : x = f[j] /\ x = f[k]
    BY DEF Enumerates
  <2>2. x \in Int /\ (j < k \/ k < j)
    OBVIOUS
  <2>3. x < x
    BY <2>1, <2>2 DEF Enumerates
  <2> QED
    BY <2>2, <2>3
<1>2. f \in Injection(1 .. n, S)
  BY <1>1 DEF Enumerates, Injection, IsInjective
<1>3. IsFiniteSet(1 .. n) /\ Cardinality(1 .. n) = n
  <2>1. Cardinality(1 .. n) = IF 1 > n THEN 0 ELSE n - 1 + 1
    BY FS_Interval
  <2> QED
    BY <2>1, FS_Interval
<1>4. f \in Surjection(1 .. n, S)
  BY <1>2, <1>3, FS_Injection
<1> QED
  BY <1>4 DEF Surjection

\* There is one such list.
LEMMA OneEnumeration ==
  ASSUME NEW n \in Nat, NEW S \in SUBSET Int, IsFiniteSet(S), Cardinality(S) = n,
         NEW f, Enumerates(f, n, S), NEW g, Enumerates(g, n, S)
  PROVE  f = g
<1> DEFINE T == {m \in Nat : \A k \in 1 .. n : k <= m => f[k] = g[k]}
<1>0. /\ \A k \in 1 .. n : f[k] \in S /\ g[k] \in S
      /\ \A j, k \in 1 .. n : j < k => f[j] < f[k] /\ g[j] < g[k]
      /\ \A x \in S : x \in Int
  BY DEF Enumerates
<1>00. \A x \in S : (\E k \in 1 .. n : f[k] = x) /\ (\E k \in 1 .. n : g[k] = x)
  BY EnumeratesAll
<1>1. 0 \in T
  OBVIOUS
<1>2. ASSUME NEW m \in T
      PROVE  m + 1 \in T
  <2>1. m \in Nat /\ \A k \in 1 .. n : k <= m => f[k] = g[k]
    OBVIOUS
  <2> HIDE DEF T
  <2>2. SUFFICES ASSUME m + 1 \in 1 .. n PROVE f[m + 1] = g[m + 1]
    <3>1. \A k \in 1 .. n : k <= m + 1 => k <= m \/ k = m + 1
      BY <2>1
    <3> QED
      BY <2>1, <3>1 DEF T
  <2>3. PICK q \in 1 .. n : q = m + 1 /\ \A k \in 1 .. n : k < q => k <= m
    BY <2>1, <2>2
  <2>4. PICK x \in S, y \in S : x = f[q] /\ y = g[q] /\ x \in Int /\ y \in Int
    BY <1>0
  <2>5. ~ (x < y)
    <3>1. PICK i \in 1 .. n : g[i] = x
      BY <1>00
    <3>2. i < q => x < x
      BY <1>0, <2>1, <2>3, <2>4, <3>1
    <3>3. q < i => y < x
      BY <1>0, <2>4, <3>1
    <3>4. i = q => x = y
      BY <2>4, <3>1
    <3> QED
      BY <2>4, <3>2, <3>3, <3>4
  <2>6. ~ (y < x)
    <3>1. PICK i \in 1 .. n : f[i] = y
      BY <1>00
    <3>2. i < q => y < y
      BY <1>0, <2>1, <2>3, <2>4, <3>1
    <3>3. q < i => x < y
      BY <1>0, <2>4, <3>1
    <3>4. i = q => x = y
      BY <2>4, <3>1
    <3> QED
      BY <2>4, <3>2, <3>3, <3>4
  <2>7. x = y
    BY <2>4, <2>5, <2>6
  <2> QED
    BY <2>3, <2>4, <2>7
<1>3. T \subseteq Nat
  OBVIOUS
<1> HIDE DEF T
<1>4. n \in T
  BY <1>1, <1>2, <1>3, SetInduction
<1>5. \A k \in 1 .. n : f[k] = g[k]
  BY <1>4 DEF T
<1> QED
  BY <1>5 DEF Enumerates
=============================================================================
