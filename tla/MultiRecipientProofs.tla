------------------------ MODULE MultiRecipientProofs ------------------------
(***************************************************************************)
(* The error of a multi-recipient call, for every list of destinations,    *)
(* every parallelism and every minimum size of a chunk, and however the    *)
(* threads interleave: it is that of a sequential loop.                    *)
(*                                                                         *)
(* The groups are consecutive segments of the list, the chunks consecutive *)
(* segments of the groups.  A thread has found no error in the groups of   *)
(* its chunk before the one it is at; so the first chunk with an error has *)
(* it at the first destination with one.                                   *)
(***************************************************************************)
EXTENDS MultiRecipient, FiniteSetTheorems, WellFoundedInduction, TLAPS

-----------------------------------------------------------------------------
(* Numbers.                                                                *)

(* A set of numbers has a least member.                                    *)
LEMMA LeastNumber ==
    ASSUME NEW S \in SUBSET Nat, S # {}
    PROVE  Min(S) \in S /\ \A y \in S : Min(S) <= y
<1> DEFINE R == OpToRel(<, Nat)
<1>1. IsWellFoundedOn(R, Nat)
  BY Zenon, NatLessThanWellFounded
<1>2. \A i, j \in Nat : << i, j >> \in R <=> i < j
  BY Zenon DEF OpToRel
<1> HIDE DEF R
<1>3. PICK n \in S : \A j \in S : ~(<< j, n >> \in R)
  BY <1>1, WFMin
<1>4. ASSUME NEW y \in S PROVE n <= y
  <2>1. y \in Nat /\ n \in Nat
    BY <1>3
  <2>2. ~(y < n)
    BY <1>2, <1>3, <2>1
  <2> QED
    BY <2>1, <2>2
<1> QED
  BY <1>3, <1>4, Zenon DEF Min

LEMMA LeastIs ==
    ASSUME NEW S \in SUBSET Nat, NEW n \in S, \A y \in S : n <= y
    PROVE  Min(S) = n
<1>1. Min(S) \in S /\ \A y \in S : Min(S) <= y
  BY LeastNumber
<1>2. Min(S) <= n /\ n <= Min(S) /\ n \in Nat /\ Min(S) \in Nat
  BY <1>1
<1> QED
  BY <1>2

(* A bounded set of numbers has a greatest member.                         *)
LEMMA GreatestNumber ==
    ASSUME NEW n \in Nat, NEW S \in SUBSET (0 .. n), S # {}
    PROVE  \E x \in S : \A y \in S : y <= x
<1> DEFINE T == {i \in Nat : i <= n /\ n - i \in S}
<1>1. T \in SUBSET Nat
  OBVIOUS
<1>2. T # {}
  <2>1. PICK x \in S : TRUE
    OBVIOUS
  <2>2. x \in Nat /\ n - x \in Nat /\ n - x <= n /\ n - (n - x) = x
    OBVIOUS
  <2> QED
    BY <2>1, <2>2
<1>3. PICK i \in T : \A j \in T : i <= j
  <2> HIDE DEF T
  <2> QED
    BY <1>1, <1>2, LeastNumber
<1>4. ASSUME NEW y \in S PROVE y <= n - i
  <2>1. n - y \in T
    <3>1. y \in Nat /\ n - y \in Nat /\ n - y <= n /\ n - (n - y) = y
      OBVIOUS
    <3> QED
      BY <3>1
  <2>2. i <= n - y
    BY <1>3, <2>1
  <2> QED
    BY <1>3, <2>2
<1> QED
  BY <1>3, <1>4

(* The members of a set of numbers, by their rank in it.                   *)
ByRank(S) ==
    [k \in 1 .. Cardinality(S) |-> CHOOSE i \in S : Cardinality({j \in S : j <= i}) = k]

InOrder(s, S, K) ==
    /\ K \in Nat /\ s \in [1 .. K -> S]
    /\ \A i \in S : \E k \in 1 .. K : s[k] = i
    /\ \A k, l \in 1 .. K : k < l => s[k] < s[l]

LEMMA Ranked ==
    ASSUME NEW n \in Nat, NEW S \in SUBSET (1 .. n), NEW K, K = Cardinality(S),
           NEW s, s = ByRank(S)
    PROVE  InOrder(s, S, K)
<1> DEFINE upto(i) == {j \in S : j <= i}
           rank == [i \in S |-> Cardinality(upto(i))]
<1>1. IsFiniteSet(S) /\ K \in Nat
  <2>1. IsFiniteSet(1 .. n)
    BY FS_Interval
  <2> QED
    BY <2>1, FS_Subset, FS_CardinalityType
<1>2. ASSUME NEW i \in S
      PROVE  IsFiniteSet(upto(i)) /\ Cardinality(upto(i)) \in 1 .. K
  <2>1. upto(i) \in SUBSET S /\ i \in upto(i)
    OBVIOUS
  <2> HIDE DEF upto
  <2>2. IsFiniteSet(upto(i)) /\ Cardinality(upto(i)) <= K /\ Cardinality(upto(i)) \in Nat
    BY <1>1, <2>1, FS_Subset, FS_CardinalityType
  <2>3. Cardinality(upto(i)) # 0
    BY <2>1, <2>2, FS_EmptySet
  <2> QED
    BY <1>1, <2>2, <2>3
<1>3. ASSUME NEW i \in S, NEW k \in S, i < k
      PROVE  Cardinality(upto(i)) < Cardinality(upto(k))
  <2>1. upto(i) \in SUBSET upto(k) /\ k \in upto(k) /\ k \notin upto(i)
    <3>1. \A j \in S : j \in Nat
      OBVIOUS
    <3>2. \A j \in S : j <= i => j <= k
      BY <1>3, <3>1
    <3>3. k <= k /\ ~(k <= i)
      BY <1>3, <3>1
    <3> QED
      BY <3>2, <3>3
  <2> HIDE DEF upto
  <2>2. Cardinality(upto(i)) <= Cardinality(upto(k))
        /\ Cardinality(upto(i)) # Cardinality(upto(k))
    BY <1>2, <2>1, FS_Subset
  <2> QED
    BY <1>2, <2>2
<1> HIDE DEF upto
<1>4. \A i \in S, k \in S : rank[i] = rank[k] => i = k
  <2> SUFFICES ASSUME NEW i \in S, NEW k \in S, rank[i] = rank[k], i # k PROVE FALSE
    OBVIOUS
  <2>1. Cardinality(upto(i)) = Cardinality(upto(k)) /\ Cardinality(upto(i)) \in Nat
    BY <1>2
  <2>2. i < k \/ k < i
    OBVIOUS
  <2> QED
    BY <1>3, <2>1, <2>2
<1>5. rank \in [S -> 1 .. K]
  BY <1>2
<1>6. rank \in Surjection(S, 1 .. K)
  <2>1. rank \in Injection(S, 1 .. K)
    BY <1>4, <1>5 DEF Injection, IsInjective
  <2>2. IsFiniteSet(1 .. K) /\ Cardinality(1 .. K) = K
    BY <1>1, FS_Interval
  <2> HIDE DEF rank
  <2> QED
    BY <2>1, <2>2, FS_Injection
<1>7. ASSUME NEW k \in 1 .. K PROVE s[k] \in S /\ Cardinality(upto(s[k])) = k
  <2>1. \E i \in S : rank[i] = k
    BY <1>6 DEF Surjection
  <2>2. \E i \in S : Cardinality({j \in S : j <= i}) = k
    BY <2>1 DEF upto
  <2>3. s[k] = CHOOSE i \in S : Cardinality({j \in S : j <= i}) = k
    BY DEF ByRank
  <2>4. s[k] \in S /\ Cardinality({j \in S : j <= s[k]}) = k
    BY Zenon, <2>2, <2>3
  <2> QED
    BY <2>4 DEF upto
<1>8. s \in [1 .. K -> S]
  BY <1>7 DEF ByRank
<1>9. ASSUME NEW i \in S PROVE \E k \in 1 .. K : s[k] = i
  <2>1. rank[i] \in 1 .. K /\ rank[i] = Cardinality(upto(i))
    BY <1>5
  <2>2. s[rank[i]] \in S /\ Cardinality(upto(s[rank[i]])) = rank[i]
    BY <1>7, <2>1
  <2>3. rank[s[rank[i]]] = rank[i]
    BY <2>2
  <2>4. s[rank[i]] = i
    BY <1>4, <2>2, <2>3
  <2> QED
    BY <2>1, <2>4
<1>10. ASSUME NEW k \in 1 .. K, NEW l \in 1 .. K, k < l PROVE s[k] < s[l]
  <2>1. PICK a \in S, b \in S : /\ a = s[k] /\ b = s[l]
                                /\ Cardinality(upto(a)) = k /\ Cardinality(upto(b)) = l
    BY <1>7
  <2>2. a \in Nat /\ b \in Nat
    OBVIOUS
  <2>3. k \in Nat /\ l \in Nat /\ ~(l < k) /\ l # k
    BY <1>10
  <2>4. ~(b < a) /\ a # b
    BY <1>3, <2>1, <2>3
  <2>5. a < b
    BY <2>2, <2>4
  <2> QED
    BY <2>1, <2>5
<1> QED
  BY <1>1, <1>8, <1>9, <1>10 DEF InOrder
-----------------------------------------------------------------------------
(* The groups.                                                             *)

StartSet(ds) == {i \in DOMAIN ds : i = 1 \/ name(ds[i]) # name(ds[i - 1])}

GroupEnd(ds, starts, k) ==
    IF k = Len(starts) THEN Len(ds) ELSE starts[k + 1] - 1

LEMMA GroupStartsAre ==
    ASSUME NEW V, NEW ds \in Seq(V), NEW starts, starts = GroupStarts(ds)
    PROVE  /\ Len(starts) \in Nat /\ DOMAIN starts = 1 .. Len(starts)
           /\ \A k \in 1 .. Len(starts) : starts[k] \in StartSet(ds)
           /\ \A i \in StartSet(ds) : \E k \in 1 .. Len(starts) : starts[k] = i
           /\ \A k, l \in 1 .. Len(starts) : k < l => starts[k] < starts[l]
<1>1. PICK n, S, K : /\ n = Len(ds) /\ n \in Nat
                     /\ S = StartSet(ds) /\ K = Cardinality(S)
  OBVIOUS
<1>2. S \in SUBSET (1 .. n)
  BY <1>1 DEF StartSet
<1>3. starts = ByRank(S)
  <2>1. GroupStarts(ds) = ByRank(StartSet(ds))
    BY Zenon DEF GroupStarts, StartSet, ByRank
  <2> QED
    BY <1>1, <2>1
<1>4. /\ K \in Nat /\ starts \in [1 .. K -> S]
      /\ \A i \in S : \E k \in 1 .. K : starts[k] = i
      /\ \A k, l \in 1 .. K : k < l => starts[k] < starts[l]
  <2>1. InOrder(starts, S, K)
    BY <1>1, <1>2, <1>3, Ranked
  <2> QED
    BY <2>1 DEF InOrder
<1>5. Len(starts) = K /\ DOMAIN starts = 1 .. K
  BY <1>4
<1> QED
  BY <1>1, <1>4, <1>5

(* Each destination is in a group.                                         *)
LEMMA InAGroup ==
    ASSUME NEW V, NEW ds \in Seq(V), NEW starts, starts = GroupStarts(ds),
           NEW i \in 1 .. Len(ds)
    PROVE  \E k \in 1 .. Len(starts) : starts[k] <= i /\ i <= GroupEnd(ds, starts, k)
<1>1. PICK K \in Nat : K = Len(starts)
  BY GroupStartsAre
<1>2. \A k \in 1 .. K : starts[k] \in Nat
  BY <1>1, GroupStartsAre DEF StartSet
<1>3. PICK k \in 1 .. K : starts[k] = 1
  <2>1. 1 \in StartSet(ds)
    BY DEF StartSet
  <2> QED
    BY <1>1, <2>1, GroupStartsAre
<1> DEFINE S == {l \in 1 .. K : starts[l] <= i}
<1>4. S \in SUBSET (0 .. K) /\ S # {}
  BY <1>3
<1>5. PICK l \in S : \A m \in S : m <= l
  <2> HIDE DEF S
  <2> QED
    BY <1>4, GreatestNumber
<1>6. CASE l = K
  BY <1>1, <1>5, <1>6 DEF GroupEnd
<1>7. CASE l # K
  <2>1. l + 1 \in 1 .. K /\ l + 1 \notin S
    BY <1>5, <1>7
  <2>2. i < starts[l + 1] /\ starts[l + 1] \in Nat
    BY <1>2, <2>1
  <2>3. i <= starts[l + 1] - 1
    BY <2>2
  <2>4. GroupEnd(ds, starts, l) = starts[l + 1] - 1
    BY <1>1, <1>7 DEF GroupEnd
  <2> QED
    BY <1>1, <1>5, <2>3, <2>4
<1> QED
  BY <1>6, <1>7

(* A group ends before the next ones, and in the list.                     *)
LEMMA GroupsInOrder ==
    ASSUME NEW V, NEW ds \in Seq(V), NEW starts, starts = GroupStarts(ds),
           NEW k \in 1 .. Len(starts)
    PROVE  /\ starts[k] \in Nat \ {0} /\ GroupEnd(ds, starts, k) \in Nat
           /\ starts[k] <= GroupEnd(ds, starts, k)
           /\ GroupEnd(ds, starts, k) <= Len(ds)
           /\ \A l \in 1 .. Len(starts) : k < l => GroupEnd(ds, starts, k) < starts[l]
<1>1. PICK K \in Nat, n \in Nat : K = Len(starts) /\ n = Len(ds)
  BY GroupStartsAre
<1>2. \A m \in 1 .. K : starts[m] \in Nat /\ starts[m] # 0 /\ starts[m] <= n
  BY <1>1, GroupStartsAre DEF StartSet
<1>3. \A m, l \in 1 .. K : m < l => starts[m] < starts[l]
  BY <1>1, GroupStartsAre
<1>4. CASE k = K
  BY <1>1, <1>2, <1>4 DEF GroupEnd
<1>5. CASE k # K
  <2>1. k + 1 \in 1 .. K /\ k < k + 1
    BY <1>1, <1>5
  <2>2. GroupEnd(ds, starts, k) = starts[k + 1] - 1
    BY <1>1, <1>5 DEF GroupEnd
  <2>3. starts[k] < starts[k + 1] /\ starts[k + 1] \in Nat /\ starts[k] \in Nat
    BY <1>1, <1>2, <1>3, <2>1
  <2>4. ASSUME NEW l \in 1 .. K, k < l PROVE starts[k + 1] <= starts[l]
    <3>1. l = k + 1 \/ k + 1 < l
      BY <1>1, <2>4
    <3> QED
      BY <1>2, <1>3, <2>1, <3>1
  <2>5. \A l \in 1 .. K : k < l => starts[k + 1] - 1 < starts[l]
    BY <1>2, <2>3, <2>4
  <2> QED
    BY <1>1, <1>2, <2>1, <2>2, <2>3, <2>5
<1> QED
  BY <1>4, <1>5

(* Where the m-th destination of a group that starts at lo is.             *)
LEMMA Offset ==
    ASSUME NEW lo \in Nat, NEW m \in Nat, NEW i \in Nat, NEW j \in Nat,
           i = lo + m - 1, j <= i - 1
    PROVE  j - lo + 1 < m
OBVIOUS

(* What FirstError finds in a group.                                       *)
LEMMA GroupError ==
    ASSUME NEW V, NEW ds \in Seq(V), NEW starts, starts = GroupStarts(ds),
           NEW k \in 1 .. Len(starts), NEW lo, NEW hi,
           lo = starts[k], hi = GroupEnd(ds, starts, k),
           NEW e, e = FirstError(GroupOf(ds, starts, k).destinations)
    PROVE  /\ e = None => \A i \in lo .. hi : DestinationError(ds[i]) = None
           /\ e # None => \E i \in lo .. hi :
                 /\ DestinationError(ds[i]) # None
                 /\ e = DestinationError(ds[i])
                 /\ \A j \in lo .. i - 1 : DestinationError(ds[j]) = None
<1>1. PICK seg : seg = SubSeq(ds, lo, hi)
  OBVIOUS
<1>2. lo \in Nat \ {0} /\ hi \in Nat /\ lo <= hi /\ hi <= Len(ds)
  BY GroupsInOrder
<1>3. e = FirstError(seg)
  <2>1. GroupOf(ds, starts, k).destinations = seg
    BY <1>1 DEF GroupOf, GroupEnd
  <2> QED
    BY <2>1
<1>4. /\ seg \in Seq(V) /\ Len(seg) = hi - lo + 1 /\ DOMAIN seg = 1 .. hi - lo + 1
      /\ \A m \in 1 .. hi - lo + 1 : seg[m] = ds[lo + m - 1]
  BY <1>1, <1>2
<1>5. PICK bad : bad = {m \in DOMAIN seg : DestinationError(seg[m]) # None}
  OBVIOUS
<1>6. e = IF bad = {} THEN None ELSE DestinationError(seg[Min(bad)])
  BY Zenon, <1>3, <1>5 DEF FirstError
<1>7. \A i \in lo .. hi : /\ i - lo + 1 \in DOMAIN seg
                          /\ seg[i - lo + 1] = ds[i]
  <2>1. ASSUME NEW i \in lo .. hi
        PROVE  i - lo + 1 \in 1 .. hi - lo + 1 /\ lo + (i - lo + 1) - 1 = i
    BY <1>2
  <2> QED
    BY <1>4, <2>1
<1>8. CASE bad = {}
  <2>1. ASSUME NEW i \in lo .. hi PROVE DestinationError(ds[i]) = None
    BY <1>5, <1>7, <1>8
  <2> QED
    BY <1>6, <1>8, <2>1
<1>9. CASE bad # {}
  <2>1. bad \in SUBSET Nat
    BY <1>4, <1>5
  <2>2. PICK m \in bad : m = Min(bad) /\ \A y \in bad : m <= y
    BY <1>9, <2>1, LeastNumber
  <2>3. m \in 1 .. hi - lo + 1 /\ DestinationError(seg[m]) # None
    BY <1>4, <1>5
  <2>4. PICK i \in lo .. hi : i = lo + m - 1
    BY <1>2, <2>3
  <2>5. seg[m] = ds[i]
    BY <1>4, <2>3, <2>4
  <2>6. ASSUME NEW j \in lo .. i - 1 PROVE DestinationError(ds[j]) = None
    <3>1. j \in lo .. hi /\ j - lo + 1 \in Nat /\ j - lo + 1 < m
      <4>1. i \in Nat /\ j \in Nat /\ lo <= j /\ j <= i - 1 /\ i <= hi /\ m \in Nat
        BY <1>2, <2>3
      <4>2. lo \in Nat /\ hi \in Nat
        BY <1>2
      <4>3. j \in lo .. hi
        BY <4>1, <4>2
      <4>4. j - lo + 1 \in Nat
        BY <4>1, <4>2
      <4>5. i = lo + m - 1
        BY Zenon, <2>4
      <4>6. j - lo + 1 < m
        BY Zenon, <4>1, <4>2, <4>5, Offset
      <4> QED
        BY <4>3, <4>4, <4>6
    <3>2. j - lo + 1 \notin bad
      BY <2>1, <2>2, <3>1
    <3> QED
      BY <1>5, <1>7, <3>1, <3>2
  <2>7. e = DestinationError(ds[i]) /\ DestinationError(ds[i]) # None
    BY <1>6, <1>9, <2>2, <2>3, <2>5
  <2> QED
    BY <2>6, <2>7
<1> QED
  BY <1>8, <1>9

(* No destination of a group in which FirstError finds nothing is wrong.   *)
LEMMA SoundGroup ==
    ASSUME NEW V, NEW ds \in Seq(V), NEW starts, starts = GroupStarts(ds),
           NEW k \in 1 .. Len(starts),
           FirstError(GroupOf(ds, starts, k).destinations) = None
    PROVE  \A i \in starts[k] .. GroupEnd(ds, starts, k) : DestinationError(ds[i]) = None
<1>1. PICK lo, hi, e : /\ lo = starts[k] /\ hi = GroupEnd(ds, starts, k)
                       /\ e = FirstError(GroupOf(ds, starts, k).destinations)
  OBVIOUS
<1>2. e = None => \A i \in lo .. hi : DestinationError(ds[i]) = None
  BY <1>1, GroupError
<1> QED
  BY Zenon, <1>1, <1>2
-----------------------------------------------------------------------------
(* The chunks.                                                             *)

LEMMA DivisionOf ==
    ASSUME NEW t \in Nat, NEW c \in Nat \ {0}
    PROVE  /\ t \div c \in Nat /\ t % c \in Nat
           /\ t % c < c /\ t = (t \div c) * c + (t % c)
OBVIOUS

LEMMA DivCeilIs ==
    ASSUME NEW a \in Nat, NEW b \in Nat \ {0}
    PROVE  DivCeil(a, b) \in Nat /\ a <= DivCeil(a, b) * b
           /\ (DivCeil(a, b) - 1) * b < a + b /\ DivCeil(a, b) * b <= a + b - 1
<1> DEFINE t == a + b - 1
<1>1. t \in Nat
  OBVIOUS
<1>2. PICK k \in Nat, r \in Nat : k = t \div b /\ r = t % b /\ r < b /\ t = k * b + r
  BY <1>1, DivisionOf
<1>3. DivCeil(a, b) = k
  BY <1>2 DEF DivCeil
<1>4. k * b \in Nat /\ (k - 1) * b = k * b - b
  BY <1>2
<1> QED
  BY <1>2, <1>3, <1>4

(* The chunks are consecutive, have no group in common and have them all.  *)
Partition(cs, n) ==
    /\ Len(cs) \in Nat /\ DOMAIN cs = 1 .. Len(cs)
    /\ \A c \in 1 .. Len(cs) : /\ cs[c][1] \in Nat \ {0} /\ cs[c][2] \in 0 .. n
                               /\ cs[c][1] <= cs[c][2] + 1
    /\ \A k \in 1 .. n : \E c \in 1 .. Len(cs) : cs[c][1] <= k /\ k <= cs[c][2]
    /\ \A c, d \in 1 .. Len(cs) : c < d => cs[c][2] < cs[d][1]

LEMMA ChunksPartition ==
    ASSUME NEW n \in Nat, NEW p \in Nat \ {0}
    PROVE  Partition(Chunks(n, p), n)
<1>1. PICK q, size : q = DivCeil(n, p) /\ size = IF q > MIN_CHUNK THEN q ELSE MIN_CHUNK
  OBVIOUS
<1>2. size \in Nat \ {0}
  BY <1>1, DivCeilIs, MultiAssumption
<1>3. Chunks(n, p) = IF p = 1 \/ size >= n THEN << << 1, n >> >>
                     ELSE [c \in 1 .. DivCeil(n, size) |->
                             << (c - 1) * size + 1, IF c * size < n THEN c * size ELSE n >>]
  BY Zenon, <1>1 DEF Chunks
<1>4. CASE p = 1 \/ size >= n
  <2>1. Chunks(n, p) = << << 1, n >> >>
    BY <1>3, <1>4
  <2> QED
    BY <2>1 DEF Partition
<1>5. CASE ~(p = 1 \/ size >= n)
  <2>1. PICK C \in Nat : C = DivCeil(n, size)
    BY <1>2, DivCeilIs
  <2>2. n <= C * size /\ C * size <= n + size - 1
    BY <1>2, <2>1, DivCeilIs
  <2>3. PICK cs : cs = Chunks(n, p)
    OBVIOUS
  <2>4. cs = [c \in 1 .. C |->
                << (c - 1) * size + 1, IF c * size < n THEN c * size ELSE n >>]
    BY Zenon, <1>3, <1>5, <2>1, <2>3
  <2>5. Len(cs) = C /\ DOMAIN cs = 1 .. C
    BY <2>4
  <2>6. \A c \in 1 .. C : /\ cs[c][1] = (c - 1) * size + 1
                          /\ cs[c][2] = IF c * size < n THEN c * size ELSE n
    BY <2>4
  <2>7. \A c, d \in Nat : c <= d => c * size <= d * size /\ c * size \in Nat
    BY <1>2
  <2>8. ASSUME NEW c \in 1 .. C
        PROVE  /\ cs[c][1] \in Nat \ {0} /\ cs[c][2] \in 0 .. n
               /\ cs[c][1] <= cs[c][2] + 1
    <3>1. PICK x, y : x = (c - 1) * size /\ y = c * size
      OBVIOUS
    <3>2. x \in Nat /\ y \in Nat /\ y = x + size
      BY <1>2, <3>1
    <3>3. y <= C * size
      BY <2>7, <3>1
    <3>4. cs[c][1] = x + 1 /\ cs[c][2] = IF y < n THEN y ELSE n
      BY <2>6, <3>1
    <3>5. PICK z \in Nat : z = C * size
      BY <1>2
    <3>6. x < n
      BY <1>2, <2>2, <3>2, <3>3, <3>5
    <3> QED
      BY <1>2, <3>2, <3>4, <3>6
  <2>9. ASSUME NEW k \in 1 .. n
        PROVE  \E c \in 1 .. C : cs[c][1] <= k /\ k <= cs[c][2]
    <3>1. k - 1 \in Nat
      OBVIOUS
    <3>2. PICK j \in Nat, r \in Nat : r < size /\ k - 1 = j * size + r
      BY <1>2, <3>1, DivisionOf
    <3>3. j + 1 \in 1 .. C
      <4> SUFFICES ASSUME C <= j PROVE FALSE
        BY <3>2
      <4>1. C * size <= j * size
        BY <2>7
      <4>2. j * size \in Nat /\ C * size \in Nat
        BY <1>2
      <4> QED
        BY <2>2, <3>2, <4>1, <4>2
    <3>4. /\ cs[j + 1][1] = j * size + 1
          /\ cs[j + 1][2] = IF j * size + size < n THEN j * size + size ELSE n
      <4>1. (j + 1) - 1 = j /\ (j + 1) * size = j * size + size
        BY <1>2
      <4> QED
        BY <2>6, <3>3, <4>1
    <3>5. PICK x \in Nat : x = j * size
      BY <1>2
    <3>6. cs[j + 1][1] <= k /\ k <= cs[j + 1][2]
      BY <1>2, <3>2, <3>4, <3>5
    <3> QED
      BY <3>3, <3>6
  <2>10. ASSUME NEW c \in 1 .. C, NEW d \in 1 .. C, c < d
         PROVE  cs[c][2] < cs[d][1]
    <3>1. c \in Nat /\ d - 1 \in Nat /\ c <= d - 1
      BY <2>10
    <3>2. PICK x \in Nat, y \in Nat : x = c * size /\ y = (d - 1) * size /\ x <= y
      BY <1>2, <2>7, <3>1
    <3>3. cs[c][2] <= x /\ cs[d][1] = y + 1
      BY <2>6, <3>2
    <3>4. cs[c][2] \in Nat
      BY <2>8
    <3> QED
      BY <3>2, <3>3, <3>4
  <2> QED
    BY <2>3, <2>5, <2>8, <2>9, <2>10 DEF Partition
<1> QED
  BY <1>4, <1>5
-----------------------------------------------------------------------------
(* The inductive invariant.                                                *)

(* A task as the thread of chunk ch, which is at group t.next, leaves it.  *)
TaskOf(t, ch) ==
    /\ t = [next |-> t.next, last |-> t.last, serialized |-> t.serialized, error |-> t.error]
    /\ t.last = ch[2]
    /\ t.next \in ch[1] .. t.last + 1
    /\ \A k \in ch[1] .. t.next - 1 : FirstError(groups[k].destinations) = None
    /\ t.error # None => /\ t.next <= t.last
                         /\ t.error = FirstError(groups[t.next].destinations)

CallOk ==
    /\ call.destinations \in Seq(Address)
    /\ call.parallelism \in Nat \ {0}

Working ==
    LET starts == GroupStarts(call.destinations)
        chunks == Chunks(Len(starts), call.parallelism)
    IN  /\ call.sessions_len # "other"
        /\ \A k \in DOMAIN starts : call.pins[call.destinations[starts[k]]] # None
        /\ groups = [k \in DOMAIN starts |-> GroupOf(call.destinations, starts, k)]
        /\ task = [c \in DOMAIN chunks |-> task[c]]
        /\ \A c \in DOMAIN chunks : TaskOf(task[c], chunks[c])

FanOut == CallOk /\ (pc = "spawned" => Working) /\ SameErrorAsSequential
-----------------------------------------------------------------------------
(* The steps.                                                              *)

LEMMA FanOutInit == Init => FanOut
<1> SUFFICES ASSUME Init PROVE FanOut
  OBVIOUS
<1>1. pc = "called"
  BY Zenon DEF Init
<1>2. CallOk
  <2>1. PICK destinations \in SeqOf(Address, MaxDestinations), parallelism \in Parallelism :
           call.destinations = destinations /\ call.parallelism = parallelism
    <3>1. PICK pins, sessions, cert_key, sessions_len :
             \E destinations \in SeqOf(Address, MaxDestinations),
                excluded \in SeqOf(Name \ NotServiceId, MaxExcluded),
                parallelism \in Parallelism :
                call = [destinations |-> destinations, excluded |-> excluded,
                        sessions_len |-> sessions_len, pins |-> pins, sessions |-> sessions,
                        cert_key |-> cert_key, parallelism |-> parallelism]
      BY Zenon DEF Init
    <3> QED
      BY <3>1
  <2>2. destinations \in Seq(Address)
    BY MultiAssumption DEF SeqOf
  <2> QED
    BY <2>1, <2>2, MultiAssumption DEF CallOk
<1> QED
  BY <1>1, <1>2 DEF FanOut, SameErrorAsSequential

(* The sequential loop, once the lookups have succeeded.                   *)
LEMMA SequentialIs ==
    ASSUME CallOk, Working, NEW ds, ds = call.destinations
    PROVE  /\ (\A i \in 1 .. Len(ds) : DestinationError(ds[i]) = None)
                => SequentialError = None
           /\ \A i \in 1 .. Len(ds) :
                 (/\ DestinationError(ds[i]) # None
                  /\ \A j \in 1 .. i - 1 : DestinationError(ds[j]) = None)
                 => SequentialError = DestinationError(ds[i])
<1>1. ds \in Seq(Address) /\ DOMAIN ds = 1 .. Len(ds) /\ Len(ds) \in Nat
  BY DEF CallOk
<1>2. PICK unknown, bad :
         /\ unknown = {i \in DOMAIN ds : /\ call.pins[ds[i]] = None
                                         /\ i = 1 \/ name(ds[i - 1]) # name(ds[i])}
         /\ bad = {i \in DOMAIN ds : DestinationError(ds[i]) # None}
  OBVIOUS
<1>3. unknown = {}
  <2> SUFFICES ASSUME NEW i \in unknown PROVE FALSE
    OBVIOUS
  <2>1. i \in StartSet(ds) /\ call.pins[ds[i]] = None
    BY <1>2 DEF StartSet
  <2>2. PICK starts : starts = GroupStarts(ds)
    OBVIOUS
  <2>3. PICK k \in 1 .. Len(starts) : starts[k] = i
    BY <1>1, <2>1, <2>2, GroupStartsAre
  <2>4. k \in DOMAIN starts
    BY <1>1, <2>2, GroupStartsAre
  <2>5. call.pins[ds[starts[k]]] # None
    BY <2>2, <2>4 DEF Working
  <2> QED
    BY <2>1, <2>3, <2>5
<1>4. SequentialError = IF bad = {} THEN None ELSE DestinationError(ds[Min(bad)])
  <2>1. call.sessions_len # "other"
    BY DEF Working
  <2>2. SequentialError =
          IF call.sessions_len = "other" THEN << "InvalidArgument" >>
          ELSE IF unknown # {} THEN << "SessionNotFound", ds[Min(unknown)] >>
          ELSE IF bad # {} THEN DestinationError(ds[Min(bad)])
          ELSE None
    BY Zenon, <1>2 DEF SequentialError
  <2> QED
    BY <1>3, <2>1, <2>2
<1>5. ASSUME \A i \in 1 .. Len(ds) : DestinationError(ds[i]) = None
      PROVE  SequentialError = None
  <2>1. bad = {}
    BY <1>1, <1>2, <1>5
  <2> QED
    BY <1>4, <2>1
<1>6. ASSUME NEW i \in 1 .. Len(ds), DestinationError(ds[i]) # None,
             \A j \in 1 .. i - 1 : DestinationError(ds[j]) = None
      PROVE  SequentialError = DestinationError(ds[i])
  <2>1. bad \in SUBSET Nat /\ i \in bad
    BY <1>1, <1>2, <1>6
  <2>2. ASSUME NEW y \in bad PROVE i <= y
    <3>1. y \in 1 .. Len(ds) /\ DestinationError(ds[y]) # None
      BY <1>1, <1>2
    <3>2. y \notin 1 .. i - 1
      BY <1>6, <3>1
    <3>3. y \in Nat /\ y >= 1 /\ i \in Nat
      BY <1>1, <3>1
    <3> QED
      BY <3>2, <3>3
  <2>3. Min(bad) = i
    BY <2>1, <2>2, LeastIs
  <2> QED
    BY <1>4, <2>1, <2>3
<1> QED
  BY <1>5, <1>6

(* When every task has ended, what the loop over the outputs returns is    *)
(* what the sequential loop returns.                                       *)
LEMMA JoinIsSequential ==
    ASSUME CallOk, Working, \A c \in DOMAIN task : TaskEnded(task[c])
    PROVE  JoinError = SequentialError
<1>1. PICK ds, starts, chunks : /\ ds = call.destinations
                                /\ starts = GroupStarts(ds)
                                /\ chunks = Chunks(Len(starts), call.parallelism)
  OBVIOUS
<1>2. PICK K, C : K = Len(starts) /\ C = Len(chunks)
  OBVIOUS
<1>3. ds \in Seq(Address)
  BY <1>1 DEF CallOk
<1>4. K \in Nat /\ DOMAIN starts = 1 .. K
  BY <1>1, <1>2, <1>3, GroupStartsAre
<1>5. Partition(chunks, K)
  BY <1>1, <1>2, <1>4, ChunksPartition DEF CallOk
<1>6. /\ C \in Nat /\ DOMAIN chunks = 1 .. C
      /\ \A c \in 1 .. C : /\ chunks[c][1] \in Nat \ {0} /\ chunks[c][2] \in 0 .. K
                           /\ chunks[c][1] <= chunks[c][2] + 1
      /\ \A k \in 1 .. K : \E c \in 1 .. C : chunks[c][1] <= k /\ k <= chunks[c][2]
      /\ \A c, d \in 1 .. C : c < d => chunks[c][2] < chunks[d][1]
  BY <1>2, <1>5 DEF Partition
<1>7. /\ groups = [k \in 1 .. K |-> GroupOf(ds, starts, k)]
      /\ DOMAIN task = 1 .. C
      /\ \A c \in 1 .. C : TaskOf(task[c], chunks[c])
  BY <1>1, <1>4, <1>6 DEF Working
<1> DEFINE err(k) == FirstError(groups[k].destinations)
<1>8. \A k \in 1 .. K : err(k) = FirstError(GroupOf(ds, starts, k).destinations)
  BY <1>7
<1>9. \A c \in 1 .. C :
         /\ task[c].last = chunks[c][2]
         /\ task[c].next \in chunks[c][1] .. task[c].last + 1
         /\ \A k \in chunks[c][1] .. task[c].next - 1 : err(k) = None
         /\ task[c].error # None => task[c].next <= task[c].last
                                    /\ task[c].error = err(task[c].next)
  BY <1>7 DEF TaskOf
<1> HIDE DEF err
<1>10. \A c \in 1 .. C : task[c].error = None => task[c].next > task[c].last
  BY <1>7 DEF TaskEnded
<1>11. ASSUME NEW c \in 1 .. C, NEW k \in 1 .. K, task[c].error = None,
              chunks[c][1] <= k, k <= chunks[c][2]
       PROVE  err(k) = None
  <2>1. task[c].next > task[c].last /\ task[c].last = chunks[c][2]
        /\ task[c].next \in chunks[c][1] .. task[c].last + 1
    BY <1>9, <1>10, <1>11
  <2>2. k \in chunks[c][1] .. task[c].next - 1
    BY <1>4, <1>6, <1>11, <2>1
  <2> QED
    BY <1>9, <2>2
<1>12. PICK bad : bad = {c \in DOMAIN task : task[c].error # None}
  OBVIOUS
<1>13. JoinError = IF bad = {} THEN None ELSE task[Min(bad)].error
  BY Zenon, <1>12 DEF JoinError
<1>14. CASE bad = {}
  <2>1. ASSUME NEW i \in 1 .. Len(ds) PROVE DestinationError(ds[i]) = None
    <3>1. PICK k \in 1 .. K : starts[k] <= i /\ i <= GroupEnd(ds, starts, k)
      BY <1>1, <1>2, <1>3, InAGroup
    <3>2. PICK c \in 1 .. C : chunks[c][1] <= k /\ k <= chunks[c][2]
      BY <1>6
    <3>3. task[c].error = None
      BY <1>7, <1>12, <1>14
    <3>4. err(k) = None
      BY <1>11, <3>2, <3>3
    <3>5. starts[k] \in Nat /\ GroupEnd(ds, starts, k) \in Nat
      BY <1>1, <1>2, <1>3, GroupsInOrder
    <3>6. i \in starts[k] .. GroupEnd(ds, starts, k)
      BY <1>3, <3>1, <3>5
    <3>7. FirstError(GroupOf(ds, starts, k).destinations) = None
      BY <1>8, <3>4
    <3>8. \A j \in starts[k] .. GroupEnd(ds, starts, k) : DestinationError(ds[j]) = None
      BY <1>1, <1>2, <1>3, <3>7, GroupError
    <3> QED
      BY <3>6, <3>8
  <2>2. SequentialError = None
    BY <1>1, <2>1, SequentialIs
  <2> QED
    BY <1>13, <1>14, <2>2
<1>15. CASE bad # {}
  <2>1. bad \in SUBSET Nat /\ bad \subseteq 1 .. C
    BY <1>7, <1>12
  <2>2. PICK c \in bad : c = Min(bad) /\ \A y \in bad : c <= y
    BY <1>15, <2>1, LeastNumber
  <2>3. c \in 1 .. C /\ task[c].error # None
    BY <1>12, <2>1
  <2>4. PICK k : k = task[c].next
    OBVIOUS
  <2>5. /\ k \in 1 .. K /\ chunks[c][1] <= k /\ k <= chunks[c][2]
        /\ task[c].error = err(k)
        /\ \A l \in chunks[c][1] .. k - 1 : err(l) = None
    <3>1. /\ task[c].last = chunks[c][2]
          /\ task[c].next \in chunks[c][1] .. task[c].last + 1
          /\ task[c].next <= task[c].last
          /\ task[c].error = err(task[c].next)
          /\ \A l \in chunks[c][1] .. task[c].next - 1 : err(l) = None
      BY <1>9, <2>3
    <3>2. chunks[c][1] \in Nat \ {0} /\ chunks[c][2] \in 0 .. K
      BY <1>6, <2>3
    <3> QED
      BY <1>4, <2>4, <3>1, <3>2
  <2>6. ASSUME NEW l \in 1 .. K, l < k PROVE err(l) = None
    <3>1. PICK d \in 1 .. C : chunks[d][1] <= l /\ l <= chunks[d][2]
      BY <1>6
    <3>2. chunks[d][1] \in Nat /\ chunks[d][2] \in Nat /\ chunks[c][2] \in Nat
          /\ c \in Nat /\ d \in Nat
      BY <1>6, <2>3
    <3>3. CASE d = c
      <4>1. l \in chunks[c][1] .. k - 1
        BY <1>4, <2>5, <2>6, <3>1, <3>2, <3>3
      <4> QED
        BY <2>5, <4>1
    <3>4. CASE d < c
      <4>1. d \notin bad
        BY <2>2, <3>2, <3>4
      <4>2. task[d].error = None
        BY <1>7, <1>12, <4>1
      <4> QED
        BY <1>11, <3>1, <4>2
    <3>5. CASE c < d
      <4>1. chunks[c][2] < chunks[d][1]
        BY <1>6, <2>3, <3>5
      <4> QED
        BY <1>4, <2>5, <2>6, <3>1, <3>2, <4>1
    <3> QED
      BY <3>2, <3>3, <3>4, <3>5
  <2>7. PICK lo, hi : lo = starts[k] /\ hi = GroupEnd(ds, starts, k)
    OBVIOUS
  <2>8. lo \in Nat \ {0} /\ hi \in Nat /\ hi <= Len(ds)
        /\ \A l \in 1 .. K : k < l => hi < starts[l]
    BY <1>1, <1>2, <1>3, <2>5, <2>7, GroupsInOrder
  <2>9. PICK i \in lo .. hi :
           /\ DestinationError(ds[i]) # None
           /\ err(k) = DestinationError(ds[i])
           /\ \A j \in lo .. i - 1 : DestinationError(ds[j]) = None
    <3>1. PICK e : e = err(k)
      OBVIOUS
    <3>2. e # None /\ e = FirstError(GroupOf(ds, starts, k).destinations)
      BY <1>8, <2>3, <2>5, <3>1
    <3>3. k \in 1 .. Len(starts)
      BY <1>2, <2>5
    <3>4. \E i \in lo .. hi :
             /\ DestinationError(ds[i]) # None
             /\ e = DestinationError(ds[i])
             /\ \A j \in lo .. i - 1 : DestinationError(ds[j]) = None
      BY <1>1, <1>3, <2>7, <3>2, <3>3, GroupError
    <3> QED
      BY <3>1, <3>4
  <2>10. i \in 1 .. Len(ds) /\ i \in Nat /\ Len(ds) \in Nat
    BY <1>3, <2>8
  <2>11. ASSUME NEW j \in 1 .. i - 1 PROVE DestinationError(ds[j]) = None
    <3>1. j \in 1 .. Len(ds) /\ j < i /\ j \in Nat
      BY <2>10
    <3>2. PICK l \in 1 .. K : starts[l] <= j /\ j <= GroupEnd(ds, starts, l)
      BY <1>1, <1>2, <1>3, <3>1, InAGroup
    <3>3. starts[l] \in Nat /\ GroupEnd(ds, starts, l) \in Nat
      BY <1>1, <1>2, <1>3, GroupsInOrder
    <3>4. CASE l < k
      <4>1. FirstError(GroupOf(ds, starts, l).destinations) = None
        BY <1>8, <2>6, <3>4
      <4>2. \A m \in starts[l] .. GroupEnd(ds, starts, l) : DestinationError(ds[m]) = None
        <5>1. l \in 1 .. Len(starts)
          BY <1>2
        <5> QED
          BY Zenon, <1>1, <1>3, <4>1, <5>1, SoundGroup
      <4>3. j \in starts[l] .. GroupEnd(ds, starts, l)
        BY <3>1, <3>2, <3>3
      <4> QED
        BY <4>2, <4>3
    <3>5. CASE l = k
      <4>1. j \in lo .. i - 1
        BY <2>7, <2>8, <2>10, <3>1, <3>2, <3>5
      <4> QED
        BY <2>9, <4>1
    <3>6. CASE k < l
      <4>1. hi < starts[l]
        BY <2>8, <3>6
      <4> QED
        BY <2>8, <2>10, <3>1, <3>2, <3>3, <4>1
    <3> QED
      BY <1>4, <2>5, <3>4, <3>5, <3>6
  <2>12. SequentialError = DestinationError(ds[i])
    BY <1>1, <2>9, <2>10, <2>11, SequentialIs
  <2>13. JoinError = DestinationError(ds[i])
    BY <1>13, <1>15, <2>2, <2>5, <2>9
  <2> QED
    BY <2>12, <2>13
<1> QED
  BY <1>14, <1>15
(* What depends only on the call does not change with it.                  *)
LEMMA CallKept ==
    ASSUME call' = call
    PROVE  /\ SequentialError' = SequentialError
           /\ CallOk' <=> CallOk
           /\ \A ds : FirstError(ds)' = FirstError(ds)
           /\ \A ds, starts, k : GroupOf(ds, starts, k)' = GroupOf(ds, starts, k)
<1>1. \A a : DestinationError(a)' = DestinationError(a)
  BY DEF DestinationError
<1>2. SequentialError' = SequentialError
  BY <1>1 DEF SequentialError
<1>3. \A ds : FirstError(ds)' = FirstError(ds)
  BY <1>1 DEF FirstError
<1>4. \A ds, starts, k : GroupOf(ds, starts, k)' = GroupOf(ds, starts, k)
  BY DEF GroupOf
<1> QED
  BY <1>2, <1>3, <1>4 DEF CallOk

LEMMA FanOutGroup ==
    ASSUME FanOut, group_destinations
    PROVE  FanOut'
<1>1. PICK ds, starts, chunks : /\ ds = call.destinations
                                /\ starts = GroupStarts(ds)
                                /\ chunks = Chunks(Len(starts), call.parallelism)
  OBVIOUS
<1>2. PICK missing : missing = {k \in DOMAIN starts : call.pins[ds[starts[k]]] = None}
  OBVIOUS
<1>3. PICK n : n = Len(starts)
  OBVIOUS
<1>4. call' = call /\ ds \in Seq(Address) /\ CallOk'
  BY Zenon, <1>1, CallKept DEF FanOut, CallOk, group_destinations
<1>5. /\ n \in Nat /\ DOMAIN starts = 1 .. n
      /\ \A k \in 1 .. n : starts[k] \in StartSet(ds)
      /\ \A i \in StartSet(ds) : \E k \in 1 .. n : starts[k] = i
      /\ \A k, l \in 1 .. n : k < l => starts[k] < starts[l]
  BY <1>1, <1>3, <1>4, GroupStartsAre
<1>6. /\ call.sessions_len = "other" => pc' = "failed" /\ error' = << "InvalidArgument" >>
      /\ call.sessions_len # "other" /\ missing # {} =>
            pc' = "failed" /\ error' = << "SessionNotFound", ds[starts[Min(missing)]] >>
      /\ call.sessions_len # "other" /\ missing = {} =>
            /\ groups' = [k \in DOMAIN starts |-> GroupOf(ds, starts, k)]
            /\ task' = [c \in DOMAIN chunks |->
                          [next |-> chunks[c][1], last |-> chunks[c][2],
                           serialized |-> << >>, error |-> None]]
            /\ pc' = "spawned"
  BY Zenon, <1>1, <1>2 DEF group_destinations, Fail
<1>7. PICK unknown :
         unknown = {i \in DOMAIN ds : /\ call.pins[ds[i]] = None
                                      /\ i = 1 \/ name(ds[i - 1]) # name(ds[i])}
  OBVIOUS
<1>8. /\ call.sessions_len = "other" => SequentialError = << "InvalidArgument" >>
      /\ call.sessions_len # "other" /\ unknown # {} =>
            SequentialError = << "SessionNotFound", ds[Min(unknown)] >>
  BY Zenon, <1>1, <1>7 DEF SequentialError
<1>9. CASE call.sessions_len = "other"
  BY <1>4, <1>6, <1>8, <1>9, CallKept DEF FanOut, SameErrorAsSequential
<1>10. CASE call.sessions_len # "other" /\ missing # {}
  <2>1. missing \in SUBSET Nat /\ missing \subseteq 1 .. n
    BY <1>2, <1>5
  <2>2. PICK k \in missing : k = Min(missing) /\ \A y \in missing : k <= y
    BY <1>10, <2>1, LeastNumber
  <2>3. unknown \in SUBSET Nat
    BY <1>4, <1>7
  <2>4. starts[k] \in unknown
    BY <1>2, <1>5, <1>7, <2>1 DEF StartSet
  <2>5. ASSUME NEW y \in unknown PROVE starts[k] <= y
    <3>1. y \in StartSet(ds) /\ call.pins[ds[y]] = None
      BY <1>7 DEF StartSet
    <3>2. PICK l \in 1 .. n : starts[l] = y
      BY <1>5, <3>1
    <3>3. l \in missing
      BY <1>2, <1>5, <3>1, <3>2
    <3>4. k <= l /\ k \in 1 .. n
      BY <2>1, <2>2, <3>3
    <3>5. k = l \/ k < l
      BY <1>5, <3>4
    <3>6. starts[k] \in Nat /\ y \in Nat
      BY <2>3, <2>4
    <3> QED
      BY <1>5, <3>2, <3>4, <3>5, <3>6
  <2>6. Min(unknown) = starts[k]
    BY <2>3, <2>4, <2>5, LeastIs
  <2>7. unknown # {}
    BY <2>4
  <2>8. error' = SequentialError /\ pc' = "failed"
    BY <1>6, <1>8, <1>10, <2>2, <2>6, <2>7
  <2> QED
    BY <1>4, <2>8, CallKept DEF FanOut, SameErrorAsSequential
<1>11. CASE call.sessions_len # "other" /\ missing = {}
  <2>1. pc' = "spawned"
    BY <1>6, <1>11
  <2>2. call.parallelism \in Nat \ {0}
    BY DEF FanOut, CallOk
  <2>3. Partition(chunks, n)
    BY <1>1, <1>3, <1>5, <2>2, ChunksPartition
  <2>4. PICK t : t = task'
    OBVIOUS
  <2>5. t = [c \in DOMAIN chunks |-> [next |-> chunks[c][1], last |-> chunks[c][2],
                                      serialized |-> << >>, error |-> None]]
    BY <1>6, <1>11, <2>4
  <2>6. ASSUME NEW c \in DOMAIN chunks PROVE TaskOf(t[c], chunks[c])'
    <3>1. t[c] = [next |-> chunks[c][1], last |-> chunks[c][2],
                  serialized |-> << >>, error |-> None]
      BY <2>5
    <3>2. chunks[c][1] \in Nat /\ chunks[c][2] \in Nat /\ chunks[c][1] <= chunks[c][2] + 1
      BY <2>3 DEF Partition
    <3> QED
      BY <3>1, <3>2 DEF TaskOf
  <2>7. /\ GroupStarts(call.destinations)' = starts
        /\ Chunks(Len(GroupStarts(call.destinations)), call.parallelism)' = chunks
    BY <1>1, <1>4
  <2>8. \A k \in DOMAIN starts : call.pins[ds[starts[k]]] # None
    BY <1>2, <1>11
  <2>9. groups' = [k \in DOMAIN starts |-> GroupOf(ds, starts, k)']
    BY <1>4, <1>6, <1>11, CallKept
  <2>10. Working'
    <3>1. task' = [c \in DOMAIN chunks |-> task'[c]]
      BY <2>4, <2>5
    <3>2. \A c \in DOMAIN chunks : TaskOf(task[c], chunks[c])'
      BY <2>4, <2>6
    <3> QED
      BY Zenon, <1>1, <1>4, <1>11, <2>7, <2>8, <2>9, <3>1, <3>2 DEF Working
  <2> QED
    BY <1>4, <2>1, <2>10 DEF FanOut, SameErrorAsSequential
<1> QED
  BY <1>9, <1>10, <1>11

LEMMA FanOutProcess ==
    ASSUME FanOut, NEW c \in DOMAIN task, process_chunk(c)
    PROVE  FanOut'
<1>1. pc = "spawned" /\ pc' = "spawned" /\ call' = call /\ groups' = groups
  BY DEF process_chunk
<1>2. PICK ds, starts, chunks : /\ ds = call.destinations
                                /\ starts = GroupStarts(ds)
                                /\ chunks = Chunks(Len(starts), call.parallelism)
  OBVIOUS
<1>3. /\ CallOk /\ call.sessions_len # "other"
      /\ \A k \in DOMAIN starts : call.pins[ds[starts[k]]] # None
      /\ groups = [k \in DOMAIN starts |-> GroupOf(ds, starts, k)]
      /\ task = [d \in DOMAIN chunks |-> task[d]]
      /\ \A d \in DOMAIN chunks : TaskOf(task[d], chunks[d])
  BY <1>1, <1>2 DEF FanOut, Working
<1>4. c \in DOMAIN chunks
  BY <1>3
<1>5. PICK t, ch, e : /\ t = task[c] /\ ch = chunks[c]
                      /\ e = FirstError(groups[t.next].destinations)
  OBVIOUS
<1>6. /\ t.next <= t.last /\ t.error = None
      /\ task' = [task EXCEPT ![c] = task'[c]]
      /\ task'[c] = IF e # None THEN [t EXCEPT !.error = e]
                    ELSE [t EXCEPT !.next = @ + 1,
                                   !.serialized = @ \o serialize_recipient_destinations(groups[t.next])]
  BY <1>5 DEF process_chunk
<1>7. ch[1] \in Nat /\ ch[2] \in Nat
  <2>1. Len(starts) \in Nat
    BY <1>2, <1>3, GroupStartsAre DEF CallOk
  <2>2. Partition(chunks, Len(starts))
    BY <1>2, <1>3, <2>1, ChunksPartition DEF CallOk
  <2> QED
    BY <1>4, <1>5, <2>1, <2>2 DEF Partition
<1>8. TaskOf(t, ch)
  BY <1>3, <1>4, <1>5
<1>9. /\ t = [next |-> t.next, last |-> t.last, serialized |-> t.serialized, error |-> t.error]
      /\ t.last = ch[2] /\ t.next \in ch[1] .. t.last + 1
      /\ \A k \in ch[1] .. t.next - 1 : FirstError(groups[k].destinations) = None
  BY <1>8 DEF TaskOf
<1>10. TaskOf(task'[c], ch)
  <2>1. PICK u : u = task'[c]
    OBVIOUS
  <2>2. PICK out : out = t.serialized \o serialize_recipient_destinations(groups[t.next])
    OBVIOUS
  <2>3. CASE e # None
    <3>1. u = [next |-> t.next, last |-> t.last, serialized |-> t.serialized, error |-> e]
      BY <1>6, <1>9, <2>1, <2>3
    <3>2. u.next = t.next /\ u.last = t.last /\ u.error = e
          /\ u = [next |-> u.next, last |-> u.last, serialized |-> u.serialized, error |-> u.error]
      BY <3>1
    <3>3. TaskOf(u, ch)
      BY <1>5, <1>6, <1>9, <3>2 DEF TaskOf
    <3> QED
      BY <2>1, <3>3
  <2>4. CASE e = None
    <3>1. u = [next |-> t.next + 1, last |-> t.last, serialized |-> out, error |-> None]
      BY <1>6, <1>9, <2>1, <2>2, <2>4
    <3>2. t.next + 1 \in ch[1] .. t.last + 1 /\ (t.next + 1) - 1 = t.next
      BY <1>6, <1>7, <1>9
    <3>3. ASSUME NEW k \in ch[1] .. t.next
          PROVE  FirstError(groups[k].destinations) = None
      <4>1. k = t.next \/ k \in ch[1] .. t.next - 1
        BY <1>7, <1>9
      <4> QED
        BY <1>5, <1>9, <2>4, <4>1
    <3>4. u.error = None /\ u.next = t.next + 1 /\ u.last = t.last
          /\ u = [next |-> u.next, last |-> u.last, serialized |-> u.serialized, error |-> u.error]
      BY <3>1
    <3>5. \A k \in ch[1] .. u.next - 1 : FirstError(groups[k].destinations) = None
      BY <3>2, <3>3, <3>4
    <3> QED
      BY <1>9, <2>1, <3>2, <3>4, <3>5 DEF TaskOf
  <2> QED
    BY <2>3, <2>4
<1>11. \A d \in DOMAIN chunks : TaskOf(task'[d], chunks[d])
  BY <1>3, <1>4, <1>5, <1>6, <1>10
<1>12. \A d \in DOMAIN chunks : TaskOf(task[d], chunks[d])'
  <2>1. \A x : FirstError(x)' = FirstError(x)
    BY Zenon, <1>1, <1>2, CallKept
  <2>2. groups' = groups
    BY Zenon, <1>1, <1>2
  <2> QED
    BY Zenon, <1>11, <2>1, <2>2 DEF TaskOf
<1>13. task' = [d \in DOMAIN chunks |-> task'[d]]
  BY <1>3, <1>6
<1>14. groups' = [k \in DOMAIN starts |-> GroupOf(ds, starts, k)']
  BY <1>1, <1>3, CallKept
<1>15. Working'
  <2>1. /\ GroupStarts(call.destinations)' = starts
        /\ Chunks(Len(GroupStarts(call.destinations)), call.parallelism)' = chunks
    BY <1>1, <1>2
  <2> QED
    BY Zenon, <1>1, <1>2, <1>3, <1>12, <1>13, <1>14, <2>1 DEF Working
<1> QED
  BY <1>1, <1>3, <1>15, CallKept DEF FanOut, SameErrorAsSequential

LEMMA FanOutJoin ==
    ASSUME FanOut, join
    PROVE  FanOut'
<1>1. pc = "spawned" /\ call' = call /\ CallOk /\ Working
      /\ \A c \in DOMAIN task : TaskEnded(task[c])
  BY DEF FanOut, join
<1>2. JoinError = SequentialError
  BY <1>1, JoinIsSequential
<1>3. CASE JoinError # None
  BY <1>1, <1>2, <1>3, CallKept DEF join, Fail, FanOut, SameErrorAsSequential
<1>4. CASE JoinError = None
  BY <1>1, <1>2, <1>4, CallKept DEF join, FanOut, SameErrorAsSequential
<1> QED
  BY <1>3, <1>4

(* The server's part does not concern the call.                            *)
LEMMA FanOutServer ==
    ASSUME FanOut, call' = call,
           \/ UNCHANGED << pc, error, groups, task >>
           \/ /\ pc \in {"sent", "parsing"}
              /\ pc' \in {"parsing", "rejected", "parsed"}
    PROVE  FanOut'
<1>1. CallOk' /\ SequentialError' = SequentialError
  BY CallKept DEF FanOut
<1>2. CASE UNCHANGED << pc, error, groups, task >>
  <2>1. Working' <=> Working
    BY <1>2, CallKept DEF Working, TaskOf
  <2> QED
    BY <1>1, <1>2, <2>1 DEF FanOut, SameErrorAsSequential
<1>3. CASE pc \in {"sent", "parsing"} /\ pc' \in {"parsing", "rejected", "parsed"}
  BY <1>1, <1>3 DEF FanOut, SameErrorAsSequential
<1> QED
  BY <1>2, <1>3

LEMMA FanOutStep == FanOut /\ [Next]_vars => FanOut'
<1> SUFFICES ASSUME FanOut, [Next]_vars PROVE FanOut'
  OBVIOUS
<1>1. CASE group_destinations
  BY <1>1, FanOutGroup
<1>2. CASE \E c \in DOMAIN task : process_chunk(c)
  BY <1>2, FanOutProcess
<1>3. CASE join
  BY <1>3, FanOutJoin
<1>4. CASE parse
  BY <1>4, FanOutServer DEF parse
<1>5. CASE parse_recipient
  <2>1. call' = call /\ pc = "parsing" /\ UNCHANGED << groups, task >>
        /\ (pc' = "rejected" \/ UNCHANGED << pc, error >>)
    BY <1>5 DEF parse_recipient, Reject
  <2> QED
    BY <2>1, FanOutServer
<1>6. CASE parse_end
  BY <1>6, FanOutServer DEF parse_end, Reject
<1>7. CASE \E n \in Name : receive(n)
  BY Zenon, <1>7, FanOutServer DEF receive
<1>8. CASE UNCHANGED vars
  BY <1>8, FanOutServer DEF vars
<1> QED
  BY <1>1, <1>2, <1>3, <1>4, <1>5, <1>6, <1>7, <1>8 DEF Next, Encrypt

-----------------------------------------------------------------------------
(* sealed_sender_multi_recipient_encrypt returns the error that a loop     *)
(* over the destinations would return, and none if that has none: for      *)
(* every list of destinations and every number of threads, in whichever    *)
(* order these find their errors.                                          *)
THEOREM ErrorIsSequential == MultiSpec => []SameErrorAsSequential
<1>1. Init => FanOut
  BY FanOutInit
<1>2. FanOut /\ [Next]_vars => FanOut'
  BY FanOutStep
<1>3. FanOut => SameErrorAsSequential
  BY DEF FanOut
<1> QED
  BY <1>1, <1>2, <1>3, PTL DEF MultiSpec
=============================================================================
