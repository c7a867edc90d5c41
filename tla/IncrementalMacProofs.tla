------------------------ MODULE IncrementalMacProofs ------------------------
(***************************************************************************)
(* The incremental MACs, for data of every length, every allowed chunk     *)
(* size, every way in which the two sides cut the data, and everything     *)
(* that IncrementalMac lets the transport do.                              *)
(*                                                                         *)
(* update and Compare are loops.  What each loop has computed after i      *)
(* steps is given in closed form, and shown to be what the loop computes;  *)
(* the actions are then reasoned about with the closed forms only.         *)
(***************************************************************************)
EXTENDS IncrementalMac, Integers, WellFoundedInduction, TLAPS

-----------------------------------------------------------------------------
(* Numbers.                                                                *)

(* A set of numbers with 0 and the successor of each of its members has    *)
(* all numbers: < is well-founded.                                         *)
LEMMA SetInduction ==
    ASSUME NEW S \in SUBSET Nat, 0 \in S, \A n \in S : n + 1 \in S
    PROVE  S = Nat
<1> DEFINE R == OpToRel(<, Nat)
           T == Nat \ S
<1> SUFFICES ASSUME T # {} PROVE FALSE
  OBVIOUS
<1>1. IsWellFoundedOn(R, Nat)
  BY Zenon, NatLessThanWellFounded
<1>2. \A i, j \in Nat : << i, j >> \in R <=> i < j
  BY Zenon DEF OpToRel
<1> HIDE DEF R
<1>3. PICK n \in T : \A j \in T : ~(<< j, n >> \in R)
  <2>1. T \subseteq Nat
    OBVIOUS
  <2> HIDE DEF T
  <2> QED
    BY <1>1, <2>1, WFMin
<1>4. n \in Nat /\ n # 0
  OBVIOUS
<1>5. n - 1 \in Nat /\ n - 1 < n
  BY <1>4
<1>6. n - 1 \in S
  BY <1>2, <1>3, <1>4, <1>5
<1>7. (n - 1) + 1 = n
  BY <1>4
<1> QED
  BY <1>6, <1>7

LEMMA Division ==
    ASSUME NEW t \in Nat, NEW c \in Nat \ {0}
    PROVE  /\ t \div c \in Nat /\ t % c \in Nat
           /\ t % c < c /\ t = (t \div c) * c + (t % c)
OBVIOUS

LEMMA DivisionIs ==
    ASSUME NEW t \in Nat, NEW c \in Nat \ {0}, NEW q \in Nat, NEW r \in Nat,
           r < c, t = q * c + r
    PROVE  t \div c = q /\ t % c = r
OBVIOUS

LEMMA DivisionGrows ==
    ASSUME NEW s \in Nat, NEW t \in Nat, NEW c \in Nat \ {0}, s <= t
    PROVE  s \div c <= t \div c
OBVIOUS

(* How often b goes into a, rounded up.                                    *)
LEMMA DivCeil ==
    ASSUME NEW a \in Nat, NEW b \in Nat \ {0}
    PROVE  /\ div_ceil(a, b) \in Nat
           /\ a <= div_ceil(a, b) * b
           /\ a = 0 => div_ceil(a, b) = 0
           /\ a > 0 => div_ceil(a, b) > 0 /\ (div_ceil(a, b) - 1) * b < a
<1> DEFINE t == a + b - 1
           k == t \div b
           r == t % b
<1>1. t \in Nat
  OBVIOUS
<1>2. k \in Nat /\ r \in Nat /\ r < b /\ t = k * b + r
  BY <1>1, Division
<1>3. div_ceil(a, b) = k
  BY DEF div_ceil
<1> HIDE DEF k, r
<1>4. a <= k * b
  BY <1>2
<1>5. (k - 1) * b = k * b - b
  BY <1>2
<1>6. a = 0 => k = 0
  <2> SUFFICES ASSUME a = 0 PROVE t \div b = 0
    BY DEF k
  <2> QED
    BY <1>1, DivisionIs
<1>7. a > 0 => k > 0
  <2> SUFFICES ASSUME a > 0, k = 0 PROVE FALSE
    BY <1>2
  <2>1. k * b = 0
    OBVIOUS
  <2> QED
    BY <1>4, <2>1
<1> QED
  BY <1>2, <1>3, <1>4, <1>5, <1>6, <1>7

-----------------------------------------------------------------------------
(* The chunk size.                                                         *)

LEMMA ChunkSize ==
    ASSUME NEW n \in Nat
    PROVE  LET cs == calculate_chunk_size(n) IN
           /\ cs \in Nat \ {0}
           /\ cs \in MINIMUM_CHUNK_SIZE .. MAXIMUM_CHUNK_SIZE
           /\ n <= TARGET_CHUNK_COUNT * MAXIMUM_CHUNK_SIZE =>
                 n <= TARGET_CHUNK_COUNT * cs
<1> USE ChunkAssumption
<1> DEFINE t == TARGET_CHUNK_COUNT
           cs == calculate_chunk_size(n)
<1>1. cs \in MINIMUM_CHUNK_SIZE .. MAXIMUM_CHUNK_SIZE
      /\ (n <= t * MAXIMUM_CHUNK_SIZE => n <= t * cs)
  <2>1. CASE n < t * MINIMUM_CHUNK_SIZE
    BY <2>1 DEF calculate_chunk_size
  <2>2. CASE ~(n < t * MINIMUM_CHUNK_SIZE) /\ n < t * MAXIMUM_CHUNK_SIZE
    <3>1. PICK d \in Nat : d = div_ceil(n, t)
      BY DivCeil
    <3>2. cs = d
      BY <2>2, <3>1 DEF calculate_chunk_size
    <3>3. n <= d * t /\ (n > 0 => (d - 1) * t < n)
      BY <3>1, DivCeil
    <3>4. t * MINIMUM_CHUNK_SIZE <= t * d /\ n > 0
      <4>1. t * MINIMUM_CHUNK_SIZE > 0
        OBVIOUS
      <4> QED
        BY <2>2, <3>3, <4>1
    <3>5. MINIMUM_CHUNK_SIZE <= d
      <4> SUFFICES ASSUME d + 1 <= MINIMUM_CHUNK_SIZE PROVE FALSE
        OBVIOUS
      <4>1. t * (d + 1) <= t * MINIMUM_CHUNK_SIZE
        OBVIOUS
      <4>2. t * (d + 1) = t * d + t
        OBVIOUS
      <4> QED
        BY <3>4, <4>1, <4>2
    <3>6. d <= MAXIMUM_CHUNK_SIZE
      <4> SUFFICES ASSUME d - 1 >= MAXIMUM_CHUNK_SIZE PROVE FALSE
        OBVIOUS
      <4>1. t * (d - 1) >= t * MAXIMUM_CHUNK_SIZE
        OBVIOUS
      <4> QED
        BY <2>2, <3>3, <3>4, <4>1
    <3> QED
      BY <3>2, <3>3, <3>5, <3>6
  <2>3. CASE ~(n < t * MINIMUM_CHUNK_SIZE) /\ ~(n < t * MAXIMUM_CHUNK_SIZE)
    BY <2>3 DEF calculate_chunk_size
  <2> QED
    BY <2>1, <2>2, <2>3
<1>2. cs \in Nat \ {0}
  BY <1>1
<1> QED
  BY <1>1, <1>2
-----------------------------------------------------------------------------
(* update.                                                                 *)

(* An Incremental that has taken t bytes, with c the size of a chunk.      *)
Taken(t, c) == [mac |-> t, unused_length |-> c - (t % c)]

(* What update has computed, starting from s bytes, when it is at t: it    *)
(* has yielded the MACs of the whole chunks in between.                    *)
Reached(s, t, c) ==
    [inc     |-> Taken(t, c),
     lengths |-> [k \in 1 .. (t \div c) - (s \div c) |-> ((s \div c) + k) * c]]

LEMMA NewIsTaken ==
    ASSUME NEW c \in Nat \ {0}
    PROVE  Incremental_new(c) = Taken(0, c)
<1>1. 0 % c = 0
  BY DivisionIs
<1> QED
  BY <1>1 DEF Incremental_new, Taken

(* A piece that fits in the present chunk takes update that much further.  *)
LEMMA FedReaches ==
    ASSUME NEW c \in Nat \ {0}, NEW s \in Nat, NEW t \in Nat, s <= t,
           NEW n \in Nat, n <= c - (t % c)
    PROVE  Fed(Reached(s, t, c), c, n) = Reached(s, t + n, c)
<1>1. PICK q, r : q = t \div c /\ r = t % c
  OBVIOUS
<1>2. q \in Nat /\ r \in Nat /\ r < c /\ t = q * c + r
  BY <1>1, Division
<1>3. PICK p : p = s \div c
  OBVIOUS
<1>4. p \in Nat /\ p <= q
  BY <1>1, <1>3, Division, DivisionGrows
<1>5. PICK old, new : old = Reached(s, t, c) /\ new = Reached(s, t + n, c)
  OBVIOUS
<1>6. /\ old.inc = [mac |-> t, unused_length |-> c - r]
      /\ old.lengths = [k \in 1 .. q - p |-> (p + k) * c]
  BY <1>1, <1>3, <1>5 DEF Reached, Taken
<1>7. Fed(old, c, n) =
        [inc     |-> [mac |-> t + n,
                      unused_length |-> IF c - r - n = 0 THEN c ELSE c - r - n],
         lengths |-> IF c - r - n = 0 THEN Append(old.lengths, t + n) ELSE old.lengths]
  BY <1>6 DEF Fed, update_chunk, EndsChunk
<1>8. CASE c - r - n = 0
  <2>1. t + n = (q + 1) * c + 0
    BY <1>2, <1>8
  <2>2. (t + n) \div c = q + 1 /\ (t + n) % c = 0
    BY <1>2, <2>1, DivisionIs
  <2>3. /\ new.inc = [mac |-> t + n, unused_length |-> c]
        /\ new.lengths = [k \in 1 .. (q + 1) - p |-> (p + k) * c]
        /\ new = [inc |-> new.inc, lengths |-> new.lengths]
    <3>1. /\ new.inc = [mac |-> t + n, unused_length |-> c - ((t + n) % c)]
          /\ new.lengths = [k \in 1 .. ((t + n) \div c) - (s \div c) |-> ((s \div c) + k) * c]
          /\ new = [inc |-> new.inc, lengths |-> new.lengths]
      BY <1>5 DEF Reached, Taken
    <3>2. c - 0 = c
      OBVIOUS
    <3> QED
      BY Zenon, <1>3, <2>2, <3>1, <3>2
  <2>4. Append(old.lengths, t + n) = new.lengths
    <3>1. PICK d \in Nat : d = q - p
      BY <1>2, <1>4
    <3>2. old.lengths = [k \in 1 .. d |-> (p + k) * c]
          /\ new.lengths = [k \in 1 .. d + 1 |-> (p + k) * c]
          /\ t + n = (p + (d + 1)) * c
      <4>1. (q + 1) - p = d + 1 /\ q + 1 = p + (d + 1)
        BY <1>2, <1>4, <3>1
      <4>2. t + n = (q + 1) * c
        BY <1>2, <2>1
      <4> QED
        BY Zenon, <1>6, <2>3, <3>1, <4>1, <4>2
    <3>3. old.lengths \in Seq(Nat) /\ Len(old.lengths) = d
      BY <1>4, <3>2
    <3>4. Append(old.lengths, t + n) =
             [k \in 1 .. d + 1 |-> IF k = d + 1 THEN t + n ELSE old.lengths[k]]
      BY <3>3
    <3> QED
      BY <3>2, <3>4
  <2> QED
    BY <1>5, <1>7, <1>8, <2>3, <2>4
<1>9. CASE c - r - n # 0
  <2>1. t + n = q * c + (r + n) /\ r + n \in Nat /\ r + n < c
    BY <1>1, <1>2, <1>9
  <2>2. (t + n) \div c = q /\ (t + n) % c = r + n
    BY <1>2, <2>1, DivisionIs
  <2>3. new = [inc |-> [mac |-> t + n, unused_length |-> c - (r + n)],
               lengths |-> [k \in 1 .. q - p |-> (p + k) * c]]
    BY <1>3, <1>5, <2>2 DEF Reached, Taken
  <2>4. c - (r + n) = c - r - n
    BY <1>2
  <2> QED
    BY <1>5, <1>6, <1>7, <1>9, <2>3, <2>4
<1> QED
  BY <1>8, <1>9

(* Where update is after i pieces.                                         *)
Place(inc, c, n, i) ==
    IF i = 0 THEN inc.mac
    ELSE IF i = Len(pieces(inc, c, n)) THEN inc.mac + n
    ELSE inc.mac + inc.unused_length + (i - 1) * c

(* Each piece fits in the chunk it is fed to, and together they are all.   *)
Fitting(s, inc, c, n, ps) ==
    /\ Len(ps) \in Nat \ {0}
    /\ Place(inc, c, n, 0) = s /\ Place(inc, c, n, Len(ps)) = s + n
    /\ \A i \in 1 .. Len(ps) :
          /\ Place(inc, c, n, i - 1) \in Nat /\ s <= Place(inc, c, n, i - 1)
          /\ ps[i] \in Nat /\ ps[i] <= c - (Place(inc, c, n, i - 1) % c)
          /\ Place(inc, c, n, i) = Place(inc, c, n, i - 1) + ps[i]

LEMMA PiecesFit ==
    ASSUME NEW c \in Nat \ {0}, NEW s \in Nat, NEW n \in Nat,
           NEW inc, inc = Taken(s, c), NEW ps, ps = pieces(inc, c, n)
    PROVE  Fitting(s, inc, c, n, ps)
<1>1. inc = Taken(s, c) /\ ps = pieces(inc, c, n)
  OBVIOUS
<1>2. PICK room : room = inc.unused_length
  OBVIOUS
<1>3. PICK q, r : q = s \div c /\ r = s % c
  OBVIOUS
<1>4. q \in Nat /\ r \in Nat /\ r < c /\ s = q * c + r /\ inc.mac = s /\ room = c - r
      /\ room \in Nat \ {0}
  BY <1>1, <1>2, <1>3, Division DEF Taken
<1>5. PICK split, over : split = Smaller(n, room) /\ over = n - split
  OBVIOUS
<1>6. split \in Nat /\ over \in Nat /\ split <= room /\ (over > 0 => split = room)
  BY <1>4, <1>5 DEF Smaller
<1>7. PICK k \in Nat : k = div_ceil(over, c)
  BY <1>6, DivCeil
<1>8. /\ over <= k * c /\ (over = 0 => k = 0)
      /\ (over > 0 => k > 0 /\ (k - 1) * c < over)
  BY <1>6, <1>7, DivCeil
<1>9. ps = << split >> \o [i \in 1 .. k |-> Smaller(c, over - (i - 1) * c)]
  BY <1>1, <1>2, <1>5, <1>7 DEF pieces
<1>10. \A i \in 1 .. k : Smaller(c, over - (i - 1) * c) \in Int
  BY <1>6 DEF Smaller
<1>11. /\ Len(ps) = k + 1 /\ ps[1] = split
       /\ \A i \in 2 .. k + 1 : ps[i] = Smaller(c, over - (i - 2) * c)
  <2>1. PICK f : f = [i \in 1 .. k |-> Smaller(c, over - (i - 1) * c)]
    OBVIOUS
  <2>2. f \in Seq(Int) /\ Len(f) = k /\ << split >> \in Seq(Int) /\ Len(<< split >>) = 1
    BY <1>6, <1>10, <2>1
  <2>3. Len(ps) = k + 1 /\ ps[1] = split /\ \A i \in 2 .. k + 1 : ps[i] = f[i - 1]
    BY <1>9, <2>1, <2>2
  <2>4. \A i \in 2 .. k + 1 : (i - 1) - 1 = i - 2 /\ i - 1 \in 1 .. k
    OBVIOUS
  <2> QED
    BY <2>1, <2>3, <2>4
<1>12. PICK at : at = [i \in 0 .. k + 1 |-> Place(inc, c, n, i)]
  OBVIOUS
<1>13. \A i \in 0 .. k + 1 : at[i] = IF i = 0 THEN s ELSE IF i = k + 1 THEN s + n
                                     ELSE s + room + (i - 1) * c
  BY <1>1, <1>2, <1>4, <1>11, <1>12 DEF Place
<1>14. ASSUME NEW i \in 1 .. k + 1
       PROVE  /\ at[i - 1] \in Nat /\ s <= at[i - 1]
              /\ ps[i] \in Nat /\ ps[i] <= c - (at[i - 1] % c)
              /\ at[i] = at[i - 1] + ps[i]
  <2>1. CASE i = 1
    <3>1. at[0] = s /\ ps[1] = split /\ s % c = r
      BY <1>3, <1>11, <1>13
    <3>2. at[1] = s + split
      <4>1. CASE k = 0
        <5>1. over = 0
          BY <1>8, <4>1, <1>6
        <5> QED
          BY <1>5, <1>6, <1>13, <4>1, <5>1
      <4>2. CASE k > 0
        <5>1. over > 0
          BY <1>6, <1>8, <4>2
        <5>2. at[1] = s + room + (1 - 1) * c
          BY <1>13, <4>2
        <5> QED
          BY <1>4, <1>6, <5>1, <5>2
      <4> QED
        BY <4>1, <4>2
    <3> QED
      BY <1>4, <1>6, <2>1, <3>1, <3>2
  <2>2. CASE i > 1
    <3>1. PICK j \in Nat : j = i - 2
      BY <2>2
    <3>2. k > 0 /\ j <= k - 1 /\ over > 0 /\ split = room
      BY <1>6, <1>8, <2>2, <3>1
    <3>3. at[i - 1] = s + room + j * c /\ ps[i] = Smaller(c, over - j * c)
      <4>1. i - 1 \in 0 .. k + 1 /\ i - 1 # 0 /\ i - 1 # k + 1 /\ (i - 1) - 1 = j
        BY <2>2, <3>1
      <4> QED
        BY <1>11, <1>13, <2>2, <3>1, <4>1
    <3>4. s + room + j * c = (q + 1 + j) * c + 0
      BY <1>4
    <3>5. at[i - 1] % c = 0 /\ at[i - 1] \in Nat
      <4>1. j * c \in Nat
        OBVIOUS
      <4>2. s + room + j * c \in Nat /\ q + 1 + j \in Nat
        BY <1>4, <4>1
      <4> QED
        BY <3>3, <3>4, <4>2, DivisionIs
    <3>6. s <= at[i - 1]
      BY <1>4, <3>3
    <3>7. j * c <= (k - 1) * c
      BY <3>2
    <3>8. over - j * c > 0
      BY <1>6, <1>8, <3>2, <3>7
    <3>9. CASE i = k + 1
      <4>1. j = k - 1 /\ at[i] = s + n
        BY <1>13, <3>1, <3>9
      <4>2. over - j * c <= c
        <5>1. k * c = j * c + c
          BY <4>1
        <5> QED
          BY <1>6, <1>8, <5>1
      <4>3. ps[i] = over - j * c
        <5>1. PICK x \in Int : x = over - j * c
          BY <1>6
        <5>2. x <= c /\ (x = c \/ ~(c <= x)) /\ ps[i] = Smaller(c, x)
          BY <3>3, <4>2, <5>1
        <5> QED
          BY <5>1, <5>2 DEF Smaller
      <4>4. ps[i] \in Nat /\ ps[i] <= c - (at[i - 1] % c)
        BY <1>6, <3>5, <3>8, <4>2, <4>3
      <4>5. at[i] = at[i - 1] + ps[i]
        <5>1. PICK x \in Int : x = j * c
          OBVIOUS
        <5> QED
          BY <1>4, <1>5, <1>6, <3>2, <3>3, <4>1, <4>3, <5>1
      <4> QED
        BY <3>5, <3>6, <4>4, <4>5
    <3>10. CASE i # k + 1
      <4>1. j + 1 <= k - 1 /\ at[i] = s + room + (j + 1) * c
        <5>1. i - 1 = j + 1
          BY <3>1
        <5> QED
          BY <1>13, <2>2, <3>1, <3>10, <5>1
      <4>2. (j + 1) * c <= (k - 1) * c
        BY <4>1, <3>2
      <4>3. over - j * c > c
        BY <1>6, <1>8, <3>2, <4>2
      <4>4. ps[i] = c
        <5>1. PICK x \in Int : x = over - j * c
          BY <1>6
        <5>2. c <= x /\ ps[i] = Smaller(c, x)
          BY <3>3, <4>3, <5>1
        <5> QED
          BY <5>2 DEF Smaller
      <4>5. (j + 1) * c = j * c + c
        OBVIOUS
      <4>6. at[i] = at[i - 1] + ps[i]
        <5>1. PICK x \in Int : x = j * c
          OBVIOUS
        <5> QED
          BY <1>4, <3>3, <4>1, <4>4, <4>5, <5>1
      <4>7. ps[i] \in Nat /\ ps[i] <= c - (at[i - 1] % c)
        BY <3>5, <4>4
      <4> QED
        BY <3>5, <3>6, <4>6, <4>7
    <3> QED
      BY <3>9, <3>10
  <2> QED
    BY <2>1, <2>2
<1>15. \A i \in 1 .. k + 1 : at[i] = Place(inc, c, n, i) /\ at[i - 1] = Place(inc, c, n, i - 1)
  BY <1>12
<1>16. Place(inc, c, n, 0) = s /\ Place(inc, c, n, k + 1) = s + n
  BY <1>1, <1>4, <1>11 DEF Place
<1>17. Len(ps) = k + 1 /\ k + 1 \in Nat \ {0}
  BY <1>11
<1>18. ASSUME NEW i \in 1 .. k + 1
       PROVE  /\ Place(inc, c, n, i - 1) \in Nat /\ s <= Place(inc, c, n, i - 1)
              /\ ps[i] \in Nat /\ ps[i] <= c - (Place(inc, c, n, i - 1) % c)
              /\ Place(inc, c, n, i) = Place(inc, c, n, i - 1) + ps[i]
  BY Zenon, <1>14, <1>15, <1>18
<1> QED
  BY <1>16, <1>17, <1>18 DEF Fitting

(* However update cuts the n bytes, it gets to where they end.             *)
LEMMA UpdateReaches ==
    ASSUME NEW c \in Nat \ {0}, NEW s \in Nat, NEW n \in Nat
    PROVE  update(Taken(s, c), c, n) = Reached(s, s + n, c)
<1>1. PICK inc, ps : inc = Taken(s, c) /\ ps = pieces(inc, c, n)
  OBVIOUS
<1>2. PICK N : N = Len(ps)
  OBVIOUS
<1> DEFINE at(i) == Place(inc, c, n, i)
           first == [inc |-> inc, lengths |-> << >>]
           f == [i \in 0 .. Len(ps) |-> Reached(s, at(i), c)]
<1>3. /\ N \in Nat \ {0} /\ at(0) = s /\ at(N) = s + n
      /\ \A i \in 1 .. N : /\ at(i - 1) \in Nat /\ s <= at(i - 1)
                           /\ ps[i] \in Nat /\ ps[i] <= c - (at(i - 1) % c)
                           /\ at(i) = at(i - 1) + ps[i]
  <2>1. Fitting(s, inc, c, n, ps)
    BY <1>1, PiecesFit
  <2> QED
    BY <1>2, <2>1 DEF Fitting
<1> HIDE DEF at
<1>4. first = Reached(s, s, c)
  <2>1. PICK q \in Nat : q = s \div c
    BY Division
  <2>2. Reached(s, s, c) = [inc |-> inc, lengths |-> [k \in 1 .. q - q |-> (q + k) * c]]
    BY <1>1, <2>1 DEF Reached
  <2>3. [k \in 1 .. q - q |-> (q + k) * c] = << >>
    OBVIOUS
  <2> QED
    BY <2>2, <2>3
<1>5. \A i \in 1 .. N : Reached(s, at(i), c) = Fed(Reached(s, at(i - 1), c), c, ps[i])
  <2> TAKE i \in 1 .. N
  <2>1. PICK t, d : t = at(i - 1) /\ d = ps[i]
    OBVIOUS
  <2>2. /\ t \in Nat /\ s <= t
        /\ d \in Nat /\ d <= c - (t % c)
        /\ at(i) = t + d
    BY Zenon, <1>3, <2>1
  <2>3. Fed(Reached(s, t, c), c, d) = Reached(s, t + d, c)
    BY <2>2, FedReaches
  <2> QED
    BY Zenon, <2>1, <2>2, <2>3
<1>6. f = [i \in 0 .. Len(ps) |-> IF i = 0 THEN first ELSE Fed(f[i - 1], c, ps[i])]
  <2>1. ASSUME NEW i \in 0 .. N
        PROVE  Reached(s, at(i), c) = IF i = 0 THEN first ELSE Fed(f[i - 1], c, ps[i])
    <3>1. CASE i = 0
      BY <1>3, <1>4, <3>1
    <3>2. CASE i # 0
      <4>1. i \in 1 .. N /\ i - 1 \in 0 .. N
        BY <1>3, <3>2
      <4>2. f[i - 1] = Reached(s, at(i - 1), c)
        BY <1>2, <4>1
      <4> QED
        BY <1>5, <3>2, <4>1, <4>2
    <3> QED
      BY <3>1, <3>2
  <2> QED
    BY <1>2, <2>1
<1> HIDE DEF f
<1> DEFINE g == CHOOSE g : g = [i \in 0 .. Len(ps) |->
                                  IF i = 0 THEN first ELSE Fed(g[i - 1], c, ps[i])]
<1>7. g = [i \in 0 .. Len(ps) |-> IF i = 0 THEN first ELSE Fed(g[i - 1], c, ps[i])]
  BY Zenon, <1>6
<1>8. update(inc, c, n) = g[Len(ps)]
  BY Zenon, <1>1 DEF update
<1> HIDE DEF g
<1>9. \A i \in 0 .. N : g[i] = Reached(s, at(i), c)
  <2> DEFINE S == {i \in Nat : i <= N => g[i] = Reached(s, at(i), c)}
  <2>1. 0 \in S
    BY <1>2, <1>3, <1>4, <1>7
  <2>2. ASSUME NEW i \in S PROVE i + 1 \in S
    <3> SUFFICES ASSUME i + 1 <= N PROVE g[i + 1] = Reached(s, at(i + 1), c)
      OBVIOUS
    <3>1. i + 1 \in 1 .. N /\ (i + 1) - 1 = i /\ i <= N
      BY <1>3
    <3>2. g[i] = Reached(s, at(i), c)
      BY <3>1
    <3>3. g[i + 1] = Fed(g[i], c, ps[i + 1])
      BY <1>2, <1>7, <3>1
    <3> QED
      BY <1>5, <3>1, <3>2, <3>3
  <2>3. S = Nat
    <3>1. S \in SUBSET Nat
      OBVIOUS
    <3> HIDE DEF S
    <3> QED
      BY <2>1, <2>2, <3>1, SetInduction
  <2> QED
    BY <1>3, <2>3
<1> QED
  BY <1>1, <1>2, <1>3, <1>8, <1>9

-----------------------------------------------------------------------------
(* Compare.                                                                *)

(* A function on numbers can be given by its value at 0 and each value     *)
(* from the one before.                                                    *)
Iterates(f, N, first, F) ==
    f = [i \in 0 .. N |-> IF i = 0 THEN first ELSE F[<< f[i - 1], i >>]]

LEMMA Recursion ==
    ASSUME NEW X, NEW first \in X, NEW N \in Nat, NEW F \in [X \X (1 .. N) -> X]
    PROVE  \E f \in [0 .. N -> X] : Iterates(f, N, first, F)
<1> DEFINE Good(k, f) == /\ f[0] = first
                         /\ \A i \in 1 .. k : f[i] = F[<< f[i - 1], i >>]
           S == {k \in Nat : k <= N => \E f \in [0 .. k -> X] : Good(k, f)}
<1>1. 0 \in S
  <2>1. [i \in 0 .. 0 |-> first] \in [0 .. 0 -> X] /\ Good(0, [i \in 0 .. 0 |-> first])
    OBVIOUS
  <2> QED
    BY <2>1
<1>2. ASSUME NEW k \in S PROVE k + 1 \in S
  <2> SUFFICES ASSUME k + 1 <= N PROVE \E f \in [0 .. k + 1 -> X] : Good(k + 1, f)
    OBVIOUS
  <2>1. k \in Nat /\ k <= N
    OBVIOUS
  <2>2. PICK f \in [0 .. k -> X] : Good(k, f)
    BY <2>1
  <2>3. PICK x \in X : x = F[<< f[k], k + 1 >>]
    BY <2>1
  <2> DEFINE g == [i \in 0 .. k + 1 |-> IF i = k + 1 THEN x ELSE f[i]]
  <2>4. g \in [0 .. k + 1 -> X]
    BY <2>1
  <2>5. g[0] = first
    BY <2>1, <2>2
  <2>6. ASSUME NEW i \in 1 .. k + 1 PROVE g[i] = F[<< g[i - 1], i >>]
    <3>1. g[i - 1] = f[i - 1]
      BY <2>1
    <3>2. CASE i = k + 1
      <4>1. i - 1 = k /\ g[i] = x
        BY <2>1, <3>2
      <4> QED
        BY Zenon, <2>3, <3>1, <3>2, <4>1
    <3>3. CASE i # k + 1
      <4>1. i \in 1 .. k /\ g[i] = f[i]
        BY <2>1, <3>3
      <4> QED
        BY Zenon, <2>2, <3>1, <4>1
    <3> QED
      BY <3>2, <3>3
  <2> QED
    BY <2>4, <2>5, <2>6
<1>3. S = Nat
  <2>1. S \in SUBSET Nat
    OBVIOUS
  <2> HIDE DEF S
  <2> QED
    BY <1>1, <1>2, <2>1, SetInduction
<1>4. PICK f \in [0 .. N -> X] : Good(N, f)
  <2>1. N \in S
    BY <1>3
  <2> QED
    BY <2>1
<1>5. Iterates(f, N, first, F)
  BY <1>4 DEF Iterates
<1> QED
  BY <1>5
(* The comparison succeeds if the MACs are the first ones that were left,  *)
(* and then leaves the others.                                             *)
Agree(left, macs, i) ==
    i <= Len(left) /\ \A j \in 1 .. i : left[j] = macs[j]

Outcome(left, macs, i, c) ==
    /\ c.ok \in BOOLEAN
    /\ c.ok <=> Agree(left, macs, i)
    /\ c.ok => c.chunks = i /\ c.left = SubSeq(left, i + 1, Len(left))

LEMMA ComparedAgrees ==
    ASSUME NEW V, NEW left \in Seq(V), NEW macs \in Seq(V), NEW i \in Nat,
           i < Len(macs), NEW c, Outcome(left, macs, i, c)
    PROVE  Outcome(left, macs, i + 1, Compared(c, macs[i + 1]))
<1>1. PICK L \in Nat : L = Len(left)
  OBVIOUS
<1>2. PICK d : d = Compared(c, macs[i + 1])
  OBVIOUS
<1>3. c.ok \in BOOLEAN /\ (c.ok <=> Agree(left, macs, i))
  BY DEF Outcome
<1>4. CASE ~c.ok
  <2>1. ~Agree(left, macs, i + 1)
    BY <1>1, <1>3, <1>4 DEF Agree
  <2>2. ~d.ok /\ d.ok \in BOOLEAN
    BY <1>2, <1>3, <1>4 DEF Compared
  <2> QED
    BY <1>2, <2>1, <2>2 DEF Outcome
<1>5. CASE c.ok
  <2>1. Agree(left, macs, i) /\ c.chunks = i /\ c.left = SubSeq(left, i + 1, L)
    BY <1>1, <1>5 DEF Outcome
  <2>2. i <= L /\ \A j \in 1 .. i : left[j] = macs[j]
    BY <1>1, <2>1 DEF Agree
  <2>3. CASE i = L
    <3>1. c.left = << >>
      BY <1>1, <2>1, <2>3
    <3>2. ~d.ok /\ d.ok \in BOOLEAN
      BY <1>2, <3>1 DEF Compared
    <3>3. ~Agree(left, macs, i + 1)
      BY <1>1, <2>3 DEF Agree
    <3> QED
      BY <1>2, <3>2, <3>3 DEF Outcome
  <2>4. CASE i < L
    <3>1. /\ c.left # << >> /\ Head(c.left) = left[i + 1]
          /\ Tail(c.left) = SubSeq(left, i + 2, L)
      <4>1. PICK m : m = SubSeq(left, i + 1, L)
        OBVIOUS
      <4>2. m \in Seq(V) /\ Len(m) = L - i /\ \A j \in 1 .. L - i : m[j] = left[i + j]
        BY <1>1, <2>4, <4>1
      <4>3. Head(m) = left[i + 1] /\ m # << >>
        BY <2>4, <4>2
      <4>4. Tail(m) = SubSeq(left, i + 2, L)
        BY <1>1, <2>4, <4>1, <4>2, <4>3
      <4> QED
        BY <2>1, <4>1, <4>3, <4>4
    <3>2. CASE left[i + 1] = macs[i + 1]
      <4>1. d = [left |-> SubSeq(left, i + 2, L), chunks |-> i + 1, ok |-> c.ok]
        BY <1>2, <2>1, <3>1, <3>2 DEF Compared
      <4>2. Agree(left, macs, i + 1)
        BY <1>1, <2>2, <2>4, <3>2 DEF Agree
      <4>3. (i + 1) + 1 = i + 2
        OBVIOUS
      <4>4. d.ok \in BOOLEAN /\ d.ok /\ d.chunks = i + 1
            /\ d.left = SubSeq(left, (i + 1) + 1, Len(left))
        BY <1>1, <1>3, <1>5, <4>1, <4>3
      <4> QED
        BY <1>2, <4>2, <4>4 DEF Outcome
    <3>3. CASE left[i + 1] # macs[i + 1]
      <4>1. ~d.ok /\ d.ok \in BOOLEAN
        BY <1>2, <3>1, <3>3 DEF Compared
      <4>2. ~Agree(left, macs, i + 1)
        BY <3>3 DEF Agree
      <4> QED
        BY <1>2, <4>1, <4>2 DEF Outcome
    <3> QED
      BY <3>2, <3>3
  <2> QED
    BY <1>1, <2>2, <2>3, <2>4
<1> QED
  BY <1>3, <1>4, <1>5

LEMMA CompareIs ==
    ASSUME NEW V, NEW left \in Seq(V), NEW macs \in Seq(V)
    PROVE  Outcome(left, macs, Len(macs), Compare(left, macs))
<1>1. PICK N \in Nat : N = Len(macs)
  OBVIOUS
<1> DEFINE X == [left : Seq(V), chunks : Nat, ok : BOOLEAN]
           first == [left |-> left, chunks |-> 0, ok |-> TRUE]
           F == [p \in X \X (1 .. N) |-> Compared(p[1], macs[p[2]])]
<1>2. F \in [X \X (1 .. N) -> X]
  <2>1. ASSUME NEW x \in X, NEW m PROVE Compared(x, m) \in X
    <3>1. x.left \in Seq(V) /\ x.chunks \in Nat /\ x.ok \in BOOLEAN
      OBVIOUS
    <3>2. x.left # << >> => Tail(x.left) \in Seq(V)
      BY <3>1
    <3> QED
      BY <3>1, <3>2 DEF Compared
  <2> HIDE DEF X
  <2> QED
    BY <2>1
<1>3. first \in X
  OBVIOUS
<1>4. PICK f \in [0 .. N -> X] : Iterates(f, N, first, F)
  <2> HIDE DEF X, first, F
  <2> QED
    BY Zenon, <1>2, <1>3, Recursion
<1>5. f = [i \in 0 .. Len(macs) |-> IF i = 0 THEN first ELSE Compared(f[i - 1], macs[i])]
  <2>1. ASSUME NEW i \in 1 .. N PROVE F[<< f[i - 1], i >>] = Compared(f[i - 1], macs[i])
    <3>1. i - 1 \in 0 .. N
      OBVIOUS
    <3>2. << f[i - 1], i >> \in X \X (1 .. N)
      BY <1>4, <3>1
    <3> HIDE DEF X
    <3> QED
      BY <3>2
  <2> HIDE DEF X, first, F
  <2>2. ASSUME NEW i \in 0 .. N
        PROVE  (IF i = 0 THEN first ELSE F[<< f[i - 1], i >>])
                 = IF i = 0 THEN first ELSE Compared(f[i - 1], macs[i])
    BY <2>1
  <2> QED
    BY <1>1, <1>4, <2>2 DEF Iterates
<1> DEFINE g == CHOOSE g : g = [i \in 0 .. Len(macs) |->
                                  IF i = 0 THEN first ELSE Compared(g[i - 1], macs[i])]
<1>6. g = [i \in 0 .. Len(macs) |-> IF i = 0 THEN first ELSE Compared(g[i - 1], macs[i])]
  BY Zenon, <1>5
<1>7. Compare(left, macs) = g[Len(macs)]
  BY Zenon DEF Compare
<1> HIDE DEF g
<1> DEFINE S == {i \in Nat : i <= N => Outcome(left, macs, i, g[i])}
<1>8. 0 \in S
  <2>1. g[0] = first
    BY <1>1, <1>6
  <2>2. Agree(left, macs, 0) /\ SubSeq(left, 0 + 1, Len(left)) = left
    BY DEF Agree
  <2>3. Outcome(left, macs, 0, first)
    BY <2>2 DEF Outcome
  <2> HIDE DEF first
  <2> QED
    BY <2>1, <2>3
<1>9. ASSUME NEW i \in S PROVE i + 1 \in S
  <2> SUFFICES ASSUME i + 1 <= N PROVE Outcome(left, macs, i + 1, g[i + 1])
    OBVIOUS
  <2>1. i \in Nat /\ i < N /\ i + 1 \in 1 .. N /\ (i + 1) - 1 = i
    OBVIOUS
  <2>2. Outcome(left, macs, i, g[i])
    BY <2>1
  <2>3. g[i + 1] = Compared(g[i], macs[i + 1])
    <3>1. i + 1 \in 0 .. Len(macs) /\ i + 1 # 0
      BY <1>1, <2>1
    <3> HIDE DEF first
    <3> QED
      BY <1>6, <2>1, <3>1
  <2> QED
    BY <1>1, <2>1, <2>2, <2>3, ComparedAgrees
<1>10. S = Nat
  <2>1. S \in SUBSET Nat
    OBVIOUS
  <2> HIDE DEF S
  <2> QED
    BY <1>8, <1>9, <2>1, SetInduction
<1> QED
  BY <1>1, <1>7, <1>10
-----------------------------------------------------------------------------
(* The inductive invariant.                                                *)

AllMacs == Append(ReferenceMacs(size), SenderMac(size))

Sizes ==
    /\ size \in 0 .. MaxData
    /\ chunk_size = calculate_chunk_size(size)

(* Each side's Incremental is where the bytes it has taken put it.         *)
TakesBytes ==
    /\ producer.mac \in 0 .. size
    /\ producer = Taken(producer.mac, chunk_size)
    /\ validator.mac \in Nat
    /\ validator = Taken(validator.mac, chunk_size)

Produces ==
    /\ phase \in {"produce", "validate", "done", "error"}
    /\ phase = "produce" => /\ validator.mac = 0 /\ validated = 0
                            /\ produced = ReferenceMacs(producer.mac)
    /\ phase # "produce" => produced = AllMacs

Arrives ==
    phase # "produce" => /\ received \in Nat
                         /\ differs \in 1 .. size + 1
                         /\ validator.mac <= received
                         /\ arrived \in Arriving(AllMacs)

(* The receiver has compared the MAC of each whole chunk that it was fed   *)
(* with the one that arrived in its place, and expects the others.         *)
Validates ==
    phase = "validate" =>
        LET k == validator.mac \div chunk_size
        IN  /\ k <= Len(arrived)
            /\ expected = SubSeq(arrived, k + 1, Len(arrived))
            /\ \A i \in 1 .. k : arrived[i] = ReceiverMac(i * chunk_size)
            /\ validated = k * chunk_size

MacInv ==
    Sizes /\ TakesBytes /\ Produces /\ Arrives /\ Validates /\ ValidatedIsSent
          /\ IntactAccepted
-----------------------------------------------------------------------------
(* The MACs sent and those that arrive.                                    *)

Macs == [length : Nat, intact : BOOLEAN]

LEMMA FunctionIsSeq ==
    ASSUME NEW V, NEW n \in Nat, NEW f \in [1 .. n -> V]
    PROVE  f \in Seq(V) /\ Len(f) = n
OBVIOUS

LEMMA Concatenation ==
    ASSUME NEW V, NEW f \in Seq(V), NEW g \in Seq(V), NEW p \in Nat, NEW d \in Nat,
           Len(f) = p, Len(g) = d
    PROVE  f \o g = [i \in 1 .. p + d |-> IF i <= p THEN f[i] ELSE g[i - p]]
<1>1. PICK h : h = f \o g
  OBVIOUS
<1>2. h \in Seq(V) /\ Len(h) = p + d
  <2>1. f \o g \in Seq(V)
    OBVIOUS
  <2>2. Len(f \o g) = Len(f) + Len(g)
    OBVIOUS
  <2> QED
    BY Zenon, <1>1, <2>1, <2>2
<1>3. \A i \in 1 .. p + d : h[i] = IF i <= p THEN f[i] ELSE g[i - p]
  BY <1>1
<1>4. h = [i \in 1 .. p + d |-> h[i]]
  BY <1>2
<1> QED
  BY Zenon, <1>1, <1>3, <1>4

(* Further bytes add the MACs of the whole chunks that they complete.      *)
LEMMA ReferenceGrows ==
    ASSUME chunk_size \in Nat \ {0}, NEW s \in Nat, NEW n \in Nat
    PROVE  ReferenceMacs(s + n)
             = ReferenceMacs(s) \o SenderMacs(Reached(s, s + n, chunk_size).lengths)
<1>1. PICK c \in Nat \ {0} : c = chunk_size
  OBVIOUS
<1>2. PICK p, q : p = s \div c /\ q = (s + n) \div c
  OBVIOUS
<1>3. p \in Nat /\ q \in Nat /\ p <= q
  BY <1>2, Division, DivisionGrows
<1>4. PICK d \in Nat : q = p + d
  <2>1. q - p \in Nat /\ q = p + (q - p)
    BY <1>3
  <2> QED
    BY <2>1
<1>5. PICK old, new, add : /\ old = ReferenceMacs(s) /\ new = ReferenceMacs(s + n)
                           /\ add = SenderMacs(Reached(s, s + n, c).lengths)
  OBVIOUS
<1>6. old = [i \in 1 .. p |-> SenderMac(i * c)] /\ new = [i \in 1 .. p + d |-> SenderMac(i * c)]
  BY <1>1, <1>2, <1>4, <1>5 DEF ReferenceMacs
<1>7. add = [i \in 1 .. d |-> SenderMac((p + i) * c)]
  <2>1. PICK l : l = Reached(s, s + n, c).lengths
    OBVIOUS
  <2>2. l = [k \in 1 .. q - p |-> (p + k) * c]
    BY <1>2, <2>1 DEF Reached
  <2>3. q - p = d
    BY <1>3, <1>4
  <2>4. l = [k \in 1 .. d |-> (p + k) * c]
    BY Zenon, <2>2, <2>3
  <2>5. add = [i \in DOMAIN l |-> SenderMac(l[i])]
    BY <1>5, <2>1 DEF SenderMacs
  <2> QED
    BY <2>4, <2>5
<1>8. \A i \in 1 .. p + d : SenderMac(i * c) \in Macs
  <2>1. \A i \in 1 .. p + d : i * c \in Nat
    BY <1>3
  <2> QED
    BY <2>1 DEF SenderMac, Macs
<1>9. old \in Seq(Macs) /\ Len(old) = p
  <2>1. \A i \in 1 .. p : SenderMac(i * c) \in Macs
    BY <1>3, <1>8
  <2>2. old \in [1 .. p -> Macs]
    BY Zenon, <1>6, <2>1
  <2> QED
    BY <1>3, <2>2, FunctionIsSeq
<1>10. add \in Seq(Macs) /\ Len(add) = d
  <2>1. \A i \in 1 .. d : p + i \in 1 .. p + d
    BY <1>3
  <2> QED
    BY <1>7, <1>8, <2>1
<1>11. old \o add = [i \in 1 .. p + d |-> IF i <= p THEN old[i] ELSE add[i - p]]
  BY <1>3, <1>9, <1>10, Concatenation
<1>12. \A i \in 1 .. p + d :
          SenderMac(i * c) = IF i <= p THEN old[i] ELSE add[i - p]
  <2>1. ASSUME NEW i \in 1 .. p + d, ~(i <= p) PROVE add[i - p] = SenderMac(i * c)
    <3>1. i - p \in 1 .. d /\ p + (i - p) = i
      BY <1>3, <2>1
    <3> QED
      BY <1>7, <3>1
  <2>2. ASSUME NEW i \in 1 .. p + d, i <= p PROVE old[i] = SenderMac(i * c)
    BY <1>3, <1>6, <2>2
  <2> QED
    BY <2>1, <2>2
<1> QED
  BY <1>1, <1>5, <1>6, <1>11, <1>12

LEMMA AllMacsAre ==
    ASSUME chunk_size \in Nat \ {0}, size \in Nat, NEW q, q = size \div chunk_size
    PROVE  /\ q \in Nat
           /\ AllMacs \in Seq(Macs) /\ Len(AllMacs) = q + 1
           /\ \A i \in 1 .. q : AllMacs[i] = SenderMac(i * chunk_size)
           /\ AllMacs[q + 1] = SenderMac(size)
           /\ \A i \in 1 .. q + 1 :
                 AllMacs[i].intact /\ AllMacs[i].length \in 0 .. size
<1>1. PICK c \in Nat \ {0} : c = chunk_size
  OBVIOUS
<1>2. PICK r : r = size % c
  OBVIOUS
<1>3. q \in Nat /\ r \in Nat /\ size = q * c + r
  BY <1>1, <1>2, Division
<1>4. \A i \in 1 .. q : i * c \in Nat /\ i * c <= size
  BY <1>3
<1>5. PICK ref, all : ref = ReferenceMacs(size) /\ all = AllMacs
  OBVIOUS
<1>6. ref = [i \in 1 .. q |-> SenderMac(i * c)]
  BY <1>1, <1>5 DEF ReferenceMacs
<1>7. (\A i \in 1 .. q : SenderMac(i * c) \in Macs) /\ SenderMac(size) \in Macs
  BY <1>4 DEF SenderMac, Macs
<1>8. ref \in Seq(Macs) /\ Len(ref) = q
  <2>1. ref \in [1 .. q -> Macs]
    BY Zenon, <1>6, <1>7
  <2> QED
    BY <1>3, <2>1, FunctionIsSeq
<1>9. all = Append(ref, SenderMac(size))
  BY <1>5 DEF AllMacs
<1>10. /\ all \in Seq(Macs) /\ Len(all) = q + 1
       /\ \A i \in 1 .. q : all[i] = SenderMac(i * c)
       /\ all[q + 1] = SenderMac(size)
  BY <1>3, <1>6, <1>7, <1>8, <1>9
<1>11. \A i \in 1 .. q + 1 : all[i].intact /\ all[i].length \in 0 .. size
  <2>1. \A i \in 1 .. q + 1 : i \in 1 .. q \/ i = q + 1
    BY <1>3
  <2>2. ASSUME NEW i \in 1 .. q PROVE all[i].intact /\ all[i].length \in 0 .. size
    <3>1. PICK t \in Nat : t = i * c /\ t <= size
      BY <1>4
    <3>2. all[i] = SenderMac(t)
      BY <1>10, <3>1
    <3> QED
      BY <3>1, <3>2 DEF SenderMac
  <2>3. all[q + 1].intact /\ all[q + 1].length \in 0 .. size
    BY <1>10 DEF SenderMac
  <2> QED
    BY <2>1, <2>2, <2>3
<1> QED
  BY <1>1, <1>3, <1>5, <1>10, <1>11

LEMMA DamagedIsMac == Damaged \in Macs
BY DEF Damaged, Macs

(* What the transport may do to the MACs: all that arrives undamaged was   *)
(* sent.                                                                   *)
LEMMA ArrivingFacts ==
    ASSUME NEW V, NEW m \in Seq(V), NEW a \in Arriving(m), Damaged \in V
    PROVE  /\ a \in Seq(V)
           /\ \A j \in 1 .. Len(a) :
                 a[j] = Damaged \/ \E i \in 1 .. Len(m) : a[j] = m[i]
<1>1. PICK W : W = ToSet(m) \cup {Damaged}
  OBVIOUS
<1>2. W \subseteq V /\ \A w \in W : w = Damaged \/ \E i \in 1 .. Len(m) : w = m[i]
  BY <1>1 DEF ToSet
<1>3. Len(m) + MaxExtraMacs \in Nat
  BY DataAssumption
<1>4. PICK N \in Nat : a \in [1 .. N -> W]
  BY <1>1, <1>3 DEF Arriving, SeqOf
<1>5. a \in Seq(W) /\ Len(a) = N
  BY <1>4, FunctionIsSeq
<1>6. a \in Seq(V)
  BY <1>2, <1>5
<1>7. \A j \in 1 .. Len(a) : a[j] \in W
  BY <1>4, <1>5
<1> QED
  BY Zenon, <1>2, <1>6, <1>7
-----------------------------------------------------------------------------
(* The steps.                                                              *)

LEMMA MacTypes ==
    ASSUME MacInv
    PROVE  /\ chunk_size \in Nat \ {0} /\ size \in Nat
           /\ producer.mac \in Nat /\ producer.mac <= size /\ validator.mac \in Nat
           /\ producer = Taken(producer.mac, chunk_size)
           /\ validator = Taken(validator.mac, chunk_size)
<1>1. size \in Nat
  BY DataAssumption DEF MacInv, Sizes
<1> QED
  BY <1>1, ChunkSize DEF MacInv, Sizes, TakesBytes

LEMMA MacInit == Init => MacInv
<1> SUFFICES ASSUME Init PROVE MacInv
  OBVIOUS
<1>1. size \in Nat /\ size \in 0 .. MaxData
  BY DataAssumption DEF Init
<1>2. chunk_size \in Nat \ {0} /\ chunk_size = calculate_chunk_size(size)
  BY <1>1, ChunkSize DEF Init
<1>3. producer = Taken(0, chunk_size) /\ validator = Taken(0, chunk_size)
  BY <1>2, NewIsTaken DEF Init
<1>4. producer.mac = 0 /\ validator.mac = 0
  BY <1>3 DEF Taken
<1>5. ReferenceMacs(0) = << >>
  <2>1. 0 \div chunk_size = 0
    BY <1>2, DivisionIs
  <2>2. ReferenceMacs(0) = [i \in 1 .. 0 |-> SenderMac(i * chunk_size)]
    BY Zenon, <2>1 DEF ReferenceMacs
  <2> QED
    BY <2>2
<1>6. phase = "produce" /\ validated = 0 /\ produced = << >>
  BY DEF Init
<1>7. Sizes
  BY <1>1, <1>2 DEF Sizes
<1>8. TakesBytes
  BY <1>1, <1>3, <1>4 DEF TakesBytes
<1>9. Produces
  BY <1>4, <1>5, <1>6 DEF Produces
<1>10. Arrives /\ Validates /\ IntactAccepted /\ ValidatedIsSent
  BY <1>4, <1>6 DEF Arrives, Validates, IntactAccepted, ValidatedIsSent
<1> QED
  BY <1>7, <1>8, <1>9, <1>10 DEF MacInv

LEMMA MacProduce ==
    ASSUME MacInv, NEW n \in Nat, produce(n)
    PROVE  MacInv'
<1>1. PICK s, c : s = producer.mac /\ c = chunk_size
  OBVIOUS
<1>2. c \in Nat \ {0} /\ size \in Nat /\ s \in Nat /\ s + n <= size
      /\ producer = Taken(s, c) /\ validator.mac \in Nat
  BY <1>1, MacTypes DEF produce
<1>3. phase = "produce" /\ phase' = "produce"
      /\ UNCHANGED << chunk_size, size, received, differs, validator, arrived, expected,
                      validated >>
  BY DEF produce
<1>4. update(producer, chunk_size, n) = Reached(s, s + n, c)
  <2>1. update(Taken(s, c), c, n) = Reached(s, s + n, c)
    BY <1>2, UpdateReaches
  <2> QED
    BY Zenon, <1>1, <1>2, <2>1
<1>5. producer' = Taken(s + n, c)
  BY <1>4 DEF produce, Reached
<1>6. produced' = produced \o SenderMacs(Reached(s, s + n, c).lengths)
  BY <1>4 DEF produce
<1>7. produced = ReferenceMacs(s) /\ validator.mac = 0 /\ validated = 0
  BY <1>1, <1>3 DEF MacInv, Produces
<1>8. produced' = ReferenceMacs(s + n)
  BY Zenon, <1>1, <1>2, <1>6, <1>7, ReferenceGrows
<1>9. producer'.mac = s + n
  BY <1>5 DEF Taken
<1>10. ReferenceMacs(producer.mac)' = ReferenceMacs(s + n)
  BY <1>3, <1>9 DEF ReferenceMacs
<1>11. Sizes'
  BY <1>3 DEF MacInv, Sizes
<1>12. TakesBytes'
  <2>1. producer'.mac \in 0 .. size' /\ producer' = Taken(producer'.mac, chunk_size')
    <3>1. s + n \in 0 .. size
      BY <1>2
    <3> QED
      BY Zenon, <1>1, <1>3, <1>5, <1>9, <3>1
  <2> QED
    BY <1>3, <2>1 DEF MacInv, TakesBytes, Taken
<1>13. Produces'
  BY <1>3, <1>7, <1>8, <1>10 DEF Produces
<1>14. Arrives' /\ Validates' /\ IntactAccepted' /\ ValidatedIsSent'
  BY <1>2, <1>3, <1>7 DEF Arrives, Validates, IntactAccepted, ValidatedIsSent
<1> QED
  BY <1>11, <1>12, <1>13, <1>14 DEF MacInv

LEMMA MacFinalize ==
    ASSUME MacInv, finalize
    PROVE  MacInv'
<1>1. phase = "produce" /\ phase' = "validate" /\ producer.mac = size
      /\ UNCHANGED << chunk_size, size, producer, validator, validated >>
  BY DEF finalize
<1>2. chunk_size \in Nat \ {0} /\ size \in Nat /\ validator.mac = 0 /\ validated = 0
  BY <1>1, MacTypes DEF MacInv, Produces
<1>3. produced' = AllMacs /\ arrived' \in Arriving(AllMacs) /\ expected' = arrived'
      /\ received' \in Nat /\ differs' \in 1 .. size + 1
  <2>1. Append(produced, SenderMac(producer.mac)) = AllMacs
    BY <1>1 DEF MacInv, Produces, AllMacs
  <2> QED
    BY <1>2, <2>1, DataAssumption DEF finalize
<1>4. AllMacs' = AllMacs
  BY <1>1 DEF AllMacs, ReferenceMacs
<1>5. Sizes'
  BY <1>1 DEF MacInv, Sizes
<1>6. TakesBytes'
  BY <1>1 DEF MacInv, TakesBytes, Taken
<1>7. Produces'
  BY <1>1, <1>3, <1>4 DEF Produces
<1>8. Arrives'
  BY <1>1, <1>2, <1>3, <1>4 DEF Arrives
<1>9. 0 \div chunk_size = 0
  BY <1>2, DivisionIs
<1>10. Validates'
  <2>1. PICK a : a = arrived'
    OBVIOUS
  <2>2. a \in Seq(Macs)
    <3>1. AllMacs \in Seq(Macs)
      BY <1>2, AllMacsAre
    <3> QED
      BY <1>3, <2>1, <3>1, DamagedIsMac, ArrivingFacts
  <2>3. 0 <= Len(a) /\ a = SubSeq(a, 0 + 1, Len(a)) /\ 0 = 0 * chunk_size
    BY <1>2, <2>2
  <2>4. (validator.mac \div chunk_size)' = 0
    BY <1>1, <1>2, <1>9
  <2>5. \A i \in 1 .. 0 : a[i] = ReceiverMac(i * chunk_size)'
    OBVIOUS
  <2>6. expected' = a /\ arrived' = a /\ validated' = 0 /\ chunk_size' = chunk_size
    BY <1>1, <1>2, <1>3, <2>1
  <2>7. (validator.mac \div chunk_size)' <= Len(arrived')
    BY <2>1, <2>3, <2>4
  <2>8. expected' = SubSeq(arrived', (validator.mac \div chunk_size)' + 1, Len(arrived'))
    BY Zenon, <2>3, <2>4, <2>6
  <2>9. \A i \in 1 .. (validator.mac \div chunk_size)' :
           arrived'[i] = ReceiverMac(i * chunk_size)'
    BY <2>4
  <2>10. validated' = (validator.mac \div chunk_size)' * chunk_size'
    BY Zenon, <2>3, <2>4, <2>6
  <2> QED
    BY <2>7, <2>8, <2>9, <2>10 DEF Validates
<1>11. ValidatedIsSent'
  BY <1>1, <1>2 DEF ValidatedIsSent
<1>12. IntactAccepted'
  BY <1>1, <1>2, <1>9 DEF IntactAccepted
<1> QED
  BY <1>5, <1>6, <1>7, <1>8, <1>10, <1>11, <1>12 DEF MacInv
LEMMA Rest ==
    ASSUME NEW V, NEW m \in Seq(V), NEW N \in Nat, N = Len(m), NEW p \in Nat, p <= N
    PROVE  /\ SubSeq(m, p + 1, N) \in Seq(V)
           /\ Len(SubSeq(m, p + 1, N)) = N - p
           /\ \A j \in 1 .. N - p : SubSeq(m, p + 1, N)[j] = m[p + j]
<1>1. PICK f : f = SubSeq(m, p + 1, N)
  OBVIOUS
<1>2. PICK d \in Nat : d = N - p /\ N = p + d
  <2>1. N - p \in Nat /\ N = p + (N - p)
    OBVIOUS
  <2> QED
    BY Zenon, <2>1
<1>3. f = [j \in 1 .. d |-> m[p + j]]
  <2>1. f = [j \in 1 .. (1 + N - (p + 1)) |-> m[(j + (p + 1)) - 1]]
    BY <1>1
  <2>2. 1 + N - (p + 1) = d /\ \A j \in 1 .. d : (j + (p + 1)) - 1 = p + j
    BY <1>2
  <2> QED
    BY <2>1, <2>2
<1>4. \A j \in 1 .. d : p + j \in 1 .. N /\ m[p + j] \in V
  BY <1>2
<1>5. f \in [1 .. d -> V]
  BY Zenon, <1>3, <1>4
<1>6. f \in Seq(V) /\ Len(f) = d
  BY <1>5, FunctionIsSeq
<1> QED
  BY Zenon, <1>1, <1>2, <1>3, <1>6

(* Whatever arrives undamaged is one of the MACs sent.                     *)
LEMMA ArrivedIsSent ==
    ASSUME MacInv, phase # "produce"
    PROVE  /\ arrived \in Seq(Macs) /\ AllMacs \in Seq(Macs)
           /\ \A j \in 1 .. Len(arrived) :
                 \/ arrived[j] = Damaged
                 \/ \E i \in 1 .. Len(AllMacs) : arrived[j] = AllMacs[i]
<1>1. arrived \in Arriving(AllMacs)
  BY DEF MacInv, Arrives
<1>2. AllMacs \in Seq(Macs)
  BY MacTypes, AllMacsAre
<1>3. PICK a, all : a = arrived /\ all = AllMacs
  OBVIOUS
<1>4. all \in Seq(Macs) /\ a \in Arriving(all)
  BY <1>1, <1>2, <1>3
<1>5. /\ a \in Seq(Macs)
      /\ \A j \in 1 .. Len(a) :
            a[j] = Damaged \/ \E i \in 1 .. Len(all) : a[j] = all[i]
  BY <1>4, DamagedIsMac, ArrivingFacts
<1> QED
  BY Zenon, <1>2, <1>3, <1>5

(* A MAC that arrived and is that of x bytes of the receiver's data is the *)
(* sender's of x bytes, of all its data or of whole chunks, and the two do *)
(* not differ there.                                                       *)
LEMMA MatchedIsSent ==
    ASSUME MacInv, phase # "produce", NEW j \in 1 .. Len(arrived), NEW x \in Nat,
           arrived[j] = ReceiverMac(x)
    PROVE  /\ x < differs /\ x <= size
           /\ x \in {size} \cup {i * chunk_size : i \in 1 .. size \div chunk_size}
           /\ arrived[j] = SenderMac(x)
<1>1. PICK m : m = arrived[j]
  OBVIOUS
<1>2. differs \in Nat /\ differs > 0
  BY MacTypes DEF MacInv, Arrives
<1>3. PICK b : b = (x < differs)
  OBVIOUS
<1>4. m = [length |-> x, intact |-> b]
  BY Zenon, <1>1, <1>3 DEF ReceiverMac
<1>5. m # Damaged
  <2> SUFFICES ASSUME m = Damaged PROVE FALSE
    OBVIOUS
  <2>1. x = 0 /\ b = FALSE
    BY <1>4 DEF Damaged
  <2> QED
    BY <1>2, <1>3, <2>1
<1>6. PICK q : q = size \div chunk_size
  OBVIOUS
<1>7. /\ q \in Nat /\ Len(AllMacs) = q + 1
      /\ \A i \in 1 .. q : AllMacs[i] = SenderMac(i * chunk_size)
      /\ AllMacs[q + 1] = SenderMac(size)
      /\ \A i \in 1 .. q + 1 : AllMacs[i].intact /\ AllMacs[i].length \in 0 .. size
  BY <1>6, MacTypes, AllMacsAre
<1>8. PICK i \in 1 .. q + 1 : m = AllMacs[i]
  BY <1>1, <1>5, <1>7, ArrivedIsSent
<1>9. m.intact /\ m.length = x /\ x <= size
  BY <1>4, <1>7, <1>8, MacTypes
<1>10. x < differs /\ b = TRUE
  <2>1. m.intact = b
    BY <1>4
  <2>2. b
    BY Zenon, <1>9, <2>1
  <2> QED
    BY Zenon, <1>3, <2>2
<1>11. m = SenderMac(x)
  BY Zenon, <1>4, <1>10 DEF SenderMac
<1>12. x \in {size} \cup {h * chunk_size : h \in 1 .. q}
  <2>1. CASE i = q + 1
    BY <1>7, <1>8, <1>9, <2>1 DEF SenderMac
  <2>2. CASE i # q + 1
    <3>1. i \in 1 .. q
      BY <1>7, <2>2
    <3>2. PICK y : y = i * chunk_size
      OBVIOUS
    <3>3. m = SenderMac(y)
      BY <1>7, <1>8, <3>1, <3>2
    <3>4. x = y
      BY <1>9, <3>3 DEF SenderMac
    <3> QED
      BY Zenon, <3>1, <3>2, <3>4
  <2> QED
    BY <2>1, <2>2
<1> QED
  BY Zenon, <1>1, <1>6, <1>9, <1>10, <1>11, <1>12

LEMMA MacUpdate ==
    ASSUME MacInv, NEW n \in Nat, validating_update(n)
    PROVE  MacInv'
<1>1. PICK s, c, t : s = validator.mac /\ c = chunk_size /\ t = s + n
  OBVIOUS
<1>2. c \in Nat \ {0} /\ size \in Nat /\ s \in Nat /\ t \in Nat
      /\ validator = Taken(s, c)
  BY <1>1, MacTypes
<1>3. phase = "validate" /\ t <= received /\ phase' \in {"validate", "error"}
      /\ UNCHANGED << chunk_size, size, produced, producer, received, differs, arrived >>
  BY <1>1 DEF validating_update
<1>4. update(validator, chunk_size, n) = Reached(s, t, c)
  <2>1. update(Taken(s, c), c, n) = Reached(s, s + n, c)
    BY <1>2, UpdateReaches
  <2> QED
    BY Zenon, <1>1, <1>2, <2>1
<1>5. PICK rm : rm = ReceiverMacs(Reached(s, t, c).lengths)
  OBVIOUS
<1>6. PICK cmp : cmp = Compare(expected, rm)
  OBVIOUS
<1>7. /\ validator' = Taken(t, c)
      /\ expected' = cmp.left
      /\ validated' = IF cmp.ok THEN validated + cmp.chunks * c ELSE validated
      /\ phase' = IF cmp.ok THEN "validate" ELSE "error"
  <2>1. Reached(s, t, c).inc = Taken(t, c)
    BY DEF Reached
  <2>2. LET u == update(validator, chunk_size, n)
            d == Compare(expected, ReceiverMacs(u.lengths))
        IN  /\ validator' = u.inc
            /\ expected' = d.left
            /\ validated' = IF d.ok THEN validated + d.chunks * chunk_size ELSE validated
            /\ phase' = IF d.ok THEN "validate" ELSE "error"
    BY DEF validating_update
  <2> QED
    BY Zenon, <1>1, <1>4, <1>5, <1>6, <2>1, <2>2
<1>8. PICK k, l : k = s \div c /\ l = t \div c
  OBVIOUS
<1>9. k \in Nat /\ l \in Nat /\ k <= l /\ k * c <= s /\ l * c <= t
  <2>1. s <= t
    BY <1>1, <1>2
  <2>2. k \in Nat /\ l \in Nat /\ k <= l
    BY <1>2, <1>8, <2>1, Division, DivisionGrows
  <2>3. PICK r1 \in Nat, r2 \in Nat : r1 = s % c /\ r2 = t % c
    BY <1>2, Division
  <2>4. s = k * c + r1 /\ t = l * c + r2
    BY <1>2, <1>8, <2>3, Division
  <2> QED
    BY <1>2, <2>2, <2>3, <2>4
<1>10. PICK d \in Nat : l = k + d
  <2>1. l - k \in Nat /\ l = k + (l - k)
    BY <1>9
  <2> QED
    BY <2>1
<1>11. rm = [i \in 1 .. d |-> ReceiverMac((k + i) * c)]
  <2>1. PICK ls : ls = Reached(s, t, c).lengths
    OBVIOUS
  <2>2. ls = [i \in 1 .. l - k |-> (k + i) * c] /\ l - k = d
    BY <1>8, <1>9, <1>10, <2>1 DEF Reached
  <2>3. ls = [i \in 1 .. d |-> (k + i) * c]
    BY Zenon, <2>2
  <2>4. rm = [i \in DOMAIN ls |-> ReceiverMac(ls[i])]
    BY <1>5, <2>1 DEF ReceiverMacs
  <2> QED
    BY <2>3, <2>4
<1>12. \A i \in 1 .. l : i * c \in Nat /\ i * c <= t
  <2>1. ASSUME NEW i \in 1 .. l PROVE i * c <= l * c /\ i * c \in Nat
    BY <1>2, <1>9
  <2> QED
    BY <1>2, <1>9, <2>1
<1>13. \A i \in 1 .. d : k + i \in 1 .. l
  BY <1>9, <1>10
<1>14. rm \in Seq(Macs) /\ Len(rm) = d
  <2>1. \A i \in 1 .. d : ReceiverMac((k + i) * c) \in Macs
    <3>1. ASSUME NEW i \in 1 .. l PROVE ReceiverMac(i * c) \in Macs
      BY <1>12 DEF ReceiverMac, Macs
    <3> QED
      BY Zenon, <1>13, <3>1
  <2>2. rm \in [1 .. d -> Macs]
    BY Zenon, <1>11, <2>1
  <2> QED
    BY <2>2, FunctionIsSeq
<1>15. PICK a, N : a = arrived /\ N = Len(arrived)
  OBVIOUS
<1>16. a \in Seq(Macs) /\ N \in Nat /\ N = Len(a)
  <2>1. phase # "produce"
    BY <1>3
  <2> QED
    BY <1>15, <2>1, ArrivedIsSent
<1>17. /\ k <= N
       /\ expected = SubSeq(a, k + 1, N)
       /\ \A i \in 1 .. k : a[i] = ReceiverMac(i * c)
       /\ validated = k * c
  BY <1>1, <1>3, <1>8, <1>15 DEF MacInv, Validates
<1>18. expected \in Seq(Macs) /\ Len(expected) = N - k
       /\ \A j \in 1 .. N - k : expected[j] = a[k + j]
  <2>1. PICK e : e = SubSeq(a, k + 1, N)
    OBVIOUS
  <2>2. e \in Seq(Macs) /\ Len(e) = N - k /\ \A j \in 1 .. N - k : e[j] = a[k + j]
    <3>1. a \in Seq(Macs) /\ N \in Nat /\ N = Len(a) /\ k \in Nat /\ k <= N
      BY <1>9, <1>16, <1>17
    <3>2. /\ SubSeq(a, k + 1, N) \in Seq(Macs) /\ Len(SubSeq(a, k + 1, N)) = N - k
          /\ \A j \in 1 .. N - k : SubSeq(a, k + 1, N)[j] = a[k + j]
      BY <3>1, Rest
    <3> QED
      BY Zenon, <2>1, <3>2
  <2> QED
    BY Zenon, <1>17, <2>1, <2>2
<1>19. Outcome(expected, rm, d, cmp)
  BY Zenon, <1>6, <1>14, <1>18, CompareIs
<1>20. Sizes'
  BY <1>3 DEF MacInv, Sizes
<1>21. validator'.mac = t
  BY <1>7 DEF Taken
<1>22. TakesBytes'
  <2>1. validator'.mac \in Nat /\ validator' = Taken(validator'.mac, chunk_size')
    BY Zenon, <1>1, <1>2, <1>3, <1>7, <1>21
  <2> QED
    BY <1>3, <2>1 DEF MacInv, TakesBytes, Taken
<1>23. AllMacs' = AllMacs
  BY <1>3 DEF AllMacs, ReferenceMacs
<1>24. Produces'
  BY <1>3, <1>23 DEF MacInv, Produces
<1>25. Arrives'
  BY <1>3, <1>21, <1>23 DEF MacInv, Arrives
<1>26. (validator.mac \div chunk_size)' = l /\ chunk_size' = c
  BY Zenon, <1>1, <1>3, <1>8, <1>21
<1>27. (cmp.ok <=> Agree(expected, rm, d)) /\ cmp.ok \in BOOLEAN
  BY Zenon, <1>19 DEF Outcome
<1>28. CASE cmp.ok
  <2>1. Agree(expected, rm, d)
    BY <1>27, <1>28
  <2>2. cmp.chunks = d /\ cmp.left = SubSeq(expected, d + 1, Len(expected))
    BY Zenon, <1>19, <1>28 DEF Outcome
  <2>3. d <= N - k /\ \A j \in 1 .. d : a[k + j] = ReceiverMac((k + j) * c)
    <3>1. d <= N - k
      BY <1>18, <2>1 DEF Agree
    <3>2. ASSUME NEW j \in 1 .. d PROVE a[k + j] = ReceiverMac((k + j) * c)
      <4>1. expected[j] = rm[j]
        BY <2>1 DEF Agree
      <4>2. j \in 1 .. N - k
        BY <1>9, <1>16, <3>1
      <4> QED
        BY <1>11, <1>18, <4>1, <4>2
    <3> QED
      BY <3>1, <3>2
  <2>4. l <= N
    BY <1>9, <1>10, <1>16, <2>3
  <2>5. \A i \in 1 .. l : a[i] = ReceiverMac(i * c)
    <3>1. ASSUME NEW i \in 1 .. l, ~(i <= k) PROVE a[i] = ReceiverMac(i * c)
      <4>1. i - k \in 1 .. d /\ k + (i - k) = i
        BY <1>9, <1>10, <3>1
      <4> QED
        BY <2>3, <4>1
    <3>2. ASSUME NEW i \in 1 .. l, i <= k PROVE a[i] = ReceiverMac(i * c)
      BY <1>9, <1>17, <3>2
    <3> QED
      BY <3>1, <3>2
  <2>6. cmp.left = SubSeq(a, l + 1, N)
    <3>1. SubSeq(SubSeq(a, k + 1, N), d + 1, N - k) = SubSeq(a, k + d + 1, N)
      <4> DEFINE e == SubSeq(a, k + 1, N)
                 x == SubSeq(e, d + 1, N - k)
                 y == SubSeq(a, k + d + 1, N)
      <4>1. e \in Seq(Macs) /\ Len(e) = N - k /\ \A j \in 1 .. N - k : e[j] = a[k + j]
        <5>1. a \in Seq(Macs) /\ N \in Nat /\ N = Len(a) /\ k \in Nat /\ k <= N
          BY <1>9, <1>16, <1>17
        <5> QED
          BY <5>1, Rest
      <4> HIDE DEF e
      <4>2. x \in Seq(Macs) /\ Len(x) = N - k - d
            /\ \A j \in 1 .. N - k - d : x[j] = e[d + j]
        BY <1>9, <1>16, <2>3, <4>1
      <4>3. y \in Seq(Macs) /\ Len(y) = N - k - d
            /\ \A j \in 1 .. N - k - d : y[j] = a[k + d + j]
        <5>1. PICK p \in Nat : p = k + d /\ p <= N /\ N - p = N - k - d
          BY <1>9, <1>16, <2>3
        <5>2. SubSeq(a, p + 1, N) \in Seq(Macs) /\ Len(SubSeq(a, p + 1, N)) = N - p
              /\ \A j \in 1 .. N - p : SubSeq(a, p + 1, N)[j] = a[p + j]
          <6>1. a \in Seq(Macs) /\ N \in Nat /\ N = Len(a)
            BY <1>16
          <6> QED
            BY <5>1, <6>1, Rest
        <5> QED
          BY Zenon, <5>1, <5>2
      <4>4. \A j \in 1 .. N - k - d : e[d + j] = a[k + d + j]
        <5>1. ASSUME NEW j \in 1 .. N - k - d
              PROVE  d + j \in 1 .. N - k /\ k + (d + j) = k + d + j
          BY <1>9, <1>16, <2>3
        <5> QED
          BY <4>1, <5>1
      <4> HIDE DEF x, y
      <4>5. x = y
        BY <4>2, <4>3, <4>4
      <4> QED
        BY <4>5 DEF x, y, e
    <3> QED
      BY Zenon, <1>10, <1>17, <1>18, <2>2, <3>1
  <2>7. validated' = l * c
    <3>1. validated' = k * c + d * c
      BY <1>7, <1>17, <1>28, <2>2
    <3>2. l * c = k * c + d * c
      BY <1>2, <1>9, <1>10
    <3> QED
      BY <3>1, <3>2
  <2>8. phase' = "validate"
    BY <1>7, <1>28
  <2>9. Validates'
    <3>1. \A i \in 1 .. l : arrived'[i] = ReceiverMac(i * chunk_size)'
      <4>1. \A i \in 1 .. l : a[i] = [length |-> i * c, intact |-> i * c < differs]
        BY Zenon, <2>5 DEF ReceiverMac
      <4> QED
        BY Zenon, <1>1, <1>3, <1>15, <4>1 DEF ReceiverMac
    <3>2. expected' = SubSeq(arrived', l + 1, Len(arrived')) /\ l <= Len(arrived')
      BY Zenon, <1>3, <1>7, <1>15, <2>4, <2>6
    <3> QED
      BY Zenon, <1>26, <2>7, <3>1, <3>2 DEF Validates
  <2>10. ValidatedIsSent'
    <3>1. validated' <= validator'.mac
      BY <1>9, <1>21, <2>7
    <3>2. l * c > 0 => l * c < differs /\ l * c <= size
      <4> SUFFICES ASSUME l * c > 0 PROVE l * c < differs /\ l * c <= size
        OBVIOUS
      <4>1. l \in 1 .. l /\ l \in 1 .. N
        <5>1. l # 0
          BY <1>2
        <5> QED
          BY <1>9, <1>16, <2>4, <5>1
      <4>2. a[l] = ReceiverMac(l * c)
        BY <2>5, <4>1
      <4>3. PICK x \in Nat : x = l * c
        BY <1>12, <4>1
      <4>4. x < differs /\ x <= size
        <5>1. arrived[l] = ReceiverMac(x) /\ l \in 1 .. Len(arrived)
          BY Zenon, <1>15, <4>1, <4>2, <4>3
        <5>2. phase # "produce"
          BY <1>3
        <5> QED
          BY <5>1, <5>2, MatchedIsSent
      <4> QED
        BY Zenon, <4>3, <4>4
    <3>3. validated' > 0 => validated' < differs' /\ validated' <= size'
      BY Zenon, <1>3, <2>7, <3>2
    <3> QED
      BY <2>8, <3>1, <3>3 DEF ValidatedIsSent
  <2>11. IntactAccepted'
    BY <1>26, <2>7, <2>8 DEF IntactAccepted
  <2> QED
    BY <1>20, <1>22, <1>24, <1>25, <2>9, <2>10, <2>11 DEF MacInv
<1>29. CASE ~cmp.ok
  <2>1. phase' = "error" /\ validated' = k * c
    BY <1>7, <1>17, <1>29
  <2>2. ValidatedIsSent'
    <3>1. validated > 0 => validated < differs /\ validated <= size
      BY DEF MacInv, ValidatedIsSent
    <3>2. validated' > 0 => validated' < differs' /\ validated' <= size'
      BY Zenon, <1>3, <1>17, <2>1, <3>1
    <3>3. validated' <= validator'.mac
      <4>1. PICK x \in Nat : x = k * c /\ x <= s
        BY <1>2, <1>9
      <4>2. x <= t
        BY <1>1, <1>2, <4>1
      <4> QED
        BY Zenon, <1>21, <2>1, <4>1, <4>2
    <3> QED
      BY <2>1, <3>2, <3>3 DEF ValidatedIsSent
  <2>3. ~(arrived = produced /\ received = size /\ differs > size)
    <3> SUFFICES ASSUME arrived = produced, received = size, differs > size
                 PROVE  Agree(expected, rm, d)
      BY <1>27, <1>29
    <3>1. PICK q : q = size \div c
      OBVIOUS
    <3>2. /\ q \in Nat /\ Len(AllMacs) = q + 1
          /\ \A i \in 1 .. q : AllMacs[i] = SenderMac(i * c)
      BY <1>1, <1>2, <3>1, AllMacsAre
    <3>3. a = AllMacs
      BY <1>3, <1>15 DEF MacInv, Produces
    <3>4. l <= q
      BY <1>2, <1>3, <1>8, <3>1, DivisionGrows
    <3>5. d <= N - k
      BY <1>9, <1>10, <1>15, <3>2, <3>3, <3>4
    <3>6. ASSUME NEW j \in 1 .. d PROVE expected[j] = rm[j]
      <4>1. j \in 1 .. N - k /\ k + j \in 1 .. q /\ k + j \in 1 .. l
        BY <1>9, <1>10, <1>16, <3>2, <3>4, <3>5
      <4>2. PICK x \in Nat : x = (k + j) * c /\ x <= t
        BY <1>12, <4>1
      <4>3. expected[j] = SenderMac(x)
        BY <1>18, <3>2, <3>3, <4>1, <4>2
      <4>4. rm[j] = ReceiverMac(x)
        BY <1>11, <4>2
      <4>5. x < differs
        BY <1>2, <1>3, <4>2, DataAssumption DEF MacInv, Arrives
      <4> QED
        BY <4>3, <4>4, <4>5 DEF SenderMac, ReceiverMac
    <3> QED
      BY <1>18, <3>5, <3>6 DEF Agree
  <2>4. IntactAccepted'
    BY <1>3, <2>3 DEF IntactAccepted
  <2>5. Validates'
    BY <2>1 DEF Validates
  <2> QED
    BY <1>20, <1>22, <1>24, <1>25, <2>2, <2>4, <2>5 DEF MacInv
<1> QED
  BY <1>27, <1>28, <1>29
(* When the one MAC that is left is that of all the data received, this is *)
(* the sender's data up to there, and the MACs that arrived are those that *)
(* the sender would have made of it.                                       *)
LEMMA LastIsAll ==
    ASSUME MacInv, phase = "validate", validator.mac = received,
           OneLeft(expected, ReceiverMac(received))
    PROVE  /\ received < differs
           /\ received \in {size} \cup {i * chunk_size : i \in 1 .. size \div chunk_size}
           /\ received <= size
           /\ arrived = Append(ReferenceMacs(received), SenderMac(received))
           /\ arrived = produced => received = size
<1>1. PICK c, k, r : c = chunk_size /\ k = received \div c /\ r = received % c
  OBVIOUS
<1>2. c \in Nat \ {0} /\ size \in Nat /\ received \in Nat
  BY <1>1, MacTypes
<1>3. k \in Nat /\ r \in Nat /\ received = k * c + r
  BY <1>1, <1>2, Division
<1>4. PICK a, N : a = arrived /\ N = Len(arrived)
  OBVIOUS
<1>5. a \in Seq(Macs) /\ N = Len(a) /\ N \in Nat
  BY <1>4, ArrivedIsSent
<1>6. /\ k <= N /\ expected = SubSeq(a, k + 1, N)
      /\ \A i \in 1 .. k : a[i] = ReceiverMac(i * c)
  BY <1>1, <1>4 DEF MacInv, Validates
<1>7. N = k + 1 /\ a[N] = ReceiverMac(received)
  <2>1. PICK e : e = SubSeq(a, k + 1, N)
    OBVIOUS
  <2>2. Len(e) = N - k /\ \A j \in 1 .. N - k : e[j] = a[k + j]
    BY <1>3, <1>5, <1>6, <2>1, Rest
  <2>3. e = << ReceiverMac(received) >>
    BY Zenon, <1>6, <2>1 DEF OneLeft
  <2>4. Len(e) = 1 /\ e[1] = ReceiverMac(received)
    BY <2>3
  <2>5. N = k + 1
    <3>1. N - k = 1
      BY Zenon, <2>2, <2>4
    <3> QED
      BY <1>3, <1>5, <3>1
  <2>6. 1 \in 1 .. N - k
    BY <1>3, <2>5
  <2>7. e[1] = a[k + 1]
    BY <2>2, <2>6
  <2> QED
    BY Zenon, <2>4, <2>5, <2>7
<1>8. N \in 1 .. N /\ \A i \in 1 .. k : i \in 1 .. N
  BY <1>3, <1>7
<1>9. /\ received < differs /\ received <= size
      /\ received \in {size} \cup {i * chunk_size : i \in 1 .. size \div chunk_size}
      /\ a[N] = SenderMac(received)
  <2>1. arrived[N] = ReceiverMac(received) /\ N \in 1 .. Len(arrived)
    BY Zenon, <1>4, <1>7, <1>8
  <2>2. phase # "produce"
    OBVIOUS
  <2> QED
    BY <1>2, <1>4, <2>1, <2>2, MatchedIsSent
<1>10. ASSUME NEW i \in 1 .. k PROVE a[i] = SenderMac(i * c)
  <2>1. PICK x \in Nat : x = i * c
    BY <1>2, <1>3
  <2>2. arrived[i] = ReceiverMac(x) /\ i \in 1 .. Len(arrived)
    BY Zenon, <1>4, <1>6, <1>8, <2>1
  <2>3. arrived[i] = SenderMac(x)
    BY <2>2, MatchedIsSent
  <2> QED
    BY Zenon, <1>4, <2>1, <2>3
<1>11. a = Append(ReferenceMacs(received), SenderMac(received))
  <2>1. PICK ref : ref = ReferenceMacs(received)
    OBVIOUS
  <2>2. ref = [i \in 1 .. k |-> SenderMac(i * c)]
    BY <1>1, <2>1 DEF ReferenceMacs
  <2>3. ref \in Seq(Macs) /\ Len(ref) = k /\ SenderMac(received) \in Macs
    <3>1. \A i \in 1 .. k : i * c \in Nat
      BY <1>2, <1>3
    <3>2. (\A i \in 1 .. k : SenderMac(i * c) \in Macs) /\ SenderMac(received) \in Macs
      BY <1>2, <3>1 DEF SenderMac, Macs
    <3>3. ref \in [1 .. k -> Macs]
      BY Zenon, <2>2, <3>2
    <3> QED
      BY <1>3, <3>2, <3>3, FunctionIsSeq
  <2>4. PICK y : y = Append(ref, SenderMac(received))
    OBVIOUS
  <2>5. y \in Seq(Macs) /\ Len(y) = k + 1 /\ y[k + 1] = SenderMac(received)
        /\ \A i \in 1 .. k : y[i] = ref[i]
    BY <2>3, <2>4
  <2>6. \A i \in 1 .. k : y[i] = a[i]
    BY Zenon, <1>10, <2>2, <2>5
  <2>7. \A i \in 1 .. k + 1 : i \in 1 .. k \/ i = k + 1
    BY <1>3
  <2>8. \A i \in 1 .. k + 1 : y[i] = a[i]
    BY Zenon, <1>7, <1>9, <2>5, <2>6, <2>7
  <2>9. y = a
    <3>1. PICK L \in Nat : L = k + 1
      BY <1>3
    <3>2. Len(y) = L /\ Len(a) = L /\ \A i \in 1 .. L : y[i] = a[i]
      BY Zenon, <1>5, <1>7, <2>5, <2>8, <3>1
    <3> QED
      BY <1>5, <2>5, <3>2
  <2> QED
    BY Zenon, <2>1, <2>4, <2>9
<1>12. ASSUME arrived = produced PROVE received = size
  <2>1. PICK q, all : q = size \div c /\ all = AllMacs
    OBVIOUS
  <2>2. Len(all) = q + 1 /\ all[q + 1] = SenderMac(size)
    BY <1>1, <1>2, <2>1, AllMacsAre
  <2>3. a = all
    BY <1>4, <1>12, <2>1 DEF MacInv, Produces
  <2>4. SenderMac(received) = SenderMac(size)
    BY Zenon, <1>5, <1>9, <2>2, <2>3
  <2> QED
    BY <2>4 DEF SenderMac
<1> QED
  BY Zenon, <1>4, <1>9, <1>11, <1>12

LEMMA MacValidated ==
    ASSUME MacInv, validating_finalize
    PROVE  MacInv'
<1>1. phase = "validate" /\ validator.mac = received
      /\ UNCHANGED << chunk_size, size, produced, producer, received, differs,
                      validator, arrived, expected >>
  BY DEF validating_finalize
<1>2. PICK c, k, r : c = chunk_size /\ k = received \div c /\ r = received % c
  OBVIOUS
<1>3. /\ c \in Nat \ {0} /\ size \in Nat /\ received \in Nat /\ k \in Nat /\ r \in Nat
      /\ r < c /\ received = k * c + r
      /\ validator = Taken(received, c)
  <2>1. c \in Nat \ {0} /\ size \in Nat /\ received \in Nat
    BY <1>1, <1>2, MacTypes
  <2>2. validator = Taken(received, c)
    BY Zenon, <1>1, <1>2, MacTypes
  <2> QED
    BY <1>2, <2>1, <2>2, Division
<1>4. validated = k * c
  BY <1>1, <1>2 DEF MacInv, Validates
<1>5. phase' \in {"done", "error"}
  BY DEF validating_finalize
<1>6. Sizes'
  BY <1>1 DEF MacInv, Sizes
<1>7. TakesBytes'
  BY <1>1 DEF MacInv, TakesBytes, Taken
<1>8. AllMacs' = AllMacs
  BY <1>1 DEF AllMacs, ReferenceMacs
<1>9. Produces'
  BY <1>1, <1>5, <1>8 DEF MacInv, Produces
<1>10. Arrives'
  BY <1>1, <1>8 DEF MacInv, Arrives
<1>11. Validates'
  BY <1>5 DEF Validates
<1>12. CASE OneLeft(expected, ReceiverMac(received))
  <2>1. phase' = "done" /\ validated' = validated + pending_bytes_size(validator, c)
    BY <1>1, <1>2, <1>12 DEF validating_finalize
  <2>2. /\ received < differs
        /\ received \in {size} \cup {i * chunk_size : i \in 1 .. size \div chunk_size}
        /\ received <= size
        /\ arrived = Append(ReferenceMacs(received), SenderMac(received))
        /\ arrived = produced => received = size
    BY <1>1, <1>12, LastIsAll
  <2>3. validated' = received
    <3>1. pending_bytes_size(validator, c) = c - (c - r)
      BY <1>2, <1>3 DEF pending_bytes_size, Taken
    <3>2. PICK x \in Nat : x = k * c
      BY <1>3
    <3> QED
      BY <1>3, <1>4, <2>1, <3>1, <3>2
  <2>4. ValidatedIsSent'
    <3>1. ReferenceMacs(received)' = ReferenceMacs(received)
      BY <1>1 DEF ReferenceMacs
    <3>2. arrived' = Append(ReferenceMacs(received)', SenderMac(received)')
      BY Zenon, <1>1, <2>2, <3>1
    <3>3. validated' <= validator'.mac
      BY <1>1, <1>3, <2>3
    <3>4. validated' > 0 => validated' < differs' /\ validated' <= size'
      BY <1>1, <2>2, <2>3
    <3>5. /\ validated' = received' /\ received' < differs'
          /\ received' \in {size'} \cup {i * chunk_size' : i \in 1 .. (size \div chunk_size)'}
          /\ arrived' = produced' => received' = size'
      BY Zenon, <1>1, <2>2, <2>3
    <3> QED
      BY <3>2, <3>3, <3>4, <3>5 DEF ValidatedIsSent
  <2>5. IntactAccepted'
    BY <2>1 DEF IntactAccepted
  <2> QED
    BY <1>6, <1>7, <1>9, <1>10, <1>11, <2>4, <2>5 DEF MacInv
<1>13. CASE ~OneLeft(expected, ReceiverMac(received))
  <2>1. phase' = "error" /\ validated' = validated
    BY <1>1, <1>13 DEF validating_finalize
  <2>2. ValidatedIsSent'
    BY <1>1, <2>1 DEF MacInv, ValidatedIsSent
  <2>3. ~(arrived = produced /\ received = size /\ differs > size)
    <3> SUFFICES ASSUME arrived = produced, received = size, differs > size
                 PROVE  FALSE
      OBVIOUS
    <3>1. AllMacs \in Seq(Macs) /\ Len(AllMacs) = k + 1 /\ AllMacs[k + 1] = SenderMac(size)
      BY <1>2, <1>3, AllMacsAre
    <3>2. PICK all : all = AllMacs
      OBVIOUS
    <3>3. arrived = all
      BY <1>1, <3>2 DEF MacInv, Produces
    <3>4. expected = SubSeq(arrived, k + 1, Len(arrived))
      BY <1>1, <1>2 DEF MacInv, Validates
    <3>5. PICK e : e = SubSeq(all, k + 1, k + 1)
      OBVIOUS
    <3>6. e \in Seq(Macs) /\ Len(e) = 1 /\ e[1] = SenderMac(size)
      <4>1. PICK N \in Nat : N = k + 1 /\ N - k = 1 /\ k <= N
        BY <1>3
      <4>2. /\ SubSeq(all, k + 1, N) \in Seq(Macs) /\ Len(SubSeq(all, k + 1, N)) = N - k
            /\ \A j \in 1 .. N - k : SubSeq(all, k + 1, N)[j] = all[k + j]
        BY <1>3, <3>1, <3>2, <4>1, Rest
      <4>3. 1 \in 1 .. N - k
        BY <4>1
      <4>4. e = SubSeq(all, k + 1, N)
        BY Zenon, <3>5, <4>1
      <4>5. e \in Seq(Macs) /\ Len(e) = 1 /\ e[1] = all[k + 1]
        BY Zenon, <4>1, <4>2, <4>3, <4>4
      <4> QED
        BY Zenon, <3>1, <3>2, <4>5
    <3>7. e = << SenderMac(size) >>
      BY <3>6
    <3>8. expected = << SenderMac(size) >>
      BY Zenon, <3>1, <3>2, <3>3, <3>4, <3>5, <3>7
    <3>9. SenderMac(size) = ReceiverMac(received)
      <4>1. (received < differs) = TRUE
        BY <1>1, <1>3 DEF MacInv, Arrives
      <4> QED
        BY Zenon, <4>1 DEF SenderMac, ReceiverMac
    <3> QED
      BY Zenon, <1>13, <3>8, <3>9 DEF OneLeft
  <2>4. IntactAccepted'
    BY <1>1, <2>3 DEF IntactAccepted
  <2> QED
    BY <1>6, <1>7, <1>9, <1>10, <1>11, <2>2, <2>4 DEF MacInv
<1> QED
  BY <1>12, <1>13
-----------------------------------------------------------------------------
(* The theorems.                                                           *)

LEMMA MacStep == MacInv /\ [Next]_vars => MacInv'
<1> SUFFICES ASSUME MacInv, [Next]_vars PROVE MacInv'
  OBVIOUS
<1>1. CASE \E n \in 0 .. MaxData : produce(n)
  <2>1. PICK n \in 0 .. MaxData : produce(n)
    BY <1>1
  <2>2. n \in Nat
    BY DataAssumption
  <2> QED
    BY <2>1, <2>2, MacProduce
<1>2. CASE finalize
  BY <1>2, MacFinalize
<1>3. CASE \E n \in 0 .. MaxData + MaxExtra : validating_update(n)
  <2>1. PICK n \in 0 .. MaxData + MaxExtra : validating_update(n)
    BY <1>3
  <2>2. n \in Nat
    BY DataAssumption
  <2> QED
    BY <2>1, <2>2, MacUpdate
<1>4. CASE validating_finalize
  BY <1>4, MacValidated
<1>5. CASE UNCHANGED vars
  BY <1>5 DEF vars, MacInv, Sizes, TakesBytes, Produces, Arrives, Validates, AllMacs,
              ReferenceMacs, ReceiverMac, Taken, ValidatedIsSent, IntactAccepted
<1> QED
  BY <1>1, <1>2, <1>3, <1>4, <1>5 DEF Next

LEMMA MacInvariant == Spec => []MacInv
<1>1. Init => MacInv
  BY MacInit
<1>2. MacInv /\ [Next]_vars => MacInv'
  BY MacStep
<1> QED
  BY <1>1, <1>2, PTL DEF Spec

(* Whatever pieces each side cuts its data into, update and finalize yield *)
(* the MACs of the prefixes that are whole chunks, then that of all the    *)
(* data, and each Incremental has the room left in its chunk that          *)
(* update_chunk asserts.                                                   *)
THEOREM MacsAreOfPrefixes == Spec => []MacsOfPrefixes
<1>1. MacInv => MacsOfPrefixes
  <2> SUFFICES ASSUME MacInv PROVE MacsOfPrefixes
    OBVIOUS
  <2>1. \A inc \in {producer, validator} :
           inc.unused_length = chunk_size - (inc.mac % chunk_size)
    BY MacTypes DEF Taken
  <2> QED
    BY <2>1 DEF MacsOfPrefixes, MacInv, Produces, AllMacs
<1> QED
  BY <1>1, MacInvariant, PTL

(* calculate_chunk_size keeps within its bounds, and update and finalize   *)
(* yield no more MACs than planned of data that the largest chunks can     *)
(* cover, but for the one of finalize when the data fills them exactly.    *)
THEOREM DigestsFit == Spec => []DigestsNearTarget
<1>1. MacInv => DigestsNearTarget
  <2> SUFFICES ASSUME MacInv PROVE DigestsNearTarget
    OBVIOUS
  <2>1. PICK c, T, t : c = chunk_size /\ T = TARGET_CHUNK_COUNT /\ t = producer.mac
    OBVIOUS
  <2>2. c \in Nat \ {0} /\ size \in Nat /\ t \in Nat /\ t <= size /\ T \in Nat \ {0}
    BY <2>1, MacTypes, ChunkAssumption
  <2>3. c \in MINIMUM_CHUNK_SIZE .. MAXIMUM_CHUNK_SIZE
        /\ (size <= T * MAXIMUM_CHUNK_SIZE => size <= T * c)
    BY <2>1, <2>2, ChunkSize DEF MacInv, Sizes
  <2>4. PICK q, r : q = size \div c /\ r = size % c
    OBVIOUS
  <2>5. q \in Nat /\ r \in Nat /\ size = q * c + r
    BY <2>2, <2>4, Division
  <2>6. ASSUME size <= T * c, size # T * c PROVE q + 1 <= T
    <3> SUFFICES ASSUME q >= T PROVE FALSE
      BY <2>2, <2>5
    <3>1. q * c >= T * c
      BY <2>2, <2>5
    <3>2. PICK x \in Nat, y \in Nat : x = q * c /\ y = T * c
      BY <2>2, <2>5
    <3> QED
      BY <2>2, <2>5, <2>6, <3>1, <3>2
  <2>7. ASSUME size = T * c PROVE q = T
    <3>1. size = T * c + 0
      BY <2>2, <2>7
    <3> QED
      BY <2>2, <2>4, <3>1, DivisionIs
  <2>8. Len(produced) \in Nat /\ Len(produced) <= q + 1
    <3>1. CASE phase = "produce"
      <4>1. PICK p : p = t \div c
        OBVIOUS
      <4>2. p \in Nat /\ p <= q
        BY <2>2, <2>4, <4>1, Division, DivisionGrows
      <4>3. produced = [i \in 1 .. p |-> SenderMac(i * c)]
        BY <2>1, <3>1, <4>1 DEF MacInv, Produces, ReferenceMacs
      <4>4. Len(produced) = p
        BY <4>2, <4>3
      <4> QED
        BY <2>5, <4>2, <4>4
    <3>2. CASE phase # "produce"
      <4>1. produced = AllMacs
        BY <3>2 DEF MacInv, Produces
      <4>2. Len(AllMacs) = q + 1
        BY <2>1, <2>2, <2>4, AllMacsAre
      <4> QED
        BY <2>5, <4>1, <4>2
    <3> QED
      BY <3>1, <3>2
  <2>9. size <= T * MAXIMUM_CHUNK_SIZE =>
           Len(produced) <= IF size = T * c THEN T + 1 ELSE T
    BY <2>2, <2>3, <2>5, <2>6, <2>7, <2>8
  <2> QED
    BY <2>1, <2>3, <2>9 DEF DigestsNearTarget
<1> QED
  BY <1>1, MacInvariant, PTL

(* Validating reports only bytes that the sender sent, whatever list of    *)
(* the sender's MACs and damaged ones arrives, and its finalize accepts    *)
(* nothing but all of them unless the list was rewritten to that of a cut  *)
(* at the end of a chunk.                                                  *)
THEOREM ValidatedBytesWereSent == Spec => []ValidatedIsSent
<1>1. MacInv => ValidatedIsSent
  BY DEF MacInv
<1> QED
  BY <1>1, MacInvariant, PTL

(* Validating fails on nothing that arrived as it was sent, and reports    *)
(* each whole chunk as soon as it was fed.                                 *)
THEOREM IntactDataAccepted == Spec => []IntactAccepted
<1>1. MacInv => IntactAccepted
  BY DEF MacInv
<1> QED
  BY <1>1, MacInvariant, PTL
=============================================================================
