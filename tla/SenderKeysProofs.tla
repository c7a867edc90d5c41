-------------------------- MODULE SenderKeysProofs --------------------------
(***************************************************************************)
(* Theorems about SenderKeys, for every set of members and chain ids and   *)
(* every value of the limits and bounds.                                   *)
(*                                                                         *)
(* The inductive invariant says where a chain can be: every chain a state  *)
(* or a message belongs to was announced in a distribution message, and    *)
(* its announcements agree on its chain id.  So two states of a record are *)
(* never of one chain, and what a delivery used up in one state is in no   *)
(* other.                                                                  *)
(***************************************************************************)
EXTENDS SenderKeys, FiniteSetTheorems, SequenceTheorems, TLAPS

(* Cutting a finite set of indices at n leaves a subset of at most n: the  *)
(* number of newer indices tells the kept ones apart.                      *)
LEMMA NewestBound ==
    ASSUME NEW S \in SUBSET Nat, IsFiniteSet(S), NEW n \in Nat
    PROVE  /\ Newest(S, n) \subseteq S
           /\ IsFiniteSet(Newest(S, n))
           /\ Cardinality(Newest(S, n)) <= n
<1> DEFINE newer(i) == {j \in S : j > i}
<1>1. Newest(S, n) \subseteq S
  BY DEF Newest
<1>2. \A i \in S : IsFiniteSet(newer(i)) /\ Cardinality(newer(i)) \in Nat
  <2> SUFFICES ASSUME NEW i \in S
               PROVE  IsFiniteSet(newer(i)) /\ Cardinality(newer(i)) \in Nat
    OBVIOUS
  <2>1. newer(i) \in SUBSET S
    OBVIOUS
  <2> QED
    BY <2>1, FS_Subset, FS_CardinalityType
<1>3. ASSUME NEW i \in S, NEW k \in S, i < k
      PROVE  Cardinality(newer(k)) < Cardinality(newer(i))
  <2>1. newer(k) \in SUBSET newer(i)
    <3> SUFFICES ASSUME NEW j \in S, j > k
                 PROVE  j > i
      OBVIOUS
    <3> i \in Nat /\ j \in Nat /\ k \in Nat
      OBVIOUS
    <3> QED
      BY <1>3
  <2>2. k \in newer(i) /\ k \notin newer(k)
    BY <1>3
  <2>3. Cardinality(newer(k)) <= Cardinality(newer(i)) /\ newer(k) # newer(i)
    BY <1>2, <2>1, <2>2, FS_Subset
  <2> HIDE DEF newer
  <2>4. Cardinality(newer(i)) # Cardinality(newer(k))
    BY <1>2, <2>1, <2>3, FS_Subset
  <2> QED
    BY <1>2, <2>3, <2>4
<1> HIDE DEF newer
<1> DEFINE rank == [i \in Newest(S, n) |-> Cardinality(newer(i))]
<1>4. rank \in [Newest(S, n) -> 0 .. n - 1]
  <2> SUFFICES ASSUME NEW i \in Newest(S, n)
               PROVE  Cardinality(newer(i)) \in 0 .. n - 1
    OBVIOUS
  <2>1. Cardinality(newer(i)) < n
    BY DEF Newest, newer
  <2>2. Cardinality(newer(i)) \in Nat
    BY <1>1, <1>2
  <2> QED
    BY <2>1, <2>2
<1>5. ASSUME NEW i \in Newest(S, n), NEW k \in Newest(S, n), rank[i] = rank[k]
      PROVE  i = k
  <2>1. i \in S /\ k \in S /\ i \in Nat /\ k \in Nat
    BY <1>1
  <2>2. /\ Cardinality(newer(i)) = Cardinality(newer(k))
        /\ Cardinality(newer(i)) \in Nat /\ Cardinality(newer(k)) \in Nat
    BY <1>2, <1>5, <2>1
  <2>3. ~(i < k)
    BY <1>3, <2>1, <2>2
  <2>4. ~(k < i)
    BY <1>3, <2>1, <2>2
  <2> QED
    BY <2>1, <2>3, <2>4
<1>6. rank \in Injection(Newest(S, n), 0 .. n - 1)
  BY <1>4, <1>5 DEF Injection, IsInjective
<1>7. IsFiniteSet(0 .. n - 1) /\ Cardinality(0 .. n - 1) = n
  BY FS_Interval
<1> QED
  BY <1>1, <1>6, <1>7, FS_Injection

(* Cutting a set of indices below u at n keeps those from u - n on.        *)
LEMMA NewestKeeps ==
    ASSUME NEW S \in SUBSET Nat, NEW n \in Nat, NEW u \in Nat, \A j \in S : j < u,
           NEW i \in S, u - i <= n
    PROVE  i \in Newest(S, n)
<1> DEFINE newer == {j \in S : j > i}
<1>1. i \in Nat /\ i < u
  OBVIOUS
<1>2. newer \in SUBSET (i + 1 .. u - 1)
  <2> SUFFICES ASSUME NEW j \in S, j > i
               PROVE  j \in i + 1 .. u - 1
    OBVIOUS
  <2>1. j \in Nat /\ j < u
    OBVIOUS
  <2> QED
    BY <1>1, <2>1
<1>3. IsFiniteSet(i + 1 .. u - 1) /\ Cardinality(i + 1 .. u - 1) = u - 1 - i
  <2>1. i + 1 \in Int /\ u - 1 \in Int
    BY <1>1
  <2>2. /\ IsFiniteSet(i + 1 .. u - 1)
        /\ Cardinality(i + 1 .. u - 1) = IF i + 1 > u - 1 THEN 0 ELSE (u - 1) - (i + 1) + 1
    BY <2>1, FS_Interval
  <2> QED
    BY <1>1, <2>2
<1>4. Cardinality(newer) <= u - 1 - i /\ Cardinality(newer) \in Nat
  <2>1. IsFiniteSet(newer) /\ Cardinality(newer) <= Cardinality(i + 1 .. u - 1)
    BY <1>2, <1>3, FS_Subset
  <2> QED
    BY <1>3, <2>1, FS_CardinalityType
<1>5. Cardinality(newer) < n
  <2> HIDE DEF newer
  <2> QED
    BY <1>1, <1>4
<1> QED
  BY <1>5 DEF Newest

-----------------------------------------------------------------------------
(* The chain of s was announced, under the same chain id.                  *)
Announced(s) == \E k \in skdms : k.chain = s.chain /\ k.chain_id = s.chain_id

ChainsAnnounced ==
    /\ chains <= MaxChains
    /\ \A k \in skdms : k.chain \in 1 .. chains
    /\ \A k1, k2 \in skdms : k1.chain = k2.chain => k1.chain_id = k2.chain_id
    /\ own # << >> => Announced(own[1])
    /\ \A r \in Member : \A i \in DOMAIN records[r] : Announced(records[r][i])
    /\ \A m \in skms : Announced(m)

(* The sender is past every message of its chain.                          *)
SenderAhead ==
    own # << >> =>
        /\ own[1].iteration <= MAX_ITERATION
        /\ \A m \in skms : m.chain = own[1].chain => m.iteration < own[1].iteration

(* The latest installation of a chain by r, and the iteration it began at. *)
Latest(r, chain) == Len(installs[r][chain])
InstalledAt(r, chain) == installs[r][chain][Latest(r, chain)]

(* A state has no key from before its installation.                        *)
StatesInstalled ==
    \A r \in Member : \A i \in DOMAIN records[r] :
        LET s == records[r][i] IN
        /\ Latest(r, s.chain) > 0
        /\ InstalledAt(r, s.chain) <= s.iteration
        /\ \A n \in s.message_keys : InstalledAt(r, s.chain) <= n

Consumed(s, n) == n < s.iteration /\ n \notin s.message_keys

(* What was delivered under the latest installation is used up.            *)
DeliveredConsumed ==
    \A d \in delivered :
        /\ d[3] \in 1 .. Latest(d[1], d[2].chain)
        /\ d[3] = Latest(d[1], d[2].chain) =>
              \A i \in DOMAIN records[d[1]] :
                  records[d[1]][i].chain = d[2].chain =>
                      Consumed(records[d[1]][i], d[2].iteration)

(* What stays decryptable: a key that a state no longer has was obtained   *)
(* for a delivery, unless so many newer ones were skipped that it is out   *)
(* of reach.                                                               *)
DeliveredAt(r, chain, n) ==
    \E d \in delivered : /\ d[1] = r /\ d[2].chain = chain /\ d[2].iteration = n
                         /\ d[3] = Latest(r, chain)

InReach(s, n) == s.iteration - n <= MAX_MESSAGE_KEYS + 1

KeysKept ==
    \A r \in Member : \A i \in DOMAIN records[r] : \A n \in Nat :
        LET s == records[r][i]
        IN  (InstalledAt(r, s.chain) <= n /\ Consumed(s, n) /\ InReach(s, n))
            => DeliveredAt(r, s.chain, n)

(* No message was sent at the end of the counter.                          *)
MessagesAdvance == \A m \in skms : CanAdvance(m.iteration)

GroupInv ==
    /\ TypeOK
    /\ GroupLimitsRespected
    /\ IsFiniteSet(skms)
    /\ ChainsAnnounced
    /\ SenderAhead
    /\ GroupNoKeyReuse
    /\ StatesInstalled
    /\ NoHistory
    /\ DeliveredConsumed
    /\ AtMostOncePerInstall
    /\ KeysKept
    /\ MessagesAdvance

-----------------------------------------------------------------------------
(* Operators on records.                                                   *)

(* EntriesAt lists the entries at those positions, each position once.     *)
LEMMA EntriesOf ==
    ASSUME NEW S, NEW list \in Seq(S), NEW P \in SUBSET (DOMAIN list)
    PROVE  /\ Cardinality(P) \in Nat /\ Cardinality(P) <= Len(list)
           /\ \E f \in [1 .. Cardinality(P) -> P] :
                 /\ EntriesAt(list, P) = [n \in 1 .. Cardinality(P) |-> list[f[n]]]
                 /\ \A m, n \in 1 .. Cardinality(P) : f[m] = f[n] => m = n
<1> DEFINE upto(i) == {j \in P : j <= i}
           N       == Cardinality(P)
<1>1. P \in SUBSET (1 .. Len(list)) /\ Len(list) \in Nat
  OBVIOUS
<1>2. IsFiniteSet(P) /\ N \in Nat /\ N <= Len(list)
  <2>1. IsFiniteSet(1 .. Len(list)) /\ Cardinality(1 .. Len(list)) = Len(list)
    <3> DEFINE L == Len(list)
    <3>1. L \in Nat /\ 1 \in Int /\ L \in Int
      BY <1>1
    <3> HIDE DEF L
    <3>2. IsFiniteSet(1 .. L) /\ Cardinality(1 .. L) = IF 1 > L THEN 0 ELSE L - 1 + 1
      BY <3>1, FS_Interval
    <3> QED
      BY <3>1, <3>2 DEF L
  <2> QED
    BY <1>1, <2>1, FS_Subset, FS_CardinalityType
<1>3. ASSUME NEW i \in P
      PROVE  IsFiniteSet(upto(i)) /\ Cardinality(upto(i)) \in 1 .. N
  <2>1. upto(i) \in SUBSET P /\ i \in upto(i)
    BY <1>1
  <2>2. IsFiniteSet(upto(i)) /\ Cardinality(upto(i)) <= N
    BY <1>2, <2>1, FS_Subset
  <2>3. Cardinality(upto(i)) \in Nat /\ Cardinality(upto(i)) # 0
    <3> HIDE DEF upto
    <3> QED
      BY <2>1, <2>2, FS_CardinalityType, FS_EmptySet
  <2> QED
    BY <1>2, <2>2, <2>3
<1>4. ASSUME NEW i \in P, NEW k \in P, i < k
      PROVE  Cardinality(upto(i)) # Cardinality(upto(k))
  <2>1. i \in Nat /\ k \in Nat
    BY <1>1
  <2>2. upto(i) \in SUBSET upto(k)
    <3> SUFFICES ASSUME NEW j \in P, j <= i
                 PROVE  j <= k
      OBVIOUS
    <3>1. j \in Nat
      BY <1>1
    <3> QED
      BY <1>4, <2>1, <3>1
  <2>3. k \in upto(k) /\ k \notin upto(i)
    BY <1>4, <2>1
  <2> HIDE DEF upto
  <2> QED
    BY <1>3, <2>2, <2>3, FS_Subset
<1> DEFINE rank == [i \in P |-> Cardinality(upto(i))]
<1>5. rank \in [P -> 1 .. N]
  <2> HIDE DEF upto
  <2> QED
    BY <1>3
<1>6. \A i, k \in P : rank[i] = rank[k] => i = k
  <2> SUFFICES ASSUME NEW i \in P, NEW k \in P, rank[i] = rank[k]
               PROVE  i = k
    OBVIOUS
  <2>1. i \in Nat /\ k \in Nat
    BY <1>1
  <2>2. ~(i < k) /\ ~(k < i)
    BY <1>4
  <2> QED
    BY <2>1, <2>2
<1>7. rank \in Surjection(P, 1 .. N)
  <2>1. rank \in Injection(P, 1 .. N)
    BY <1>5, <1>6 DEF Injection, IsInjective
  <2>2. IsFiniteSet(1 .. N) /\ Cardinality(1 .. N) = N
    BY <1>2, FS_Interval
  <2> QED
    BY <2>1, <2>2, FS_Injection
<1> DEFINE f == [n \in 1 .. N |-> CHOOSE i \in P : Cardinality(upto(i)) = n]
<1>8. \A n \in 1 .. N : f[n] \in P /\ Cardinality(upto(f[n])) = n
  <2> SUFFICES ASSUME NEW n \in 1 .. N
               PROVE  \E i \in P : Cardinality(upto(i)) = n
    OBVIOUS
  <2> QED
    BY <1>7 DEF Surjection
<1>9. f \in [1 .. N -> P] /\ \A m, n \in 1 .. N : f[m] = f[n] => m = n
  <2> HIDE DEF upto
  <2>1. f \in [1 .. N -> P]
    BY <1>8
  <2> HIDE DEF f
  <2> QED
    BY <1>8, <2>1
<1>10. EntriesAt(list, P) = [n \in 1 .. N |-> list[f[n]]]
  BY DEF EntriesAt
<1> HIDE DEF f
<1> QED
  BY <1>2, <1>9, <1>10
GoodState ==
    {s \in SenderKeyState : /\ IsFiniteSet(s.message_keys)
                            /\ Cardinality(s.message_keys) <= MAX_MESSAGE_KEYS
                            /\ \A n \in s.message_keys : n < s.iteration}

DistinctIds(record) ==
    \A i, j \in DOMAIN record : record[i].chain_id = record[j].chain_id => i = j

GroupRecord ==
    {record \in Seq(GoodState) : /\ Len(record) <= MAX_SENDER_KEY_STATES
                                 /\ DistinctIds(record)}

LEMMA RecordLimits ==
    \A record : record \in GroupRecord <=>
                    record \in Seq(SenderKeyState) /\ RecordWithinLimits(record)
<1> SUFFICES ASSUME NEW record
             PROVE  record \in GroupRecord <=>
                        record \in Seq(SenderKeyState) /\ RecordWithinLimits(record)
  OBVIOUS
<1>1. ASSUME record \in GroupRecord
      PROVE  record \in Seq(SenderKeyState) /\ RecordWithinLimits(record)
  <2>1. record \in Seq(GoodState) /\ GoodState \subseteq SenderKeyState
    BY <1>1 DEF GroupRecord, GoodState
  <2>2. \A i \in DOMAIN record : record[i] \in GoodState
    BY <2>1
  <2> QED
    BY <1>1, <2>1, <2>2, SeqMonotonic
    DEF GroupRecord, GoodState, DistinctIds, RecordWithinLimits
<1>2. ASSUME record \in Seq(SenderKeyState), RecordWithinLimits(record)
      PROVE  record \in GroupRecord
  <2>1. \A i \in 1 .. Len(record) : record[i] \in GoodState
    BY <1>2 DEF RecordWithinLimits, GoodState
  <2>2. record \in Seq(GoodState)
    BY <1>2, <2>1
  <2> QED
    BY <1>2, <2>2 DEF GroupRecord, DistinctIds, RecordWithinLimits
<1> QED
  BY <1>1, <1>2

LEMMA NewStateType ==
    ASSUME NEW k \in SenderKeyDistributionMessage
    PROVE  NewState(k.chain_id, k.chain, k.iteration) \in GoodState
BY FS_EmptySet, GroupAssumption
DEF NewState, GoodState, SenderKeyState, SenderKeyDistributionMessage

(* The state put in front: the one of the chain if there is one, as it     *)
(* was, else a new one.                                                    *)
LEMMA StateToAddType ==
    ASSUME NEW record \in GroupRecord, NEW k \in SenderKeyDistributionMessage
    PROVE  /\ StateToAdd(record, k) \in GoodState
           /\ StateToAdd(record, k).chain = k.chain
           /\ StateToAdd(record, k).chain_id = k.chain_id
           /\ Has(record, k) =>
                 \E i \in DOMAIN record : record[i] = StateToAdd(record, k)
           /\ ~Has(record, k) =>
                 StateToAdd(record, k) = NewState(k.chain_id, k.chain, k.iteration)
<1>1. CASE Has(record, k)
  <2> DEFINE Is(i) == record[i].chain_id = k.chain_id /\ record[i].chain = k.chain
             c     == CHOOSE i \in DOMAIN record : Is(i)
  <2>1. c \in DOMAIN record /\ Is(c)
    BY <1>1 DEF Has
  <2>2. StateToAdd(record, k) = record[c]
    BY <1>1 DEF StateToAdd
  <2>3. record[c] \in GoodState
    BY <2>1 DEF GroupRecord
  <2> QED
    BY <1>1, <2>1, <2>2, <2>3
<1>2. CASE ~Has(record, k)
  BY <1>2, NewStateType DEF StateToAdd, NewState
<1> QED
  BY <1>1, <1>2

(* A distribution message puts its chain in front; behind it are states    *)
(* with other chain ids that were there before, each once.                 *)
LEMMA AddStateType ==
    ASSUME NEW record \in GroupRecord, NEW k \in SenderKeyDistributionMessage,
           NEW new, new = add_sender_key_state(record, k)
    PROVE  /\ new \in GroupRecord
           /\ 1 \in DOMAIN new
           /\ new[1] = StateToAdd(record, k)
           /\ \A i \in DOMAIN new : i = 1 \/
                 \E j \in DOMAIN record :
                     new[i] = record[j] /\ record[j].chain_id # k.chain_id
<1> DEFINE P    == {i \in DOMAIN record : record[i].chain_id # k.chain_id}
           rest == remove_states_with_chain_id(record, k.chain_id)
           n    == IF Len(rest) >= MAX_SENDER_KEY_STATES
                     THEN MAX_SENDER_KEY_STATES - 1 ELSE Len(rest)
           s    == StateToAdd(record, k)
           tail == SubSeq(rest, 1, n)
<1>1. record \in Seq(GoodState) /\ DistinctIds(record)
  BY DEF GroupRecord
<1>2. rest = EntriesAt(record, P)
  BY DEF remove_states_with_chain_id
<1>3. Cardinality(P) \in Nat
      /\ \E f \in [1 .. Cardinality(P) -> P] :
            /\ rest = [m \in 1 .. Cardinality(P) |-> record[f[m]]]
            /\ \A l, m \in 1 .. Cardinality(P) : f[l] = f[m] => l = m
  <2>1. P \in SUBSET (DOMAIN record)
    OBVIOUS
  <2> HIDE DEF P, rest
  <2> QED
    BY <1>1, <1>2, <2>1, EntriesOf
<1>4. PICK f \in [1 .. Cardinality(P) -> P] :
            /\ rest = [m \in 1 .. Cardinality(P) |-> record[f[m]]]
            /\ \A l, m \in 1 .. Cardinality(P) : f[l] = f[m] => l = m
  BY <1>3
<1>5. /\ rest \in Seq(GoodState) /\ Len(rest) = Cardinality(P)
      /\ \A m \in 1 .. Len(rest) : /\ f[m] \in DOMAIN record /\ rest[m] = record[f[m]]
                                   /\ record[f[m]].chain_id # k.chain_id
  <2> HIDE DEF rest
  <2>1. \A m \in 1 .. Cardinality(P) :
            /\ f[m] \in DOMAIN record /\ rest[m] = record[f[m]]
            /\ record[f[m]].chain_id # k.chain_id /\ record[f[m]] \in GoodState
    BY <1>1, <1>4
  <2>2. rest \in Seq(GoodState) /\ Len(rest) = Cardinality(P)
    <3> HIDE DEF P
    <3> QED
      BY <1>3, <1>4, <2>1
  <2> QED
    BY <2>1, <2>2
<1>6. s \in GoodState /\ s.chain_id = k.chain_id
  BY StateToAddType
<1>7. new = << s >> \o tail
  BY DEF add_sender_key_state
<1> HIDE DEF rest, s, P
<1>8. n \in Nat /\ n <= Len(rest) /\ n + 1 <= MAX_SENDER_KEY_STATES
  BY <1>5, GroupAssumption
<1> HIDE DEF n
<1>9. /\ tail \in Seq(GoodState) /\ Len(tail) = n
      /\ \A i \in 1 .. n : tail[i] = rest[i]
  BY <1>5, <1>8
<1> HIDE DEF tail
<1>10. /\ new \in Seq(GoodState) /\ Len(new) = n + 1
       /\ new[1] = s
       /\ \A i \in 2 .. n + 1 : new[i] = tail[i - 1]
  BY <1>6, <1>7, <1>8, <1>9
<1>11. \A i \in 2 .. n + 1 : /\ i - 1 \in 1 .. Len(rest) /\ new[i] = record[f[i - 1]]
                             /\ f[i - 1] \in DOMAIN record
                             /\ record[f[i - 1]].chain_id # k.chain_id
  <2> SUFFICES ASSUME NEW i \in 2 .. n + 1
               PROVE  /\ i - 1 \in 1 .. Len(rest) /\ new[i] = record[f[i - 1]]
                      /\ f[i - 1] \in DOMAIN record
                      /\ record[f[i - 1]].chain_id # k.chain_id
    OBVIOUS
  <2>1. i - 1 \in 1 .. n /\ i - 1 \in 1 .. Len(rest)
    BY <1>5, <1>8
  <2> QED
    BY <1>5, <1>9, <1>10, <2>1
<1>12. DistinctIds(new)
  <2> SUFFICES ASSUME NEW i \in 1 .. n + 1, NEW j \in 1 .. n + 1,
                      new[i].chain_id = new[j].chain_id
               PROVE  i = j
    BY <1>10 DEF DistinctIds
  <2>1. CASE i = 1 /\ j = 1
    BY <2>1
  <2>2. CASE i = 1 /\ j # 1
    <3>1. j \in 2 .. n + 1
      BY <1>8, <2>2
    <3> QED
      BY <1>6, <1>10, <1>11, <2>2, <3>1
  <2>3. CASE i # 1 /\ j = 1
    <3>1. i \in 2 .. n + 1
      BY <1>8, <2>3
    <3> QED
      BY <1>6, <1>10, <1>11, <2>3, <3>1
  <2>4. CASE i # 1 /\ j # 1
    <3>1. i \in 2 .. n + 1 /\ j \in 2 .. n + 1
      BY <1>8, <2>4
    <3>2. f[i - 1] = f[j - 1]
      BY <1>1, <1>11, <3>1 DEF DistinctIds
    <3>3. i - 1 = j - 1
      BY <1>4, <1>5, <1>11, <3>1, <3>2
    <3> QED
      BY <3>3
  <2> QED
    BY <2>1, <2>2, <2>3, <2>4
<1>13. \A i \in DOMAIN new : i = 1 \/
          \E j \in DOMAIN record :
              new[i] = record[j] /\ record[j].chain_id # k.chain_id
  <2> SUFFICES ASSUME NEW i \in 1 .. n + 1, i # 1
               PROVE  \E j \in DOMAIN record :
                          new[i] = record[j] /\ record[j].chain_id # k.chain_id
    BY <1>10
  <2>1. i \in 2 .. n + 1
    BY <1>8
  <2> QED
    BY <1>11, <2>1
<1>14. new \in GroupRecord /\ 1 \in DOMAIN new
  BY <1>8, <1>10, <1>12 DEF GroupRecord
<1> QED
  BY <1>10, <1>13, <1>14 DEF s

LEMMA NextIterationIs ==
    ASSUME NEW n \in Nat, CanAdvance(n)
    PROVE  NextIteration(n) = n + 1 /\ n + 1 <= MAX_ITERATION
BY GroupAssumption DEF CanAdvance, NextIteration

(* Getting the key of an iteration uses it up, gives back none that was    *)
(* used up, and keeps the state within the limits.                         *)
LEMMA GetKeyType ==
    ASSUME NEW s \in GoodState, NEW n \in Nat, CanGetSenderKey(s, n),
           NEW t, t = get_sender_key(s, n)
    PROVE  /\ t \in GoodState
           /\ t.chain = s.chain /\ t.chain_id = s.chain_id
           /\ s.iteration <= t.iteration
           /\ t.message_keys \subseteq s.message_keys \cup (s.iteration .. t.iteration - 1)
           /\ Consumed(t, n) /\ ~Consumed(s, n)
<1>1. /\ s \in SenderKeyState /\ s.iteration \in Nat /\ s.message_keys \in SUBSET Nat
      /\ IsFiniteSet(s.message_keys)
      /\ Cardinality(s.message_keys) <= MAX_MESSAGE_KEYS
      /\ \A k \in s.message_keys : k < s.iteration
  BY DEF GoodState, SenderKeyState
<1>2. CASE s.iteration > n
  <2>1. t = [s EXCEPT !.message_keys = s.message_keys \ {n}]
    BY <1>2 DEF get_sender_key
  <2>2. n \in s.message_keys
    BY <1>2 DEF CanGetSenderKey
  <2>3. /\ IsFiniteSet(s.message_keys \ {n})
        /\ Cardinality(s.message_keys \ {n}) <= MAX_MESSAGE_KEYS
    <3>1. /\ IsFiniteSet(s.message_keys \ {n})
          /\ Cardinality(s.message_keys \ {n}) <= Cardinality(s.message_keys)
      BY <1>1, FS_Subset
    <3>2. /\ Cardinality(s.message_keys \ {n}) \in Nat
          /\ Cardinality(s.message_keys) \in Nat
      BY <1>1, <3>1, FS_CardinalityType
    <3> QED
      BY <1>1, <3>1, <3>2, GroupAssumption
  <2> QED
    BY <1>1, <1>2, <2>1, <2>2, <2>3 DEF GoodState, SenderKeyState, Consumed
<1>3. CASE ~(s.iteration > n)
  <2> DEFINE S == s.message_keys \cup (s.iteration .. n - 1)
             K == Newest(S, MAX_MESSAGE_KEYS)
  <2>1. s.iteration <= n /\ NextIteration(n) = n + 1
    BY <1>1, <1>3, NextIterationIs DEF CanGetSenderKey
  <2>2. S \in SUBSET Nat /\ \A k \in S : k < n
    BY <1>1, <2>1
  <2>3. IsFiniteSet(S)
    <3>1. s.iteration \in Int /\ n - 1 \in Int
      BY <1>1
    <3>2. IsFiniteSet(s.iteration .. n - 1)
      BY <3>1, FS_Interval
    <3> QED
      BY <1>1, <3>2, FS_Union
  <2>4. K \subseteq S /\ IsFiniteSet(K) /\ Cardinality(K) <= MAX_MESSAGE_KEYS
    <3> HIDE DEF S
    <3> QED
      BY <2>2, <2>3, NewestBound, GroupAssumption
  <2>5. t = [s EXCEPT !.message_keys = K, !.iteration = n + 1]
    BY <1>3, <2>1 DEF get_sender_key
  <2>6. t.message_keys \subseteq s.message_keys \cup (s.iteration .. t.iteration - 1)
    <3> HIDE DEF K
    <3>1. t.message_keys = K /\ t.iteration = n + 1
      BY <1>1, <2>5 DEF SenderKeyState
    <3> QED
      BY <1>1, <2>1, <2>4, <3>1
  <2> HIDE DEF K, S
  <2>7. t \in SenderKeyState /\ t.chain = s.chain /\ t.chain_id = s.chain_id
        /\ t.message_keys = K /\ t.iteration = n + 1
    <3>1. K \in SUBSET Nat
      BY <2>2, <2>4
    <3> QED
      BY <1>1, <2>5, <3>1, n + 1 \in Nat DEF SenderKeyState
  <2>8. \A k \in K : k < n /\ k < n + 1
    BY <2>2, <2>4
  <2>9. Consumed(t, n) /\ ~Consumed(s, n)
    BY <1>1, <2>1, <2>7, <2>8 DEF Consumed
  <2> QED
    BY <1>1, <2>1, <2>4, <2>6, <2>7, <2>8, <2>9 DEF GoodState
<1> QED
  BY <1>2, <1>3

(* get_sender_key takes the key asked for; any other that is in reach      *)
(* afterwards and missing was missing before.                              *)
LEMMA GetKeyKeeps ==
    ASSUME NEW s \in GoodState, NEW n \in Nat, CanGetSenderKey(s, n),
           NEW t, t = get_sender_key(s, n),
           NEW k \in Nat, Consumed(t, k), InReach(t, k), k # n
    PROVE  Consumed(s, k) /\ InReach(s, k)
<1>1. /\ s \in SenderKeyState /\ s.iteration \in Nat /\ s.message_keys \in SUBSET Nat
      /\ \A j \in s.message_keys : j < s.iteration
  BY DEF GoodState, SenderKeyState
<1>2. CASE s.iteration > n
  <2>1. t = [s EXCEPT !.message_keys = s.message_keys \ {n}]
    BY <1>2 DEF get_sender_key
  <2>2. t.iteration = s.iteration /\ t.message_keys = s.message_keys \ {n}
    BY <1>1, <2>1 DEF SenderKeyState
  <2> QED
    BY <2>2 DEF Consumed, InReach
<1>3. CASE ~(s.iteration > n)
  <2> DEFINE S == s.message_keys \cup (s.iteration .. n - 1)
             K == Newest(S, MAX_MESSAGE_KEYS)
  <2>1. s.iteration <= n /\ NextIteration(n) = n + 1
    BY <1>1, <1>3, NextIterationIs DEF CanGetSenderKey
  <2>2. S \in SUBSET Nat /\ \A j \in S : j < n
    BY <1>1, <2>1
  <2>3. t.message_keys = K /\ t.iteration = n + 1
    <3>1. t = [s EXCEPT !.message_keys = K, !.iteration = n + 1]
      BY <1>3, <2>1 DEF get_sender_key
    <3> HIDE DEF K
    <3> QED
      BY <1>1, <3>1 DEF SenderKeyState
  <2> HIDE DEF K
  <2>4. k < n /\ k \notin K /\ n - k <= MAX_MESSAGE_KEYS
    BY <2>3, GroupAssumption DEF Consumed, InReach
  <2>5. k \notin S
    <3> HIDE DEF S
    <3> SUFFICES ASSUME k \in S PROVE FALSE
      OBVIOUS
    <3>1. k \in Newest(S, MAX_MESSAGE_KEYS)
      BY <2>2, <2>4, NewestKeeps, GroupAssumption
    <3> QED
      BY <2>4, <3>1 DEF K
  <2> QED
    BY <1>1, <2>1, <2>4, <2>5, GroupAssumption DEF Consumed, InReach
<1> QED
  BY <1>2, <1>3
-----------------------------------------------------------------------------
(* The inductive invariant.                                                *)

LEMMA GroupRecords ==
    ASSUME GroupInv
    PROVE  own \in GroupRecord /\ \A r \in Member : records[r] \in GroupRecord
BY RecordLimits DEF GroupInv, TypeOK, GroupLimitsRespected

LEMMA GroupInitInv == Init => GroupInv
<1> SUFFICES ASSUME Init PROVE GroupInv
  OBVIOUS
<1>1. TypeOK
  BY GroupAssumption DEF Init, TypeOK
<1>2. GroupLimitsRespected
  BY GroupAssumption DEF Init, GroupLimitsRespected, RecordWithinLimits
<1>3. IsFiniteSet(skms)
  BY FS_EmptySet DEF Init
<1>4. ChainsAnnounced /\ SenderAhead /\ GroupNoKeyReuse
  BY GroupAssumption DEF Init, ChainsAnnounced, SenderAhead, GroupNoKeyReuse
<1>5. StatesInstalled /\ NoHistory /\ DeliveredConsumed /\ AtMostOncePerInstall
  BY DEF Init, StatesInstalled, NoHistory, DeliveredConsumed, AtMostOncePerInstall
<1>6. KeysKept /\ MessagesAdvance
  BY DEF Init, KeysKept, MessagesAdvance
<1> QED
  BY <1>1, <1>2, <1>3, <1>4, <1>5, <1>6 DEF GroupInv

(* The parts about the members are kept by a step of the sender.           *)
LEMMA SenderStep ==
    ASSUME GroupInv, UNCHANGED << records, installs, delivered, replayed >>
    PROVE  (/\ StatesInstalled /\ NoHistory /\ DeliveredConsumed /\ AtMostOncePerInstall
            /\ KeysKept)'
<1>1. (StatesInstalled /\ NoHistory /\ DeliveredConsumed /\ AtMostOncePerInstall)'
  BY DEF GroupInv, StatesInstalled, NoHistory, DeliveredConsumed, AtMostOncePerInstall,
         Latest, InstalledAt, Consumed
<1>2. KeysKept'
  BY DEF GroupInv, KeysKept, DeliveredAt, InReach, Consumed, Latest, InstalledAt
<1> QED
  BY <1>1, <1>2

LEMMA CreateStep ==
    ASSUME GroupInv, NEW id \in ChainId, create_sender_key_distribution_message(id)
    PROVE  GroupInv'
<1> DEFINE k == [chain_id |-> id, chain |-> chains', iteration |-> 0]
           a == [chain_id |-> own'[1].chain_id, chain |-> own'[1].chain,
                 iteration |-> own'[1].iteration]
<1>1. /\ skdms' = skdms \cup {a}
      /\ UNCHANGED << records, skms, installs, delivered, replayed >>
  BY DEF create_sender_key_distribution_message, Distribute
<1>2. /\ own \in GroupRecord /\ \A r \in Member : records[r] \in GroupRecord
      /\ TypeOK /\ ChainsAnnounced
  BY GroupRecords DEF GroupInv
(* A new chain is named by a number no other chain has.                    *)
<1>3. CASE own = << >>
  <2>1. /\ chains < MaxChains /\ chains' = chains + 1
        /\ own' = add_sender_key_state(own, k)
    BY <1>3 DEF create_sender_key_distribution_message
  <2>2. k \in SenderKeyDistributionMessage /\ chains \in Nat
    BY <1>2, <2>1 DEF TypeOK, SenderKeyDistributionMessage, Chain
  <2>3. ~Has(own, k)
    BY <1>3 DEF Has
  <2>4. /\ own' \in GroupRecord /\ 1 \in DOMAIN own'
        /\ own'[1] = NewState(id, chains + 1, 0)
    BY <1>2, <2>1, <2>2, <2>3, AddStateType, StateToAddType
  <2>5. a = [chain_id |-> id, chain |-> chains + 1, iteration |-> 0]
    BY <2>4 DEF NewState
  <2> HIDE DEF a
  <2>6. own'[1].chain = chains + 1 /\ own'[1].iteration = 0 /\ own'[1].chain_id = id
    BY <2>4 DEF NewState
  <2>7. TypeOK'
    <3>1. own' \in Seq(SenderKeyState)
      BY <2>4, RecordLimits
    <3>2. skdms' \subseteq SenderKeyDistributionMessage
      BY <1>1, <1>2, <2>1, <2>2, <2>5 DEF TypeOK
    <3> QED
      BY <1>1, <1>2, <2>1, <2>2, <3>1, <3>2 DEF TypeOK
  <2>8. ChainsAnnounced'
    <3>1. \A s : Announced(s) => Announced(s)'
      BY <1>1 DEF Announced
    <3>2. Announced(own[1])'
      BY <1>1, <2>5, <2>6 DEF Announced
    <3>3. \A l \in skdms : l.chain \in 1 .. chains /\ l.chain # a.chain
      BY <1>2, <2>2, <2>5 DEF ChainsAnnounced
    <3>4. \A l \in skdms' : l.chain \in 1 .. chains'
      BY <1>1, <2>1, <2>2, <2>5, <3>3
    <3>5. \A l1, l2 \in skdms' : l1.chain = l2.chain => l1.chain_id = l2.chain_id
      BY <1>1, <1>2, <3>3 DEF ChainsAnnounced
    <3>6. chains' <= MaxChains
      BY <2>1, <2>2, GroupAssumption
    <3>7. /\ \A r \in Member : \A i \in DOMAIN records'[r] : Announced(records[r][i])'
          /\ \A m \in skms' : Announced(m)'
      BY <1>1, <1>2 DEF ChainsAnnounced, Announced
    <3> QED
      BY <3>2, <3>4, <3>5, <3>6, <3>7 DEF ChainsAnnounced
  <2>9. SenderAhead'
    <3>1. \A m \in skms : m.chain \in 1 .. chains
      BY <1>2 DEF ChainsAnnounced, Announced
    <3>2. \A m \in skms : m.chain # own'[1].chain
      BY <2>2, <2>6, <3>1
    <3> QED
      BY <1>1, <2>6, <3>2, GroupAssumption DEF SenderAhead
  <2> QED
    BY <1>1, <1>2, <2>4, <2>7, <2>8, <2>9, SenderStep, RecordLimits
    DEF GroupInv, GroupLimitsRespected, GroupNoKeyReuse, MessagesAdvance, CanAdvance
<1>4. CASE own # << >>
  <2>1. UNCHANGED << own, chains >>
    BY <1>4 DEF create_sender_key_distribution_message
  <2>2. own[1] \in SenderKeyState /\ Announced(own[1])
    BY <1>2, <1>4 DEF TypeOK, ChainsAnnounced
  <2>3. a \in SenderKeyDistributionMessage /\ a.chain = own[1].chain
        /\ a.chain_id = own[1].chain_id
    BY <2>1, <2>2 DEF SenderKeyState, SenderKeyDistributionMessage
  <2> HIDE DEF a
  <2>4. PICK l \in skdms : l.chain = a.chain /\ l.chain_id = a.chain_id
    BY <2>2, <2>3 DEF Announced
  <2>5. TypeOK'
    BY <1>1, <1>2, <2>1, <2>3 DEF TypeOK
  <2>6. ChainsAnnounced'
    <3>1. \A l1, l2 \in skdms' : l1.chain = l2.chain => l1.chain_id = l2.chain_id
      BY <1>1, <1>2, <2>4 DEF ChainsAnnounced
    <3>2. \A j \in skdms' : j.chain \in 1 .. chains'
      BY <1>1, <1>2, <2>1, <2>4 DEF ChainsAnnounced
    <3>3. /\ \A r \in Member : \A i \in DOMAIN records'[r] : Announced(records[r][i])'
          /\ \A m \in skms' : Announced(m)'
          /\ Announced(own[1])'
      BY <1>1, <1>2, <2>1, <2>2 DEF ChainsAnnounced, Announced
    <3> QED
      BY <1>2, <2>1, <3>1, <3>2, <3>3 DEF ChainsAnnounced
  <2> QED
    BY <1>1, <2>1, <2>5, <2>6, SenderStep
    DEF GroupInv, GroupLimitsRespected, GroupNoKeyReuse, SenderAhead, MessagesAdvance,
        CanAdvance
<1> QED
  BY <1>3, <1>4

LEMMA ResetStep ==
    ASSUME GroupInv, ResetSender
    PROVE  GroupInv'
<1>1. own' = << >> /\ UNCHANGED << records, chains, skdms, skms, installs, delivered, replayed >>
  BY DEF ResetSender
<1>2. TypeOK' /\ GroupLimitsRespected'
  BY <1>1, GroupAssumption
  DEF GroupInv, TypeOK, GroupLimitsRespected, RecordWithinLimits
<1>3. ChainsAnnounced' /\ SenderAhead' /\ GroupNoKeyReuse' /\ IsFiniteSet(skms)'
  BY <1>1 DEF GroupInv, ChainsAnnounced, Announced, SenderAhead, GroupNoKeyReuse
<1> QED
  BY <1>1, <1>2, <1>3, SenderStep DEF GroupInv, MessagesAdvance, CanAdvance

LEMMA GroupEncryptStep ==
    ASSUME GroupInv, group_encrypt
    PROVE  GroupInv'
<1> DEFINE s == own[1]
           t == [s EXCEPT !.iteration = s.iteration + 1]
           m == [chain_id |-> s.chain_id, chain |-> s.chain,
                 iteration |-> s.iteration, number |-> Cardinality(skms)]
<1>1. /\ own \in GroupRecord /\ \A r \in Member : records[r] \in GroupRecord
      /\ TypeOK /\ ChainsAnnounced /\ SenderAhead /\ IsFiniteSet(skms)
  BY GroupRecords DEF GroupInv
<1>2. /\ own # << >> /\ CanAdvance(s.iteration)
      /\ skms' = skms \cup {m}
      /\ UNCHANGED << records, chains, skdms, installs, delivered, replayed >>
  BY DEF group_encrypt
<1>3. 1 \in DOMAIN own /\ s \in GoodState /\ s.iteration \in Nat
  BY <1>1, <1>2 DEF GroupRecord, GoodState, SenderKeyState
<1>4. NextIteration(s.iteration) = s.iteration + 1 /\ s.iteration + 1 <= MAX_ITERATION
  BY <1>2, <1>3, NextIterationIs
<1>5. own' = [own EXCEPT ![1] = t]
  <2>1. own' = [own EXCEPT ![1].iteration = NextIteration(own[1].iteration)]
    BY DEF group_encrypt
  <2> QED
    BY <1>3, <1>4, <2>1
<1>6. /\ t \in GoodState /\ t.iteration = s.iteration + 1
      /\ t.chain = s.chain /\ t.chain_id = s.chain_id
  BY <1>3 DEF GoodState, SenderKeyState
<1>7. Cardinality(skms) \in Nat
  BY <1>1, FS_CardinalityType
<1>8. m \in SenderKeyMessage
  BY <1>3, <1>7 DEF GoodState, SenderKeyState, SenderKeyMessage
<1>9. m.chain = s.chain /\ m.chain_id = s.chain_id /\ m.iteration = s.iteration
  OBVIOUS
<1> HIDE DEF t, m
<1>10. own' \in GroupRecord /\ own'[1] = t
  <2>1. own \in Seq(GoodState) /\ DistinctIds(own) /\ Len(own) <= MAX_SENDER_KEY_STATES
    BY <1>1 DEF GroupRecord
  <2>2. /\ own' \in Seq(GoodState) /\ Len(own') = Len(own) /\ DOMAIN own' = DOMAIN own
        /\ \A i \in DOMAIN own : own'[i] = IF i = 1 THEN t ELSE own[i]
    BY <1>3, <1>5, <1>6, <2>1
  <2>3. \A i \in DOMAIN own : own'[i].chain_id = own[i].chain_id
    BY <1>6, <2>2
  <2> QED
    BY <1>3, <2>1, <2>2, <2>3 DEF GroupRecord, DistinctIds
<1>11. TypeOK'
  <2>1. own' \in Seq(SenderKeyState)
    BY <1>10, RecordLimits
  <2>2. skms' \subseteq SenderKeyMessage /\ skms \subseteq skms'
    BY <1>1, <1>2, <1>8 DEF TypeOK
  <2>3. delivered' \subseteq Member \X skms' \X Nat
    BY <1>1, <1>2, <2>2 DEF TypeOK
  <2> QED
    BY <1>1, <1>2, <2>1, <2>2, <2>3 DEF TypeOK
<1>12. ChainsAnnounced'
  <2>1. \E l \in skdms : l.chain = s.chain /\ l.chain_id = s.chain_id
    BY <1>1, <1>2 DEF ChainsAnnounced, Announced
  <2>2. /\ \A n \in skms' : Announced(n)'
        /\ \A r \in Member : \A i \in DOMAIN records'[r] : Announced(records[r][i])'
    BY <1>1, <1>2, <1>9, <2>1 DEF ChainsAnnounced, Announced
  <2>3. Announced(own[1])'
    BY <1>2, <1>6, <1>10, <2>1 DEF Announced
  <2> QED
    BY <1>1, <1>2, <2>2, <2>3 DEF ChainsAnnounced
(* The key of the new message is ahead of those of its chain, behind the   *)
(* sender's next one.                                                      *)
<1>13. /\ \A n \in skms : n.chain = m.chain => n.iteration < m.iteration
       /\ \A n \in skms : n.iteration \in Nat
  BY <1>1, <1>2, <1>9 DEF SenderAhead, TypeOK, SenderKeyMessage
<1>14. SenderAhead'
  <2>1. \A n \in skms' : n.chain = own'[1].chain => n.iteration < own'[1].iteration
    BY <1>2, <1>3, <1>6, <1>9, <1>10, <1>13
  <2> QED
    BY <1>4, <1>6, <1>10, <2>1 DEF SenderAhead
<1>15. GroupNoKeyReuse'
  <2>1. \A n \in skms : ~(n.chain = m.chain /\ n.iteration = m.iteration)
    BY <1>3, <1>9, <1>13
  <2> QED
    BY <1>2, <2>1 DEF GroupInv, GroupNoKeyReuse
<1>16. IsFiniteSet(skms')
  BY <1>1, <1>2, FS_AddElement
<1>17. MessagesAdvance'
  <2>1. \A n \in skms' : CanAdvance(n.iteration)
    BY <1>2, <1>9 DEF GroupInv, MessagesAdvance
  <2> QED
    BY <2>1 DEF MessagesAdvance, CanAdvance
<1> QED
  BY <1>1, <1>2, <1>10, <1>11, <1>12, <1>14, <1>15, <1>16, <1>17, SenderStep, RecordLimits
  DEF GroupInv, GroupLimitsRespected

-----------------------------------------------------------------------------
(* Steps of a member.                                                      *)

(* A record has at most one state of a chain.                              *)
LEMMA OneStatePerChain ==
    ASSUME GroupInv, NEW r \in Member,
           NEW i \in DOMAIN records[r], NEW j \in DOMAIN records[r],
           records[r][i].chain = records[r][j].chain
    PROVE  i = j
<1>1. records[r][i].chain_id = records[r][j].chain_id
  BY DEF GroupInv, ChainsAnnounced, Announced
<1> QED
  BY <1>1, GroupRecords DEF GroupRecord, DistinctIds

(* A member that has no state for an announcement has none of its chain.   *)
LEMMA NoStateOfChain ==
    ASSUME GroupInv, NEW r \in Member, NEW k \in skdms, ~Has(records[r], k)
    PROVE  \A i \in DOMAIN records[r] : records[r][i].chain # k.chain
BY DEF GroupInv, ChainsAnnounced, Announced, Has

(* The parts about the sender are kept by a step of a member.              *)
LEMMA MemberStep ==
    ASSUME GroupInv, UNCHANGED << own, chains, skdms, skms >>
    PROVE  (IsFiniteSet(skms) /\ SenderAhead /\ GroupNoKeyReuse /\ MessagesAdvance)'
BY DEF GroupInv, SenderAhead, GroupNoKeyReuse, MessagesAdvance, CanAdvance

LEMMA StateFacts ==
    ASSUME GroupInv, NEW r \in Member, NEW i \in DOMAIN records[r]
    PROVE  /\ records[r][i] \in GoodState
           /\ records[r][i].chain \in 1 .. MaxChains
<1>1. records[r][i] \in GoodState
  BY GroupRecords DEF GroupRecord
<1>2. records[r][i].chain \in 1 .. chains /\ chains <= MaxChains /\ chains \in Nat
  BY DEF GroupInv, ChainsAnnounced, Announced, TypeOK
<1> QED
  BY <1>1, <1>2, GroupAssumption

LEMMA ProcessStep ==
    ASSUME GroupInv, NEW r \in Member, NEW k \in skdms,
           process_sender_key_distribution_message(r, k)
    PROVE  GroupInv'
<1> DEFINE old == records[r]
           new == add_sender_key_state(old, k)
<1>1. /\ TypeOK /\ ChainsAnnounced /\ StatesInstalled /\ NoHistory /\ DeliveredConsumed
      /\ own \in GroupRecord /\ \A q \in Member : records[q] \in GroupRecord
  BY GroupRecords DEF GroupInv
<1>2. /\ records' = [records EXCEPT ![r] = new]
      /\ UNCHANGED << own, chains, skdms, skms, delivered, replayed >>
  BY DEF process_sender_key_distribution_message
<1>3. \/ Has(old, k) /\ installs' = installs
      \/ /\ ~Has(old, k)
         /\ installs' = [installs EXCEPT ![r][k.chain] = Append(@, k.iteration)]
  BY DEF process_sender_key_distribution_message
<1>4. k \in SenderKeyDistributionMessage /\ k.chain \in 1 .. MaxChains /\ k.iteration \in Nat
  <2>1. k.chain \in 1 .. chains /\ chains <= MaxChains /\ chains \in Nat
    BY <1>1 DEF ChainsAnnounced, TypeOK
  <2> QED
    BY <1>1, <2>1, GroupAssumption DEF TypeOK, SenderKeyDistributionMessage
<1>5. /\ new \in GroupRecord
      /\ \A i \in DOMAIN new :
            \/ \E j \in DOMAIN old : new[i] = old[j]
            \/ ~Has(old, k) /\ new[i] = NewState(k.chain_id, k.chain, k.iteration)
  BY <1>1, <1>4, AddStateType, StateToAddType
<1> HIDE DEF new
<1>6. /\ records' \in [Member -> GroupRecord] /\ records'[r] = new
      /\ \A q \in Member : q # r => records'[q] = records[q]
  <2>1. records \in [Member -> GroupRecord]
    BY <1>1 DEF TypeOK
  <2> QED
    BY <1>2, <1>5, <2>1
<1>7. installs \in [Member -> [1 .. MaxChains -> Seq(Nat)]]
  BY <1>1 DEF TypeOK
(* Installing appends; what a member has of other chains is as it was.     *)
<1>8. /\ installs' \in [Member -> [1 .. MaxChains -> Seq(Nat)]]
      /\ \A q \in Member : \A c \in 1 .. MaxChains :
            (q # r \/ c # k.chain \/ Has(old, k)) => installs'[q][c] = installs[q][c]
      /\ ~Has(old, k) => installs'[r][k.chain] = Append(installs[r][k.chain], k.iteration)
  <2>1. CASE Has(old, k)
    BY <1>3, <1>7, <2>1
  <2>2. CASE ~Has(old, k)
    <3> DEFINE l == Append(installs[r][k.chain], k.iteration)
    <3>1. l \in Seq(Nat)
      <4>1. installs[r][k.chain] \in Seq(Nat)
        BY <1>4, <1>7
      <4> QED
        BY <1>4, <4>1
    <3>2. installs' = [installs EXCEPT ![r] = [installs[r] EXCEPT ![k.chain] = l]]
      BY <1>3, <1>4, <1>7, <2>2
    <3> HIDE DEF l
    <3>3. /\ installs' \in [Member -> [1 .. MaxChains -> Seq(Nat)]]
          /\ installs'[r][k.chain] = l
          /\ \A q \in Member : \A c \in 1 .. MaxChains :
                (q # r \/ c # k.chain) => installs'[q][c] = installs[q][c]
      BY <1>4, <1>7, <3>1, <3>2
    <3> QED
      BY <2>2, <3>3 DEF l
  <2> QED
    BY <2>1, <2>2
<1>9. TypeOK'
  <2>1. records' \in [Member -> Seq(SenderKeyState)]
    BY <1>6, RecordLimits
  <2> QED
    BY <1>1, <1>2, <1>8, <2>1 DEF TypeOK
<1>10. ChainsAnnounced'
  <2>1. ASSUME NEW q \in Member, NEW i \in DOMAIN records'[q]
        PROVE  Announced(records'[q][i])
    <3>1. CASE q # r
      BY <1>1, <1>6, <2>1, <3>1 DEF ChainsAnnounced
    <3>2. CASE q = r
      <4>1. CASE \E j \in DOMAIN old : new[i] = old[j]
        BY <1>1, <1>6, <3>2, <4>1 DEF ChainsAnnounced
      <4>2. CASE new[i] = NewState(k.chain_id, k.chain, k.iteration)
        BY <1>6, <3>2, <4>2 DEF Announced, NewState
      <4> QED
        BY <1>5, <1>6, <2>1, <3>2, <4>1, <4>2
    <3> QED
      BY <3>1, <3>2
  <2> QED
    BY <1>1, <1>2, <2>1 DEF ChainsAnnounced, Announced
<1>11. ASSUME NEW q \in Member, NEW i \in DOMAIN records'[q]
       PROVE  \/ \E j \in DOMAIN records[q] :
                    /\ records'[q][i] = records[q][j]
                    /\ records[q][j].chain \in 1 .. MaxChains
                    /\ installs'[q][records[q][j].chain] = installs[q][records[q][j].chain]
              \/ /\ q = r /\ ~Has(old, k)
                 /\ records'[q][i] = NewState(k.chain_id, k.chain, k.iteration)
  <2>1. CASE q # r
    <3>1. i \in DOMAIN records[q] /\ records'[q][i] = records[q][i]
      BY <1>6, <1>11, <2>1
    <3>2. records[q][i].chain \in 1 .. MaxChains
      BY <3>1, StateFacts
    <3> QED
      BY <1>8, <2>1, <3>1, <3>2
  <2>2. CASE q = r
    <3>1. ASSUME NEW j \in DOMAIN old, new[i] = old[j]
          PROVE  /\ old[j].chain \in 1 .. MaxChains
                 /\ installs'[r][old[j].chain] = installs[r][old[j].chain]
      BY <1>8, StateFacts, NoStateOfChain
    <3> QED
      BY <1>5, <1>6, <1>11, <2>2, <3>1
  <2> QED
    BY <2>1, <2>2
<1>12. StatesInstalled'
  <2> SUFFICES ASSUME NEW q \in Member, NEW i \in DOMAIN records'[q]
               PROVE  LET s == records'[q][i]
                          l == installs'[q][s.chain]
                      IN  /\ Len(l) > 0
                          /\ l[Len(l)] <= s.iteration
                          /\ \A n \in s.message_keys : l[Len(l)] <= n
    BY DEF StatesInstalled, Latest, InstalledAt
  <2>1. CASE \E j \in DOMAIN records[q] :
                /\ records'[q][i] = records[q][j]
                /\ installs'[q][records[q][j].chain] = installs[q][records[q][j].chain]
    BY <1>1, <2>1 DEF StatesInstalled, Latest, InstalledAt
  <2>2. CASE /\ q = r /\ ~Has(old, k)
             /\ records'[q][i] = NewState(k.chain_id, k.chain, k.iteration)
    <3> DEFINE l == installs[r][k.chain]
    <3>1. l \in Seq(Nat) /\ installs'[r][k.chain] = Append(l, k.iteration)
      BY <1>4, <1>7, <1>8, <2>2
    <3>2. Len(Append(l, k.iteration)) > 0
          /\ Append(l, k.iteration)[Len(Append(l, k.iteration))] = k.iteration
      <4> HIDE DEF l
      <4> QED
        BY <1>4, <3>1
    <3>3. /\ records'[q][i].chain = k.chain /\ records'[q][i].iteration = k.iteration
          /\ records'[q][i].message_keys = {}
      BY <2>2 DEF NewState
    <3> DEFINE k1 == Append(l, k.iteration)
    <3>4. installs'[q][records'[q][i].chain] = k1
      BY <2>2, <3>1, <3>3
    <3>5. Len(k1) > 0 /\ k1[Len(k1)] = k.iteration
      BY <3>2
    <3> HIDE DEF k1, l
    <3> QED
      BY <1>4, <3>3, <3>4, <3>5
  <2> QED
    BY <1>11, <2>1, <2>2
<1>13. ASSUME NEW d \in delivered
       PROVE  /\ d[1] \in Member /\ d[2] \in skms /\ d[2].chain \in 1 .. MaxChains
              /\ installs[d[1]][d[2].chain] \in Seq(Nat)
              /\ d[3] \in 1 .. Len(installs[d[1]][d[2].chain])
  <2>1. d[1] \in Member /\ d[2] \in skms
    BY <1>1 DEF TypeOK
  <2>2. d[2].chain \in 1 .. chains /\ chains <= MaxChains /\ chains \in Nat
    BY <1>1, <2>1 DEF ChainsAnnounced, Announced, TypeOK
  <2>3. d[2].chain \in 1 .. MaxChains
    BY <2>2, GroupAssumption
  <2> QED
    BY <1>1, <1>7, <2>1, <2>3 DEF DeliveredConsumed, Latest
<1>14. NoHistory'
  <2> SUFFICES ASSUME NEW d \in delivered
               PROVE  d[3] > 0 /\ installs'[d[1]][d[2].chain][d[3]] <= d[2].iteration
    BY <1>2 DEF NoHistory
  <2>1. d[3] > 0 /\ installs[d[1]][d[2].chain][d[3]] <= d[2].iteration
    BY <1>1 DEF NoHistory
  <2>2. installs'[d[1]][d[2].chain][d[3]] = installs[d[1]][d[2].chain][d[3]]
    <3>1. CASE d[1] = r /\ d[2].chain = k.chain /\ ~Has(old, k)
      <4>1. \A l \in Seq(Nat) : \A n \in 1 .. Len(l) : Append(l, k.iteration)[n] = l[n]
        OBVIOUS
      <4>2. installs'[d[1]][d[2].chain] = Append(installs[d[1]][d[2].chain], k.iteration)
        BY <1>8, <3>1
      <4> DEFINE l == installs[d[1]][d[2].chain]
                 n == d[3]
      <4>3. l \in Seq(Nat) /\ n \in 1 .. Len(l)
        BY <1>13
      <4> HIDE DEF l, n
      <4>4. Append(l, k.iteration)[n] = l[n]
        BY <4>1, <4>3
      <4> QED
        BY Zenon, <4>2, <4>4 DEF l, n
    <3> QED
      BY Zenon, <1>8, <1>13, <3>1
  <2> QED
    BY <2>1, <2>2
<1>15. DeliveredConsumed'
  <2> SUFFICES ASSUME NEW d \in delivered
               PROVE  /\ d[3] \in 1 .. Len(installs'[d[1]][d[2].chain])
                      /\ d[3] = Len(installs'[d[1]][d[2].chain]) =>
                            \A i \in DOMAIN records'[d[1]] :
                               records'[d[1]][i].chain = d[2].chain =>
                                   Consumed(records'[d[1]][i], d[2].iteration)
    BY <1>2 DEF DeliveredConsumed, Latest, Consumed
  <2>1. CASE d[1] = r /\ d[2].chain = k.chain /\ ~Has(old, k)
    <3>1. \A l \in Seq(Nat) : \A n \in 1 .. Len(l) :
              /\ n \in 1 .. Len(Append(l, k.iteration))
              /\ n # Len(Append(l, k.iteration))
      OBVIOUS
    <3> QED
      BY <1>8, <1>13, <2>1, <3>1
  <2>2. CASE ~(d[1] = r /\ d[2].chain = k.chain /\ ~Has(old, k))
    <3>1. installs'[d[1]][d[2].chain] = installs[d[1]][d[2].chain]
      BY <1>8, <1>13, <2>2
    <3>2. ASSUME NEW i \in DOMAIN records'[d[1]], records'[d[1]][i].chain = d[2].chain
          PROVE  \E j \in DOMAIN records[d[1]] : records'[d[1]][i] = records[d[1]][j]
      BY <1>11, <1>13, <2>2, <3>2 DEF NewState
    <3> QED
      BY <1>1, <1>13, <3>1, <3>2 DEF DeliveredConsumed, Latest
  <2> QED
    BY <2>1, <2>2
<1>16. GroupLimitsRespected'
  BY <1>1, <1>2, <1>6, RecordLimits DEF GroupLimitsRespected
(* A new state is at its installation and lacks no key since.              *)
<1>17. KeysKept'
  <2> SUFFICES ASSUME NEW q \in Member, NEW i \in DOMAIN records'[q], NEW n \in Nat,
                      NEW s, s = records'[q][i],
                      InstalledAt(q, s.chain)' <= n, Consumed(s, n), InReach(s, n)
               PROVE  DeliveredAt(q, s.chain, n)'
    BY DEF KeysKept, Consumed, InReach
  <2>1. CASE \E j \in DOMAIN records[q] :
                /\ records'[q][i] = records[q][j]
                /\ installs'[q][records[q][j].chain] = installs[q][records[q][j].chain]
    <3>1. PICK j \in DOMAIN records[q] :
              /\ s = records[q][j]
              /\ installs'[q][s.chain] = installs[q][s.chain]
      BY <2>1
    <3>2. InstalledAt(q, s.chain)' = InstalledAt(q, s.chain)
          /\ Latest(q, s.chain)' = Latest(q, s.chain)
      BY <3>1 DEF InstalledAt, Latest
    <3>3. DeliveredAt(q, s.chain, n)
      BY <3>1, <3>2 DEF GroupInv, KeysKept
    <3> QED
      BY <1>2, <3>2, <3>3 DEF DeliveredAt
  <2>2. CASE /\ q = r /\ ~Has(old, k)
             /\ records'[q][i] = NewState(k.chain_id, k.chain, k.iteration)
    <3> DEFINE l == installs[r][k.chain]
               l1 == Append(l, k.iteration)
    <3>1. l \in Seq(Nat) /\ installs'[r][k.chain] = l1
      BY <1>4, <1>7, <1>8, <2>2
    <3>2. l1[Len(l1)] = k.iteration
      <4> HIDE DEF l
      <4> QED
        BY <1>4, <3>1
    <3>3. s.chain = k.chain /\ s.iteration = k.iteration
      BY <2>2 DEF NewState
    <3>4. InstalledAt(q, s.chain)' = k.iteration
      BY <2>2, <3>1, <3>2, <3>3 DEF InstalledAt, Latest
    <3> QED
      BY <1>4, <3>3, <3>4 DEF Consumed
  <2> QED
    BY <1>11, <2>1, <2>2
<1> QED
  BY <1>2, <1>9, <1>10, <1>12, <1>14, <1>15, <1>16, <1>17, MemberStep
  DEF GroupInv, AtMostOncePerInstall

(* The lookup by chain id finds the state that has it.                     *)
LEMMA StateLookup ==
    ASSUME GroupInv, NEW r \in Member, NEW id,
           NEW i \in DOMAIN records[r], records[r][i].chain_id = id
    PROVE  sender_key_state_for_chain_id(records[r], id) = i
<1> DEFINE Of(j) == /\ records[r][j].chain_id = id
                    /\ \A l \in 1 .. j - 1 : records[r][l].chain_id # id
           c     == CHOOSE j \in DOMAIN records[r] : Of(j)
<1>1. records[r] \in GroupRecord
  BY GroupRecords
<1>2. \A j \in DOMAIN records[r] : records[r][j].chain_id = id => j = i
  BY <1>1 DEF GroupRecord, DistinctIds
<1>3. Of(i)
  <2>1. \A j \in 1 .. i - 1 : j \in DOMAIN records[r] /\ j # i
    BY <1>1 DEF GroupRecord
  <2> QED
    BY <1>2, <2>1
<1>4. c \in DOMAIN records[r] /\ Of(c)
  BY <1>3
<1>5. c = i
  <2> HIDE DEF c
  <2> QED
    BY <1>2, <1>4
<1> QED
  BY <1>5 DEF sender_key_state_for_chain_id

(* What decrypting m does to the record of r: one state, of the chain of m *)
(* and not past m, gets past it.                                           *)
LEMMA DecryptEffect ==
    ASSUME GroupInv, NEW r \in Member, NEW m \in skms, group_decrypt(r, m)
    PROVE  \E i \in DOMAIN records[r] :
              LET s == records[r][i]
                  t == get_sender_key(s, m.iteration)
              IN  /\ s.chain = m.chain
                  /\ CanGetSenderKey(s, m.iteration)
                  /\ records' = [records EXCEPT ![r] = [records[r] EXCEPT ![i] = t]]
<1> DEFINE i0 == sender_key_state_for_chain_id(records[r], m.chain_id)
<1>1. records[r] \in GroupRecord /\ records \in [Member -> Seq(SenderKeyState)]
  BY GroupRecords DEF GroupInv, TypeOK
<1>2. PICK i \in DOMAIN records[r] : records[r][i].chain_id = m.chain_id
  BY DEF group_decrypt, Known
<1>3. i0 \in DOMAIN records[r]
  BY <1>2, StateLookup
<1>4. /\ records[r][i0].chain = m.chain
      /\ CanGetSenderKey(records[r][i0], m.iteration)
      /\ records' = [records EXCEPT ![r][i0] = get_sender_key(records[r][i0], m.iteration)]
  BY DEF group_decrypt, verify_signature
<1> HIDE DEF i0
<1> QED
  BY <1>1, <1>3, <1>4

LEMMA GroupDecryptStep ==
    ASSUME GroupInv, NEW r \in Member, NEW m \in skms, group_decrypt(r, m)
    PROVE  GroupInv'
<1>1. /\ TypeOK /\ ChainsAnnounced /\ StatesInstalled /\ NoHistory /\ DeliveredConsumed
      /\ AtMostOncePerInstall
      /\ own \in GroupRecord /\ \A q \in Member : records[q] \in GroupRecord
  BY GroupRecords DEF GroupInv
<1>2. PICK i \in DOMAIN records[r] :
          /\ records[r][i].chain = m.chain
          /\ CanGetSenderKey(records[r][i], m.iteration)
          /\ records' = [records EXCEPT ![r] =
                [records[r] EXCEPT ![i] = get_sender_key(records[r][i], m.iteration)]]
  BY DecryptEffect
<1> DEFINE s == records[r][i]
           t == get_sender_key(s, m.iteration)
           new == [records[r] EXCEPT ![i] = t]
           c == m.chain
           n == Len(installs[r][c])
           d0 == << r, m, n >>
<1>3. /\ s \in GoodState /\ c \in 1 .. MaxChains /\ m.iteration \in Nat
      /\ m \in SenderKeyMessage
  BY <1>1, <1>2, StateFacts DEF TypeOK, SenderKeyMessage
<1>4. /\ t \in GoodState /\ t.chain = c /\ t.chain_id = s.chain_id
      /\ s.iteration <= t.iteration
      /\ t.message_keys \subseteq s.message_keys \cup (s.iteration .. t.iteration - 1)
      /\ Consumed(t, m.iteration) /\ ~Consumed(s, m.iteration)
  BY <1>2, <1>3, GetKeyType
<1>5. /\ delivered' = delivered \cup {d0}
      /\ replayed' = IF d0 \in delivered THEN replayed \cup {d0} ELSE replayed
      /\ UNCHANGED << own, chains, skdms, skms, installs >>
  BY DEF group_decrypt, Delivery
<1>6. records' = [records EXCEPT ![r] = new] /\ s.chain = c
  BY <1>2
<1>7. s.iteration \in Nat /\ t.iteration \in Nat /\ s.message_keys \subseteq Nat
  BY <1>3, <1>4 DEF GoodState, SenderKeyState
<1> HIDE DEF s, t
<1>8. /\ new \in GroupRecord /\ DOMAIN new = DOMAIN records[r]
      /\ \A j \in DOMAIN records[r] : new[j] = IF j = i THEN t ELSE records[r][j]
  <2>1. records[r] \in Seq(GoodState) /\ DistinctIds(records[r])
        /\ Len(records[r]) <= MAX_SENDER_KEY_STATES
    BY <1>1 DEF GroupRecord
  <2>2. /\ new \in Seq(GoodState) /\ DOMAIN new = DOMAIN records[r]
        /\ Len(new) = Len(records[r])
        /\ \A j \in DOMAIN records[r] : new[j] = IF j = i THEN t ELSE records[r][j]
    BY <1>2, <1>4, <2>1
  <2>3. \A j \in DOMAIN records[r] : new[j].chain_id = records[r][j].chain_id
    BY <1>4, <2>2 DEF s
  <2> HIDE DEF new
  <2> QED
    BY <2>1, <2>2, <2>3 DEF GroupRecord, DistinctIds
<1> HIDE DEF new
<1>9. /\ records' \in [Member -> GroupRecord] /\ records'[r] = new
      /\ \A q \in Member : q # r => records'[q] = records[q]
  <2>1. records \in [Member -> GroupRecord]
    BY <1>1 DEF TypeOK
  <2> QED
    BY <1>6, <1>8, <2>1
(* Each state is as it was, but for the one that m was decrypted with.     *)
<1>10. ASSUME NEW q \in Member, NEW j \in DOMAIN records'[q]
       PROVE  /\ j \in DOMAIN records[q]
              /\ \/ records'[q][j] = records[q][j] /\ (q # r \/ j # i)
                 \/ q = r /\ j = i /\ records'[q][j] = t /\ records[q][j] = s
  BY <1>8, <1>9, <1>10 DEF s
<1>11. n > 0 /\ installs[r][c][n] <= s.iteration
       /\ \A k \in s.message_keys : installs[r][c][n] <= k
  BY <1>1, <1>2 DEF StatesInstalled, Latest, InstalledAt, s
<1>12. installs[r][c] \in Seq(Nat) /\ n \in Nat /\ n \in 1 .. n /\ installs[r][c][n] \in Nat
  <2>1. installs[r][c] \in Seq(Nat)
    BY <1>1, <1>3 DEF TypeOK
  <2>2. n \in Nat /\ n \in 1 .. n
    BY <1>11, <2>1
  <2> QED
    BY <2>1, <2>2
(* The key of m was not used up, so this delivery is the first.            *)
<1>13. d0 \notin delivered
  BY <1>1, <1>2, <1>4, <1>6 DEF DeliveredConsumed, Latest, s
<1> HIDE DEF n, c
<1>14. TypeOK'
  <2>1. records' \in [Member -> Seq(SenderKeyState)]
    BY <1>9, RecordLimits
  <2>2. d0 \in Member \X skms \X Nat
    BY <1>12
  <2>3. delivered' \subseteq Member \X skms' \X Nat /\ replayed' \subseteq delivered'
    BY <1>1, <1>5, <1>13, <2>2 DEF TypeOK
  <2> QED
    BY <1>1, <1>5, <2>1, <2>3 DEF TypeOK
<1>15. GroupLimitsRespected'
  BY <1>1, <1>5, <1>9, RecordLimits DEF GroupLimitsRespected
<1>16. ChainsAnnounced'
  <2>1. ASSUME NEW q \in Member, NEW j \in DOMAIN records'[q]
        PROVE  Announced(records'[q][j])
    BY <1>1, <1>4, <1>6, <1>10, <2>1 DEF ChainsAnnounced, Announced, s
  <2> QED
    BY <1>1, <1>5, <2>1 DEF ChainsAnnounced, Announced
<1>17. StatesInstalled'
  <2> SUFFICES ASSUME NEW q \in Member, NEW j \in DOMAIN records'[q]
               PROVE  LET u == records'[q][j] IN
                      /\ Latest(q, u.chain) > 0
                      /\ InstalledAt(q, u.chain) <= u.iteration
                      /\ \A k \in u.message_keys : InstalledAt(q, u.chain) <= k
    BY <1>5 DEF StatesInstalled, Latest, InstalledAt
  <2>1. CASE records'[q][j] = records[q][j]
    BY <1>1, <1>10, <2>1 DEF StatesInstalled
  <2>2. CASE q = r /\ records'[q][j] = t
    <3> DEFINE l == installs[r][c][n]
    <3>1. l \in Nat /\ l <= s.iteration /\ \A k \in s.message_keys : l <= k
      BY <1>11, <1>12
    <3>2. Latest(r, t.chain) = n /\ InstalledAt(r, t.chain) = l
      BY <1>4 DEF Latest, InstalledAt, n
    <3> HIDE DEF l
    <3>3. l <= t.iteration /\ \A k \in t.message_keys : l <= k
      BY <1>4, <1>7, <3>1
    <3> QED
      BY <1>11, <2>2, <3>2, <3>3
  <2> QED
    BY <1>10, <2>1, <2>2
<1>18. NoHistory'
  <2>1. installs[r][m.chain][n] <= m.iteration
    <3> DEFINE l == installs[r][c][n]
    <3>1. l \in Nat /\ l <= s.iteration /\ \A k \in s.message_keys : l <= k
      BY <1>11, <1>12
    <3>2. s.iteration <= m.iteration \/ m.iteration \in s.message_keys
      BY <1>3, <1>4, <1>7 DEF Consumed
    <3> HIDE DEF l
    <3>3. l <= m.iteration
      BY <1>3, <1>7, <3>1, <3>2
    <3> QED
      BY <3>3 DEF l, c
  <2> QED
    BY <1>1, <1>5, <1>11, <2>1 DEF NoHistory
<1>19. DeliveredConsumed'
  <2> SUFFICES ASSUME NEW d \in delivered'
               PROVE  /\ d[3] \in 1 .. Latest(d[1], d[2].chain)
                      /\ d[3] = Latest(d[1], d[2].chain) =>
                            \A j \in DOMAIN records'[d[1]] :
                                records'[d[1]][j].chain = d[2].chain =>
                                    Consumed(records'[d[1]][j], d[2].iteration)
    BY <1>5 DEF DeliveredConsumed, Latest, Consumed
  <2>1. CASE d \in delivered
    <3>1. d[1] \in Member /\ d[2] \in skms /\ d[2].iteration \in Nat
      BY <1>1, <2>1 DEF TypeOK, SenderKeyMessage
    <3>2. d[3] \in 1 .. Latest(d[1], d[2].chain)
      BY <1>1, <2>1 DEF DeliveredConsumed
    <3>3. ASSUME d[3] = Latest(d[1], d[2].chain), NEW j \in DOMAIN records'[d[1]],
                 records'[d[1]][j].chain = d[2].chain
          PROVE  Consumed(records'[d[1]][j], d[2].iteration)
      <4>1. CASE records'[d[1]][j] = records[d[1]][j]
        BY <1>1, <1>10, <2>1, <3>1, <3>3, <4>1 DEF DeliveredConsumed
      <4>2. CASE d[1] = r /\ j = i /\ records'[d[1]][j] = t /\ records[d[1]][j] = s
        <5>1. Consumed(s, d[2].iteration)
          BY <1>1, <1>2, <1>4, <1>6, <2>1, <3>3, <4>2 DEF DeliveredConsumed
        <5>2. Consumed(t, d[2].iteration)
          BY <1>4, <1>7, <3>1, <5>1 DEF Consumed
        <5> QED
          BY <4>2, <5>2
      <4> QED
        BY <1>10, <3>1, <3>3, <4>1, <4>2
    <3> QED
      BY <3>2, <3>3
  <2>2. CASE d = d0
    <3>1. d[1] = r /\ d[2] = m /\ d[3] = n /\ Latest(r, m.chain) = n
      BY <2>2 DEF Latest, n, c
    <3>2. ASSUME NEW j \in DOMAIN records'[r], records'[r][j].chain = m.chain
          PROVE  Consumed(records'[r][j], m.iteration)
      <4>1. j \in DOMAIN records[r] /\ records[r][j].chain = m.chain
        BY <1>4, <1>6, <1>10, <3>2 DEF c
      <4>2. j = i
        BY <1>2, <4>1, OneStatePerChain
      <4> QED
        BY <1>4, <1>10, <3>2, <4>2
    <3> QED
      BY <1>12, <3>1, <3>2
  <2> QED
    BY <1>5, <2>1, <2>2
<1>20. AtMostOncePerInstall'
  BY <1>1, <1>5, <1>13 DEF AtMostOncePerInstall
<1>21. KeysKept'
  <2> SUFFICES ASSUME NEW q \in Member, NEW j \in DOMAIN records'[q], NEW k \in Nat,
                      NEW u, u = records'[q][j],
                      InstalledAt(q, u.chain) <= k, Consumed(u, k), InReach(u, k)
               PROVE  DeliveredAt(q, u.chain, k)'
    BY <1>5 DEF KeysKept, Consumed, InReach, InstalledAt, Latest
  <2>1. ASSUME NEW v, v.chain = u.chain, v = records[q][j], Consumed(v, k), InReach(v, k)
        PROVE  DeliveredAt(q, u.chain, k)'
    <3>1. j \in DOMAIN records[q]
      BY <1>10
    <3>2. DeliveredAt(q, u.chain, k)
      BY <2>1, <3>1 DEF GroupInv, KeysKept
    <3> QED
      BY <1>5, <3>2 DEF DeliveredAt, Latest
  <2>2. CASE records'[q][j] = records[q][j]
    BY <2>1, <2>2
  <2>3. CASE q = r /\ records'[q][j] = t /\ records[q][j] = s /\ k # m.iteration
    <3>1. Consumed(s, k) /\ InReach(s, k)
      BY <1>2, <1>3, <2>3, GetKeyKeeps DEF s, t
    <3> QED
      BY <1>4, <1>6, <2>1, <2>3, <3>1
  <2>4. CASE q = r /\ records'[q][j] = t /\ k = m.iteration
    <3>1. d0 \in delivered' /\ d0[1] = r /\ d0[2] = m /\ d0[3] = n
      BY <1>5
    <3>2. u.chain = m.chain /\ Latest(r, u.chain)' = n
      BY <1>4, <1>5, <2>4 DEF Latest, n, c
    <3> QED
      BY <2>4, <3>1, <3>2 DEF DeliveredAt
  <2> QED
    BY <1>10, <2>2, <2>3, <2>4
<1> QED
  BY <1>5, <1>14, <1>15, <1>16, <1>17, <1>18, <1>19, <1>20, <1>21, MemberStep DEF GroupInv

LEMMA GroupNextInv == GroupInv /\ [Next]_vars => GroupInv'
<1> SUFFICES ASSUME GroupInv, [Next]_vars PROVE GroupInv'
  OBVIOUS
<1>1. ASSUME NEW id \in ChainId, create_sender_key_distribution_message(id) PROVE GroupInv'
  BY <1>1, CreateStep
<1>2. CASE ResetSender
  BY <1>2, ResetStep
<1>3. CASE group_encrypt
  BY <1>3, GroupEncryptStep
<1>4. ASSUME NEW r \in Member, NEW k \in skdms,
             process_sender_key_distribution_message(r, k)
      PROVE  GroupInv'
  BY <1>4, ProcessStep
<1>5. ASSUME NEW r \in Member, NEW m \in skms, group_decrypt(r, m) PROVE GroupInv'
  BY <1>5, GroupDecryptStep
<1>6. CASE UNCHANGED vars
  <2>1. UNCHANGED << own, chains, skdms, skms, records, installs, delivered, replayed >>
    BY <1>6 DEF vars
  <2> QED
    BY <2>1, SenderStep, MemberStep
    DEF GroupInv, TypeOK, GroupLimitsRespected, ChainsAnnounced, Announced
<1> QED
  BY <1>1, <1>2, <1>3, <1>4, <1>5, <1>6 DEF Next

LEMMA GroupInvariant == Spec => []GroupInv
BY GroupInitInv, GroupNextInv, PTL DEF Spec
-----------------------------------------------------------------------------
(* Theorems.                                                               *)

(* Every reachable state of the sender and the members is well typed: what *)
(* was delivered is a released message, and what was replayed delivered.   *)
THEOREM GroupTypeCorrect == Spec => []TypeOK
<1>1. GroupInv => TypeOK
  BY DEF GroupInv
<1> QED
  BY <1>1, GroupInvariant, PTL

(* The limits of consts.rs hold for every record in every reachable state, *)
(* the lookup by chain id in a record is unambiguous, and a skipped key is *)
(* older than its chain, for all limits, members and colliding chain ids.  *)
THEOREM GroupLimitsHold == Spec => []GroupLimitsRespected
<1>1. GroupInv => GroupLimitsRespected
  BY DEF GroupInv
<1> QED
  BY <1>1, GroupInvariant, PTL

(* No message key of a sender chain is ever used for two group messages:   *)
(* group_encrypt stores the advanced chain, SenderChainKey::next fails     *)
(* rather than wrap, and a sender that starts over draws a new chain.      *)
THEOREM GroupKeysUnique == Spec => []GroupNoKeyReuse
<1>1. GroupInv => GroupNoKeyReuse
  BY DEF GroupInv
<1> QED
  BY <1>1, GroupInvariant, PTL

(* A member decrypts a group message at most once per installation of its  *)
(* chain, whatever is repeated or reordered and whatever the limits drop.  *)
THEOREM GroupAtMostOnce == Spec => []AtMostOncePerInstall
<1>1. GroupInv => AtMostOncePerInstall
  BY DEF GroupInv
<1> QED
  BY <1>1, GroupInvariant, PTL

(* A member never reads a message from before the iteration at which the   *)
(* chain it used was given to it.                                          *)
THEOREM GroupNoHistory == Spec => []NoHistory
<1>1. GroupInv => NoHistory
  BY DEF GroupInv
<1> QED
  BY <1>1, GroupInvariant, PTL

(* What NoRewind says of a step, for one member.                           *)
KeepsForward(r) ==
    \A i \in DOMAIN records[r] : \A j \in DOMAIN records'[r] :
        LET s == records[r][i]
            t == records'[r][j]
        IN  s.chain = t.chain =>
              /\ t.iteration >= s.iteration
              /\ t.message_keys \subseteq
                   s.message_keys \cup (s.iteration .. t.iteration - 1)

LEMMA ForwardUnchanged ==
    ASSUME GroupInv, NEW r \in Member, records'[r] = records[r]
    PROVE  KeepsForward(r)
<1> SUFFICES ASSUME NEW i \in DOMAIN records[r], NEW j \in DOMAIN records[r],
                    records[r][i].chain = records[r][j].chain
             PROVE  /\ records[r][j].iteration >= records[r][i].iteration
                    /\ records[r][j].message_keys \subseteq records[r][i].message_keys
  BY DEF KeepsForward
<1>1. i = j /\ records[r][i].iteration \in Nat
  BY OneStatePerChain, StateFacts DEF GoodState, SenderKeyState
<1> QED
  BY <1>1

LEMMA ForwardProcess ==
    ASSUME GroupInv, NEW r \in Member, NEW k \in skdms,
           process_sender_key_distribution_message(r, k)
    PROVE  KeepsForward(r)
<1> SUFFICES ASSUME NEW i \in DOMAIN records[r], NEW j \in DOMAIN records'[r],
                    records[r][i].chain = records'[r][j].chain
             PROVE  records'[r][j] = records[r][i] /\ records[r][i].iteration \in Nat
  BY DEF KeepsForward
<1> DEFINE new == add_sender_key_state(records[r], k)
<1>1. records[r] \in GroupRecord /\ k \in SenderKeyDistributionMessage
  BY GroupRecords DEF GroupInv, TypeOK
<1>2. records'[r] = new
  BY DEF process_sender_key_distribution_message, GroupInv, TypeOK
<1>3. \A l \in DOMAIN new :
          \/ \E h \in DOMAIN records[r] : new[l] = records[r][h]
          \/ ~Has(records[r], k) /\ new[l] = NewState(k.chain_id, k.chain, k.iteration)
  BY <1>1, AddStateType, StateToAddType
<1> HIDE DEF new
<1>4. CASE \E h \in DOMAIN records[r] : new[j] = records[r][h]
  BY <1>2, <1>4, OneStatePerChain, StateFacts DEF GoodState, SenderKeyState
<1>5. CASE ~Has(records[r], k) /\ new[j] = NewState(k.chain_id, k.chain, k.iteration)
  BY <1>2, <1>5, NoStateOfChain DEF NewState
<1> QED
  BY <1>2, <1>3, <1>4, <1>5

LEMMA ForwardDecrypt ==
    ASSUME GroupInv, NEW r \in Member, NEW m \in skms, group_decrypt(r, m)
    PROVE  KeepsForward(r)
<1>1. PICK i \in DOMAIN records[r] :
          /\ records[r][i].chain = m.chain
          /\ CanGetSenderKey(records[r][i], m.iteration)
          /\ records' = [records EXCEPT ![r] =
                [records[r] EXCEPT ![i] = get_sender_key(records[r][i], m.iteration)]]
  BY DecryptEffect
<1> DEFINE s == records[r][i]
           t == get_sender_key(s, m.iteration)
<1>2. s \in GoodState /\ m.iteration \in Nat
  BY StateFacts DEF GroupInv, TypeOK, SenderKeyMessage
<1>3. /\ t \in GoodState /\ t.chain = s.chain /\ s.iteration <= t.iteration
      /\ t.message_keys \subseteq s.message_keys \cup (s.iteration .. t.iteration - 1)
  BY <1>1, <1>2, GetKeyType
<1>4. /\ DOMAIN records'[r] = DOMAIN records[r]
      /\ \A j \in DOMAIN records[r] : records'[r][j] = IF j = i THEN t ELSE records[r][j]
  BY <1>1 DEF GroupInv, TypeOK
<1>5. s.iteration \in Nat /\ t.iteration \in Nat
  BY <1>2, <1>3 DEF GoodState, SenderKeyState
<1> HIDE DEF t
<1> SUFFICES ASSUME NEW h \in DOMAIN records[r], NEW j \in DOMAIN records'[r],
                    records[r][h].chain = records'[r][j].chain
             PROVE  /\ records'[r][j].iteration >= records[r][h].iteration
                    /\ records'[r][j].message_keys \subseteq
                         records[r][h].message_keys
                           \cup (records[r][h].iteration .. records'[r][j].iteration - 1)
  BY DEF KeepsForward
<1>6. h = j /\ j \in DOMAIN records[r]
  BY <1>3, <1>4, OneStatePerChain
<1>7. CASE j = i
  BY <1>3, <1>4, <1>5, <1>6, <1>7
<1>8. CASE j # i
  BY <1>4, <1>6, <1>8, StateFacts DEF GoodState, SenderKeyState
<1> QED
  BY <1>7, <1>8

LEMMA ForwardStep == GroupInv /\ [Next]_vars => \A r \in Member : KeepsForward(r)
<1> SUFFICES ASSUME GroupInv, [Next]_vars, NEW r \in Member
             PROVE  KeepsForward(r)
  OBVIOUS
<1>1. ASSUME NEW q \in Member, NEW k \in skdms,
             process_sender_key_distribution_message(q, k)
      PROVE  KeepsForward(r)
  <2>1. CASE q = r
    BY <1>1, <2>1, ForwardProcess
  <2>2. CASE q # r
    <3>1. records'[r] = records[r]
      BY <1>1, <2>2 DEF process_sender_key_distribution_message, GroupInv, TypeOK
    <3> QED
      BY <3>1, ForwardUnchanged
  <2> QED
    BY <2>1, <2>2
<1>2. ASSUME NEW q \in Member, NEW m \in skms, group_decrypt(q, m)
      PROVE  KeepsForward(r)
  <2>1. CASE q = r
    BY <1>2, <2>1, ForwardDecrypt
  <2>2. CASE q # r
    <3>1. \E i : \E u : records' = [records EXCEPT ![q] = [records[q] EXCEPT ![i] = u]]
      BY <1>2, DecryptEffect
    <3>2. records'[r] = records[r]
      BY <2>2, <3>1 DEF GroupInv, TypeOK
    <3> QED
      BY <3>2, ForwardUnchanged
  <2> QED
    BY <2>1, <2>2
<1>3. ASSUME records' = records PROVE KeepsForward(r)
  BY <1>3, ForwardUnchanged
<1>4. ASSUME NEW id \in ChainId, create_sender_key_distribution_message(id)
      PROVE  KeepsForward(r)
  BY <1>3, <1>4 DEF create_sender_key_distribution_message
<1>5. CASE ResetSender \/ group_encrypt \/ UNCHANGED vars
  BY <1>3, <1>5 DEF ResetSender, group_encrypt, vars
<1> QED
  BY <1>1, <1>2, <1>4, <1>5 DEF Next

(* No step of any member gives a state back a key its chain had passed: in *)
(* particular a repeated distribution message does not rewind a chain that *)
(* the member still holds.                                                 *)
THEOREM GroupNeverRewinds == Spec => NoRewind
<1>1. GroupInv /\ [Next]_vars => [\A r \in Member : KeepsForward(r)]_vars
  BY ForwardStep
<1> QED
  BY <1>1, GroupInvariant, PTL DEF Spec, NoRewind, KeepsForward

(* A member that holds a chain can decrypt every message of it since the   *)
(* installation, in any order and whatever else arrived, that it has not   *)
(* decrypted and that is within reach of the limits: get_sender_key loses  *)
(* no other key, also when chain ids collide.                              *)
THEOREM GroupDecryptable == Spec => []GroupAlwaysDecryptable
<1>1. GroupInv => GroupAlwaysDecryptable
  <2> SUFFICES ASSUME GroupInv, NEW r \in Member, NEW m \in skms,
                      Has(records[r], m),
                      installs[r][m.chain][Len(installs[r][m.chain])] <= m.iteration,
                      Delivery(r, m) \notin delivered
               PROVE  LET s == records[r][sender_key_state_for_chain_id(records[r], m.chain_id)]
                      IN  /\ verify_signature(s, m)
                          /\ WithinReach(s, m.iteration) => CanGetSenderKey(s, m.iteration)
    BY DEF GroupAlwaysDecryptable
  <2>1. PICK i \in DOMAIN records[r] :
            records[r][i].chain_id = m.chain_id /\ records[r][i].chain = m.chain
    BY DEF Has
  <2> DEFINE i0 == sender_key_state_for_chain_id(records[r], m.chain_id)
             s == records[r][i]
  <2>2. i0 = i
    BY <2>1, StateLookup
  <2>3. verify_signature(s, m)
    BY <2>1 DEF verify_signature
  <2>4. s \in GoodState /\ s.iteration \in Nat /\ m.iteration \in Nat
    BY StateFacts DEF GoodState, SenderKeyState, GroupInv, TypeOK, SenderKeyMessage
  <2>5. ASSUME WithinReach(s, m.iteration) PROVE CanGetSenderKey(s, m.iteration)
    <3>1. CanAdvance(m.iteration)
      BY DEF GroupInv, MessagesAdvance
    <3>2. CASE ~(s.iteration > m.iteration)
      BY <2>5, <3>1, <3>2 DEF WithinReach, CanGetSenderKey
    <3>3. CASE s.iteration > m.iteration
      <4>1. InReach(s, m.iteration)
        BY <2>5, <3>3 DEF WithinReach, InReach
      <4>2. ~DeliveredAt(r, m.chain, m.iteration)
        <5> SUFFICES ASSUME NEW d \in delivered, d[1] = r, d[2].chain = m.chain,
                            d[2].iteration = m.iteration, d[3] = Latest(r, m.chain)
                     PROVE  FALSE
          BY DEF DeliveredAt
        <5>1. d \in Member \X skms \X Nat
          BY DEF GroupInv, TypeOK
        <5>2. d[2] = m
          BY <5>1 DEF GroupInv, GroupNoKeyReuse
        <5>3. d = Delivery(r, m)
          BY <5>1, <5>2 DEF Delivery, Latest
        <5> QED
          BY <5>3
      <4>3. ~Consumed(s, m.iteration)
        BY <2>1, <2>4, <4>1, <4>2 DEF GroupInv, KeysKept, InstalledAt, Latest
      <4> QED
        BY <2>4, <3>3, <4>3 DEF Consumed, CanGetSenderKey
    <3> QED
      BY <3>2, <3>3
  <2> QED
    BY <2>2, <2>3, <2>5
<1> QED
  BY <1>1, GroupInvariant, PTL
=============================================================================
