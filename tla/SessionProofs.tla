---------------------------- MODULE SessionProofs ----------------------------
(***************************************************************************)
(* Theorems about Session, for every set of devices and every value of the *)
(* limits and bounds: the type invariant, the limits of consts.rs, and     *)
(* which keys the sessions of a device know.                               *)
(*                                                                         *)
(* The limits are an invariant of each operator on sessions and records,   *)
(* so they are stated as types: the set of the sessions within the limits, *)
(* and the set of the records made of such sessions.  One lemma per        *)
(* operator says that it stays in those sets.  The second part says, for   *)
(* the safety proofs, what those operators do.                             *)
(*                                                                         *)
(* In the third part every step is brought to one of six forms that say    *)
(* what it does to the sessions kept, whichever calls it is made of: a     *)
(* session was started, a message was sent, a message was received by a    *)
(* session of the record or by one it created, a device started over, or   *)
(* nothing but bookkeeping happened.  The invariants of the safety proofs  *)
(* are proved on those.                                                    *)
(***************************************************************************)
EXTENDS Session, FiniteSetTheorems, SequenceTheorems, WellFoundedInduction, TLAPS

(* Cutting a finite set of indices at n leaves a subset of at most n: the  *)
(* number of newer indices tells the kept ones apart.                      *)
LEMMA NewestBound ==
    ASSUME NEW S \in SUBSET Nat, IsFiniteSet(S), NEW n \in Nat
    PROVE  /\ Newest(S, n) \subseteq S
           /\ IsFiniteSet(Newest(S, n))
           /\ Cardinality(Newest(S, n)) <= n
<1> DEFINE newer(i) == {j \in S : j > i}
<1>1. Newest(S, n) \subseteq S
  BY DEF Newest
<1>2. \A i \in S : IsFiniteSet(newer(i)) /\ Cardinality(newer(i)) \in Nat
  <2> SUFFICES ASSUME NEW i \in S
               PROVE  IsFiniteSet(newer(i)) /\ Cardinality(newer(i)) \in Nat
    OBVIOUS
  <2>1. newer(i) \in SUBSET S
    OBVIOUS
  <2> QED
    BY <2>1, FS_Subset, FS_CardinalityType
<1>3. ASSUME NEW i \in S, NEW k \in S, i < k
      PROVE  Cardinality(newer(k)) < Cardinality(newer(i))
  <2>1. newer(k) \in SUBSET newer(i)
    <3> SUFFICES ASSUME NEW j \in S, j > k
                 PROVE  j > i
      OBVIOUS
    <3> i \in Nat /\ j \in Nat /\ k \in Nat
      OBVIOUS
    <3> QED
      BY <1>3
  <2>2. k \in newer(i) /\ k \notin newer(k)
    BY <1>3
  <2>3. Cardinality(newer(k)) <= Cardinality(newer(i)) /\ newer(k) # newer(i)
    BY <1>2, <2>1, <2>2, FS_Subset
  <2> HIDE DEF newer
  <2>4. Cardinality(newer(i)) # Cardinality(newer(k))
    BY <1>2, <2>1, <2>3, FS_Subset
  <2> QED
    BY <1>2, <2>3, <2>4
<1> HIDE DEF newer
<1> DEFINE rank == [i \in Newest(S, n) |-> Cardinality(newer(i))]
<1>4. rank \in [Newest(S, n) -> 0 .. n - 1]
  <2> SUFFICES ASSUME NEW i \in Newest(S, n)
               PROVE  Cardinality(newer(i)) \in 0 .. n - 1
    OBVIOUS
  <2>1. Cardinality(newer(i)) < n
    BY DEF Newest, newer
  <2>2. Cardinality(newer(i)) \in Nat
    BY <1>1, <1>2
  <2> QED
    BY <2>1, <2>2
<1>5. ASSUME NEW i \in Newest(S, n), NEW k \in Newest(S, n), rank[i] = rank[k]
      PROVE  i = k
  <2>1. i \in S /\ k \in S /\ i \in Nat /\ k \in Nat
    BY <1>1
  <2>2. /\ Cardinality(newer(i)) = Cardinality(newer(k))
        /\ Cardinality(newer(i)) \in Nat /\ Cardinality(newer(k)) \in Nat
    BY <1>2, <1>5, <2>1
  <2>3. ~(i < k)
    BY <1>3, <2>1, <2>2
  <2>4. ~(k < i)
    BY <1>3, <2>1, <2>2
  <2> QED
    BY <2>1, <2>3, <2>4
<1>6. rank \in Injection(Newest(S, n), 0 .. n - 1)
  BY <1>4, <1>5 DEF Injection, IsInjective
<1>7. IsFiniteSet(0 .. n - 1) /\ Cardinality(0 .. n - 1) = n
  BY FS_Interval
<1> QED
  BY <1>1, <1>6, <1>7, FS_Injection

-----------------------------------------------------------------------------
GoodChain ==
    {c \in ReceiverChain : /\ IsFiniteSet(c.message_keys)
                           /\ Cardinality(c.message_keys) <= MAX_MESSAGE_KEYS
                           /\ \A n \in c.message_keys : n < c.chain.index}

DistinctSenders(chains) ==
    \A i, j \in DOMAIN chains : chains[i].sender = chains[j].sender => i = j

GoodChains ==
    {chains \in Seq(GoodChain) : /\ Len(chains) <= MAX_RECEIVER_CHAINS
                                 /\ DistinctSenders(chains)}

GoodSession == {s \in SessionStructure : s.receiver_chains \in GoodChains}

GoodRecord ==
    [current  : GoodSession \cup {None},
     previous : {h \in Seq(GoodSession) : Len(h) <= ARCHIVED_STATES_MAX_LENGTH}]

-----------------------------------------------------------------------------
(* Key derivation stays within the types.                                  *)

LEMMA CreateChainType ==
    ASSUME NEW root \in RootKey, NEW a \in Key, NEW b \in Key
    PROVE  create_chain(root, a, b) \in RootKey
<1>1. DH(a, b) \in SUBSET Key
  BY DEF DH
<1>2. root.path \in Seq(SUBSET Key) /\ root.secret \in Secret
  BY DEF RootKey
<1>3. Append(root.path, DH(a, b)) \in Seq(SUBSET Key)
  BY <1>1, <1>2
<1> QED
  BY <1>2, <1>3 DEF create_chain, RootKey

LEMMA DeriveKeysType ==
    ASSUME NEW secret \in Secret
    PROVE  derive_keys(secret) \in RootKey
BY DEF derive_keys, RootKey

BundleType == [identity : Key, signature : Key, signed : Key, kyber : Key,
               pre_key_id : PreKeyId \cup {None}, pre_key : Key \cup {None}]

LEMMA AliceType ==
    ASSUME NEW id \in Key, NEW base \in Key, NEW ratchet \in Key,
           NEW bundle \in BundleType
    PROVE  initialize_alice_session(id, base, ratchet, bundle) \in GoodSession
<1> DEFINE ct     == encapsulate(bundle.kyber, base)
           secret == [dh1 |-> DH(id, bundle.signed),
                      dh2 |-> DH(base, bundle.identity),
                      dh3 |-> DH(base, bundle.signed),
                      dh4 |-> IF bundle.pre_key = None
                                THEN {} ELSE DH(base, bundle.pre_key),
                      kem |-> ct]
           root    == derive_keys(secret)
           sending == create_chain(root, bundle.signed, ratchet)
           chain   == [sender |-> bundle.signed, chain |-> [key |-> root, index |-> 0],
                       message_keys |-> {}]
<1>1. ct \in Kem
  BY DEF encapsulate, Kem, BundleType
<1>2. secret \in Secret
  BY <1>1 DEF Secret, DH, BundleType
<1>3. root \in RootKey /\ sending \in RootKey
  BY <1>2, DeriveKeysType, CreateChainType DEF BundleType
<1>4. chain \in GoodChain
  BY <1>3, FS_EmptySet, LimitsAssumption DEF GoodChain, ReceiverChain, ChainKey, BundleType
<1>5. << chain >> \in GoodChains
  <2> HIDE DEF chain
  <2> QED
    BY <1>4, LimitsAssumption DEF GoodChains, DistinctSenders
<1>6. [auth |-> secret, direction |-> "A2B"] \in PqRatchet
  BY <1>2 DEF PqRatchet, Direction
<1>7. [key |-> sending, index |-> 0] \in ChainKey
  BY <1>3 DEF ChainKey
<1>8. initialize_alice_session(id, base, ratchet, bundle) =
        [local_identity  |-> id, remote_identity |-> bundle.identity,
         alice_base_key  |-> base, root_key |-> sending,
         sender_ratchet  |-> ratchet,
         sender_chain    |-> [key |-> sending, index |-> 0],
         receiver_chains |-> << chain >>, pending |-> None,
         pq              |-> [auth |-> secret, direction |-> "A2B"]]
  BY DEF initialize_alice_session
<1>9. << chain >> \in Seq(ReceiverChain)
  BY <1>4 DEF GoodChain
<1> HIDE DEF chain, sending, root, secret, ct
<1> QED
  BY <1>3, <1>5, <1>6, <1>7, <1>8, <1>9 DEF GoodSession, SessionStructure, BundleType

LEMMA BobType ==
    ASSUME NEW id \in Key, NEW spk \in Key, NEW kyb \in Key,
           NEW opk \in Key \cup {None}, NEW pre \in PreKeyParts
    PROVE  initialize_bob_session(id, spk, kyb, opk, pre) \in GoodSession
<1> DEFINE secret == [dh1 |-> DH(spk, pre.identity_key),
                      dh2 |-> DH(id, pre.base_key),
                      dh3 |-> DH(spk, pre.base_key),
                      dh4 |-> IF opk = None THEN {} ELSE DH(opk, pre.base_key),
                      kem |-> decapsulate(kyb, pre.kyber_ciphertext)]
           root   == derive_keys(secret)
<1>1. decapsulate(kyb, pre.kyber_ciphertext) \in Kem
  BY DEF decapsulate, Kem, PreKeyParts
<1>2. secret \in Secret
  BY <1>1 DEF Secret, DH, PreKeyParts
<1>3. root \in RootKey
  BY <1>2, DeriveKeysType
<1>4. << >> \in GoodChains /\ << >> \in Seq(ReceiverChain)
  BY LimitsAssumption DEF GoodChains, DistinctSenders
<1>5. [auth |-> secret, direction |-> "B2A"] \in PqRatchet
  BY <1>2 DEF PqRatchet, Direction
<1>6. [key |-> root, index |-> 0] \in ChainKey
  BY <1>3 DEF ChainKey
<1>7. initialize_bob_session(id, spk, kyb, opk, pre) =
        [local_identity  |-> id, remote_identity |-> pre.identity_key,
         alice_base_key  |-> pre.base_key, root_key |-> root,
         sender_ratchet  |-> spk, sender_chain |-> [key |-> root, index |-> 0],
         receiver_chains |-> << >>, pending |-> None,
         pq              |-> [auth |-> secret, direction |-> "B2A"]]
  BY DEF initialize_bob_session
<1> HIDE DEF root, secret
<1> QED
  BY <1>3, <1>4, <1>5, <1>6, <1>7 DEF GoodSession, SessionStructure, PreKeyParts

-----------------------------------------------------------------------------
(* Operators on one session.                                               *)

LEMMA PendingType ==
    ASSUME NEW s \in GoodSession, NEW id \in PreKeyId \cup {None},
           NEW ct \in Kem, NEW time \in Nat
    PROVE  set_unacknowledged_pre_key_message(s, id, ct, time) \in GoodSession
<1>1. [pre_key_id |-> id, base_key |-> s.alice_base_key,
       kyber_ciphertext |-> ct, timestamp |-> time] \in PendingPreKey
  BY DEF PendingPreKey, GoodSession, SessionStructure
<1> QED
  BY <1>1 DEF set_unacknowledged_pre_key_message, GoodSession, SessionStructure

LEMMA ClearType ==
    ASSUME NEW s \in GoodSession
    PROVE  clear_unacknowledged_pre_key_message(s) \in GoodSession
BY DEF clear_unacknowledged_pre_key_message, GoodSession, SessionStructure

(* Adding a chain for a ratchet key that has none keeps the chains within  *)
(* their limit and the ratchet keys distinct.                              *)
LEMMA AddChainType ==
    ASSUME NEW chains \in GoodChains, NEW sender \in Key, NEW key \in RootKey,
           \A i \in DOMAIN chains : chains[i].sender # sender
    PROVE  /\ add_receiver_chain(chains, sender, key) \in GoodChains
           /\ \E i \in DOMAIN add_receiver_chain(chains, sender, key) :
                 add_receiver_chain(chains, sender, key)[i].sender = sender
<1> DEFINE c == [sender |-> sender, chain |-> [key |-> key, index |-> 0],
                 message_keys |-> {}]
<1>1. c \in GoodChain /\ c.sender = sender
  BY FS_EmptySet, LimitsAssumption DEF GoodChain, ReceiverChain, ChainKey
<1>2. chains \in Seq(GoodChain) /\ Len(chains) \in Nat
      /\ Len(chains) <= MAX_RECEIVER_CHAINS /\ DistinctSenders(chains)
  BY DEF GoodChains
<1> HIDE DEF c
<1>3. CASE Len(chains) + 1 > MAX_RECEIVER_CHAINS
  <2>1. Len(chains) = MAX_RECEIVER_CHAINS /\ chains # << >>
    BY <1>2, <1>3, LimitsAssumption
  <2> DEFINE rest == Tail(chains)
  <2>2. /\ rest \in Seq(GoodChain) /\ Len(rest) = Len(chains) - 1
        /\ \A i \in 1 .. Len(rest) : rest[i] = chains[i + 1] /\ i + 1 \in DOMAIN chains
    BY <1>2, <2>1
  <2> HIDE DEF rest
  <2>3. add_receiver_chain(chains, sender, key) = Append(rest, c)
    BY <1>3 DEF add_receiver_chain, c, rest
  <2>4. Append(rest, c) \in Seq(GoodChain) /\ Len(Append(rest, c)) = Len(chains)
    BY <1>1, <1>2, <2>2
  <2>5. DistinctSenders(Append(rest, c))
    <3> SUFFICES ASSUME NEW i \in 1 .. Len(rest) + 1, NEW j \in 1 .. Len(rest) + 1,
                        Append(rest, c)[i].sender = Append(rest, c)[j].sender
                 PROVE  i = j
      BY <2>2 DEF DistinctSenders
    <3>1. \A k \in 1 .. Len(rest) : Append(rest, c)[k] = chains[k + 1]
                                    /\ k + 1 \in DOMAIN chains
      BY <2>2
    <3>2. Append(rest, c)[Len(rest) + 1] = c
      BY <2>2
    <3>3. CASE i \in 1 .. Len(rest) /\ j \in 1 .. Len(rest)
      <4>1. i + 1 = j + 1
        BY <1>2, <3>1, <3>3 DEF DistinctSenders
      <4> QED
        BY <4>1
    <3>4. CASE i = Len(rest) + 1 /\ j \in 1 .. Len(rest)
      BY <1>1, <3>1, <3>2, <3>4
    <3>5. CASE i \in 1 .. Len(rest) /\ j = Len(rest) + 1
      BY <1>1, <3>1, <3>2, <3>5
    <3> QED
      BY <2>2, <3>3, <3>4, <3>5
  <2> QED
    BY <1>1, <1>2, <2>2, <2>3, <2>4, <2>5 DEF GoodChains
<1>4. CASE ~(Len(chains) + 1 > MAX_RECEIVER_CHAINS)
  <2>1. add_receiver_chain(chains, sender, key) = Append(chains, c)
    BY <1>4 DEF add_receiver_chain, c
  <2>2. Append(chains, c) \in Seq(GoodChain) /\ Len(Append(chains, c)) = Len(chains) + 1
    BY <1>1, <1>2
  <2>3. DistinctSenders(Append(chains, c))
    BY <1>1, <1>2 DEF DistinctSenders
  <2> QED
    BY <1>1, <1>2, <1>4, <2>1, <2>2, <2>3, LimitsAssumption DEF GoodChains
<1> QED
  BY <1>3, <1>4

LEMMA ChainKeyType ==
    ASSUME NEW s \in GoodSession, NEW their \in Key, NEW new \in Key
    PROVE  /\ get_or_create_chain_key(s, their, new) \in GoodSession
           /\ HasReceiverChain(get_or_create_chain_key(s, their, new), their)
<1> DEFINE receiving == create_chain(s.root_key, their, s.sender_ratchet)
           sending   == create_chain(receiving, their, new)
           chains    == add_receiver_chain(s.receiver_chains, their, receiving)
<1>1. s \in SessionStructure /\ s.receiver_chains \in GoodChains
  BY DEF GoodSession
<1>2. CASE HasReceiverChain(s, their)
  BY <1>2 DEF get_or_create_chain_key
<1>3. CASE ~HasReceiverChain(s, their)
  <2>1. receiving \in RootKey /\ sending \in RootKey
    BY <1>1, CreateChainType DEF SessionStructure
  <2> HIDE DEF sending, receiving
  <2>2. \A i \in DOMAIN s.receiver_chains : s.receiver_chains[i].sender # their
    BY <1>3 DEF HasReceiverChain
  <2>3. chains \in GoodChains /\ \E i \in DOMAIN chains : chains[i].sender = their
    BY <1>1, <2>1, <2>2, AddChainType
  <2>4. chains \in Seq(ReceiverChain)
    BY <2>3 DEF GoodChains, GoodChain
  <2>5. [key |-> sending, index |-> 0] \in ChainKey
    BY <2>1 DEF ChainKey
  <2>6. get_or_create_chain_key(s, their, new) =
          [s EXCEPT !.root_key = sending, !.receiver_chains = chains,
                    !.sender_ratchet = new,
                    !.sender_chain = [key |-> sending, index |-> 0]]
    BY <1>3 DEF get_or_create_chain_key, sending, receiving, chains
  <2> HIDE DEF chains
  <2> QED
    BY <1>1, <2>1, <2>3, <2>4, <2>5, <2>6
    DEF GoodSession, SessionStructure, HasReceiverChain
<1> QED
  BY <1>2, <1>3

(* Taking a key out of a chain, or skipping ahead in it, keeps the skipped *)
(* keys within their limit and older than the chain.                       *)
LEMMA MessageKeyType ==
    ASSUME NEW c \in GoodChain, NEW counter \in Nat
    PROVE  /\ get_or_create_message_key(c, counter) \in GoodChain
           /\ get_or_create_message_key(c, counter).sender = c.sender
<1>1. /\ c \in ReceiverChain /\ c.chain \in ChainKey /\ c.chain.index \in Nat
      /\ c.message_keys \in SUBSET Nat
      /\ IsFiniteSet(c.message_keys)
      /\ Cardinality(c.message_keys) <= MAX_MESSAGE_KEYS
      /\ \A n \in c.message_keys : n < c.chain.index
  BY DEF GoodChain, ReceiverChain, ChainKey
<1>2. CASE c.chain.index > counter
  <2>1. /\ IsFiniteSet(c.message_keys \ {counter})
        /\ Cardinality(c.message_keys \ {counter}) <= Cardinality(c.message_keys)
    BY <1>1, FS_Subset
  <2>2. Cardinality(c.message_keys \ {counter}) \in Nat /\ Cardinality(c.message_keys) \in Nat
    BY <1>1, <2>1, FS_CardinalityType
  <2>3. Cardinality(c.message_keys \ {counter}) <= MAX_MESSAGE_KEYS
    BY <1>1, <2>1, <2>2, LimitsAssumption
  <2>4. get_or_create_message_key(c, counter) =
          [c EXCEPT !.message_keys = c.message_keys \ {counter}]
    BY <1>2 DEF get_or_create_message_key
  <2> QED
    BY <1>1, <2>1, <2>3, <2>4 DEF GoodChain, ReceiverChain
<1>3. CASE ~(c.chain.index > counter)
  <2> DEFINE S == c.message_keys \cup (c.chain.index .. counter - 1)
             K == Newest(S, MAX_MESSAGE_KEYS)
  <2>1. S \in SUBSET Nat /\ \A n \in S : n < counter + 1
    BY <1>1, <1>3
  <2>2. IsFiniteSet(S)
    <3>1. c.chain.index \in Int /\ counter - 1 \in Int
      BY <1>1
    <3>2. IsFiniteSet(c.chain.index .. counter - 1)
      BY <3>1, FS_Interval
    <3> QED
      BY <1>1, <3>2, FS_Union
  <2> HIDE DEF S
  <2>3. K \subseteq S /\ IsFiniteSet(K) /\ Cardinality(K) <= MAX_MESSAGE_KEYS
    BY <2>1, <2>2, NewestBound, LimitsAssumption
  <2>4. get_or_create_message_key(c, counter) =
          [c EXCEPT !.message_keys = K, !.chain.index = counter + 1]
    BY <1>3 DEF get_or_create_message_key, S
  <2> HIDE DEF K
  <2>5. [c.chain EXCEPT !.index = counter + 1] \in ChainKey
    BY <1>1 DEF ChainKey
  <2>6. [c EXCEPT !.message_keys = K, !.chain.index = counter + 1] =
          [c EXCEPT !.message_keys = K, !.chain = [c.chain EXCEPT !.index = counter + 1]]
    BY <1>1 DEF ReceiverChain
  <2>7. /\ get_or_create_message_key(c, counter) \in ReceiverChain
        /\ get_or_create_message_key(c, counter).sender = c.sender
        /\ get_or_create_message_key(c, counter).message_keys = K
        /\ get_or_create_message_key(c, counter).chain.index = counter + 1
    <3>1. PICK x : x = [c.chain EXCEPT !.index = counter + 1]
      OBVIOUS
    <3>2. get_or_create_message_key(c, counter) = [c EXCEPT !.message_keys = K, !.chain = x]
      BY Zenon, <2>4, <2>6, <3>1
    <3>3. x \in ChainKey /\ x.index = counter + 1
      BY <1>1, <2>5, <3>1 DEF ChainKey
    <3>4. K \in SUBSET Nat
      BY <2>1, <2>3
    <3>5. PICK g : g = [c EXCEPT !.message_keys = K, !.chain = x]
      OBVIOUS
    <3>6. /\ g \in ReceiverChain /\ g.sender = c.sender
          /\ g.message_keys = K /\ g.chain = x
      BY <1>1, <3>3, <3>4, <3>5 DEF ReceiverChain
    <3> QED
      BY Zenon, <3>2, <3>3, <3>5, <3>6
  <2>8. \A n \in K : n < counter + 1
    BY <2>1, <2>3
  <2> QED
    BY <2>3, <2>7, <2>8 DEF GoodChain
<1> QED
  BY <1>2, <1>3

(* A session that accepts a message stays within the limits.               *)
LEMMA DecryptStateType ==
    ASSUME NEW s \in GoodSession, NEW m \in CiphertextMessage, NEW new \in Key
    PROVE  /\ decrypt_message_with_state(s, m, new).state \in GoodSession
           /\ decrypt_message_with_state(s, m, new).outcome \in {"ok", "dup", "err"}
<1> DEFINE t == get_or_create_chain_key(s, m.sender_ratchet, new)
           i == get_receiver_chain(t, m.sender_ratchet)
           c == t.receiver_chains[i]
           k == get_or_create_message_key(c, m.counter)
           u == [t EXCEPT !.receiver_chains[i] = k]
<1>1. m.sender_ratchet \in Key /\ m.counter \in Nat
  BY DEF CiphertextMessage
<1>2. t \in GoodSession /\ HasReceiverChain(t, m.sender_ratchet)
  BY <1>1, ChainKeyType
<1> HIDE DEF t
<1>3. i \in DOMAIN t.receiver_chains
  BY <1>2 DEF HasReceiverChain, get_receiver_chain
<1> HIDE DEF i
<1>4. t \in SessionStructure /\ t.receiver_chains \in GoodChains
  BY <1>2 DEF GoodSession
<1>5. /\ t.receiver_chains \in Seq(GoodChain)
      /\ Len(t.receiver_chains) <= MAX_RECEIVER_CHAINS
      /\ DistinctSenders(t.receiver_chains)
  BY <1>4 DEF GoodChains
<1>6. c \in GoodChain
  BY <1>3, <1>5
<1>7. k \in GoodChain /\ k.sender = c.sender
  BY <1>1, <1>6, MessageKeyType
<1> HIDE DEF k
<1>8. [t.receiver_chains EXCEPT ![i] = k] \in GoodChains
  <2> DEFINE chains == [t.receiver_chains EXCEPT ![i] = k]
  <2>1. chains \in Seq(GoodChain) /\ Len(chains) = Len(t.receiver_chains)
        /\ DOMAIN chains = DOMAIN t.receiver_chains
    BY <1>3, <1>5, <1>7
  <2>2. \A j \in DOMAIN chains : chains[j].sender = t.receiver_chains[j].sender
    BY <1>3, <1>5, <1>7
  <2>3. DistinctSenders(chains)
    BY <1>5, <2>1, <2>2 DEF DistinctSenders
  <2> QED
    BY <1>5, <2>1, <2>3 DEF GoodChains
<1>9. u \in GoodSession
  <2>1. [t.receiver_chains EXCEPT ![i] = k] \in Seq(ReceiverChain)
    BY <1>8 DEF GoodChains, GoodChain
  <2>2. u = [t EXCEPT !.receiver_chains = [t.receiver_chains EXCEPT ![i] = k]]
    BY <1>4 DEF SessionStructure
  <2> QED
    BY <1>4, <1>8, <2>1, <2>2 DEF GoodSession, SessionStructure
<1> HIDE DEF u
<1>10. clear_unacknowledged_pre_key_message(u) \in GoodSession
  BY <1>9, ClearType
<1>11. decrypt_message_with_state(s, m, new) \in
         {[outcome |-> "dup", state |-> s], [outcome |-> "err", state |-> s],
          [outcome |-> "ok", state |-> clear_unacknowledged_pre_key_message(u)]}
  BY DEF decrypt_message_with_state, t, i, c, k, u
<1> QED
  BY <1>10, <1>11

-----------------------------------------------------------------------------
(* Operators on records.                                                   *)

LEMMA SubSeqType ==
    ASSUME NEW S, NEW h \in Seq(S), NEW a \in Nat \ {0}, NEW b \in Nat, b <= Len(h)
    PROVE  /\ SubSeq(h, a, b) \in Seq(S)
           /\ Len(SubSeq(h, a, b)) = IF a <= b THEN b - a + 1 ELSE 0
<1>1. \A i \in a .. b : h[i] \in S
  OBVIOUS
<1> QED
  BY <1>1

(* Archiving makes room first, so the archive stays within its limit.      *)
LEMMA ArchiveType ==
    ASSUME NEW r \in GoodRecord
    PROVE  archive_current_state(r) \in GoodRecord
<1> DEFINE h    == r.previous
           n    == IF Len(h) >= ARCHIVED_STATES_MAX_LENGTH THEN Len(h) - 1 ELSE Len(h)
           kept == SubSeq(h, 1, n)
           head == << clear_unacknowledged_pre_key_message(r.current) >>
<1>1. /\ h \in Seq(GoodSession) /\ Len(h) \in Nat
      /\ Len(h) <= ARCHIVED_STATES_MAX_LENGTH
      /\ r.current \in GoodSession \cup {None}
  BY DEF GoodRecord
<1>2. CASE r.current = None
  BY <1>2 DEF archive_current_state
<1>3. CASE r.current # None
  <2>1. clear_unacknowledged_pre_key_message(r.current) \in GoodSession
    BY <1>1, <1>3, ClearType
  <2>2. n \in Nat /\ n <= Len(h) /\ n + 1 <= ARCHIVED_STATES_MAX_LENGTH
    BY <1>1, LimitsAssumption
  <2> HIDE DEF n
  <2>3. kept \in Seq(GoodSession) /\ Len(kept) = n
    BY <1>1, <2>2, SubSeqType
  <2>4. head \in Seq(GoodSession) /\ Len(head) = 1
    BY <2>1
  <2> HIDE DEF kept, head
  <2>5. head \o kept \in Seq(GoodSession) /\ Len(head \o kept) = 1 + n
    <3>1. head \o kept \in Seq(GoodSession) /\ Len(head \o kept) = Len(head) + Len(kept)
      BY Zenon, <2>3, <2>4, ConcatProperties
    <3> QED
      BY Zenon, <2>3, <2>4, <3>1
  <2>6. archive_current_state(r) = [current |-> None, previous |-> head \o kept]
    BY <1>3 DEF archive_current_state, head, kept, n
  <2> QED
    BY <2>2, <2>5, <2>6, LimitsAssumption DEF GoodRecord
<1> QED
  BY <1>2, <1>3

LEMMA PromoteType ==
    ASSUME NEW r \in GoodRecord, NEW s \in GoodSession
    PROVE  /\ promote_state(r, s) \in GoodRecord
           /\ promote_state(r, s).current = s
<1>1. archive_current_state(r) \in GoodRecord
  BY ArchiveType
<1> QED
  BY <1>1 DEF promote_state, GoodRecord

LEMMA PromoteOldType ==
    ASSUME NEW r \in GoodRecord, NEW i \in 1 .. Len(r.previous), NEW s \in GoodSession
    PROVE  /\ promote_old_session(r, i, s) \in GoodRecord
           /\ promote_old_session(r, i, s).current = s
<1> DEFINE h == r.previous
           before == SubSeq(h, 1, i - 1)
           after  == SubSeq(h, i + 1, Len(h))
           u      == [r EXCEPT !.previous = before \o after]
<1>1. /\ h \in Seq(GoodSession) /\ Len(h) \in Nat
      /\ Len(h) <= ARCHIVED_STATES_MAX_LENGTH
  BY DEF GoodRecord
<1>2. before \in Seq(GoodSession) /\ Len(before) = i - 1
  BY <1>1, SubSeqType
<1>3. after \in Seq(GoodSession) /\ Len(after) = Len(h) - i
  BY <1>1, SubSeqType
<1> HIDE DEF before, after
<1>4. /\ before \o after \in Seq(GoodSession)
      /\ Len(before \o after) = Len(before) + Len(after)
  BY <1>2, <1>3, ConcatProperties
<1>5. Len(before \o after) <= ARCHIVED_STATES_MAX_LENGTH
  BY <1>1, <1>2, <1>3, <1>4, LimitsAssumption
<1>6. u \in GoodRecord
  BY <1>4, <1>5 DEF GoodRecord
<1>7. promote_old_session(r, i, s) = promote_state(u, s)
  BY DEF promote_old_session, before, after
<1> HIDE DEF u
<1> QED
  BY <1>6, <1>7, PromoteType

LEMMA FreshType == new_fresh \in GoodRecord
BY LimitsAssumption DEF new_fresh, GoodRecord

(* A non-empty set of numbers has a first one: < is well-founded.          *)
LEMMA FirstIsLeast ==
    ASSUME NEW S \in SUBSET Nat, S # {}
    PROVE  First(S) \in S /\ \A j \in S : First(S) <= j
<1> DEFINE R == OpToRel(<, Nat)
<1>1. IsWellFoundedOn(R, Nat)
  BY Zenon, NatLessThanWellFounded
<1>2. \A i, j \in Nat : << i, j >> \in R <=> i < j
  BY Zenon DEF OpToRel
<1> HIDE DEF R
<1>3. \E i \in S : \A j \in S : ~(<< j, i >> \in R)
  BY <1>1, WFMin
<1>4. \E i \in S : \A j \in S : i <= j
  <2>1. PICK i \in S : \A j \in S : ~(<< j, i >> \in R)
    BY <1>3
  <2>2. \A j \in S : ~(j < i)
    BY <1>2, <2>1
  <2>3. \A j \in S : i <= j
    BY <2>2
  <2> QED
    BY <2>3
<1> QED
  BY <1>4 DEF First

LEMMA SessionAtType ==
    ASSUME NEW r \in GoodRecord, NEW i \in 0 .. Len(r.previous),
           i > 0 \/ r.current # None
    PROVE  SessionAt(r, i) \in GoodSession
<1>1. r.previous \in Seq(GoodSession) /\ r.current \in GoodSession \cup {None}
  BY DEF GoodRecord
<1>2. CASE i = 0
  BY <1>1, <1>2 DEF SessionAt
<1>3. CASE i # 0
  <2>1. i \in 1 .. Len(r.previous)
    BY <1>1, <1>3
  <2>2. r.previous[i] \in GoodSession
    BY <1>1, <2>1
  <2> QED
    BY <1>3, <2>2 DEF SessionAt
<1> QED
  BY <1>2, <1>3

LEMMA PromoteMatchingType ==
    ASSUME NEW r \in GoodRecord, NEW base, MatchingSessions(r, base) # {}
    PROVE  /\ promote_matching_session(r, base) \in GoodRecord
           /\ promote_matching_session(r, base).current \in GoodSession
<1> DEFINE i == First(MatchingSessions(r, base))
<1>1. r.previous \in Seq(GoodSession) /\ r.current \in GoodSession \cup {None}
  BY DEF GoodRecord
<1>2. MatchingSessions(r, base) \in SUBSET (0 .. Len(r.previous))
  BY DEF MatchingSessions
<1>3. MatchingSessions(r, base) \in SUBSET Nat
  BY <1>2
<1>4. i \in MatchingSessions(r, base)
  BY <1>3, FirstIsLeast
<1>5. i \in 0 .. Len(r.previous) /\ (i = 0 => r.current # None)
  BY <1>4 DEF MatchingSessions
<1>6. promote_matching_session(r, base) =
        IF i = 0 THEN r ELSE promote_old_session(r, i, r.previous[i])
  BY DEF promote_matching_session
<1> HIDE DEF i
<1>7. CASE i = 0
  BY <1>1, <1>5, <1>6, <1>7
<1>8. CASE i # 0
  <2>1. i \in 1 .. Len(r.previous)
    BY <1>1, <1>5, <1>8
  <2>2. r.previous[i] \in GoodSession
    BY <1>1, <2>1
  <2> QED
    BY <1>6, <1>8, <2>1, <2>2, PromoteOldType
<1> QED
  BY <1>7, <1>8

(* A record that accepts a message stays within the limits and has a       *)
(* current session.                                                        *)
LEMMA DecryptRecordType ==
    ASSUME NEW r \in GoodRecord, NEW m \in CiphertextMessage, NEW new \in Key,
           NEW places \in SUBSET (0 .. Len(r.previous)),
           \A i \in places : SessionAt(r, i) \in GoodSession,
           decrypt_message_with_record(r, m, new, places).outcome = "ok"
    PROVE  /\ decrypt_message_with_record(r, m, new, places).record \in GoodRecord
           /\ decrypt_message_with_record(r, m, new, places).record.current
                 \in GoodSession
<1> DEFINE at(i) == decrypt_message_with_state(SessionAt(r, i), m, new)
           stop  == {i \in places : at(i).outcome # "err"}
           i     == First(stop)
           d     == decrypt_message_with_record(r, m, new, places)
<1>1. r.previous \in Seq(GoodSession) /\ r.current \in GoodSession \cup {None}
  BY DEF GoodRecord
<1>2. \A j \in places : at(j).state \in GoodSession
  BY DecryptStateType
<1>3. d = IF stop = {} \/ at(i).outcome # "ok"
            THEN [outcome |-> IF stop = {} THEN "err" ELSE "dup", record |-> r]
            ELSE [outcome |-> "ok",
                  record  |-> IF i = 0
                                THEN [r EXCEPT !.current = at(i).state]
                                ELSE promote_old_session(r, i, at(i).state)]
  BY DEF decrypt_message_with_record
<1>4. d.outcome = "ok"
  OBVIOUS
<1> HIDE DEF at, d
<1>5. stop # {} /\ d.record = IF i = 0 THEN [r EXCEPT !.current = at(i).state]
                                       ELSE promote_old_session(r, i, at(i).state)
  <2> HIDE DEF stop, i
  <2>1. ~(stop = {} \/ at(i).outcome # "ok")
    <3> SUFFICES ASSUME stop = {} \/ at(i).outcome # "ok" PROVE FALSE
      OBVIOUS
    <3>1. d.outcome \in {"err", "dup"}
      BY <1>3
    <3> QED
      BY <1>4, <3>1
  <2> QED
    BY <1>3, <2>1
<1>6. stop \in SUBSET Nat /\ stop \in SUBSET places
  <2>1. stop \in SUBSET places
    OBVIOUS
  <2>2. places \in SUBSET Nat
    BY <1>1
  <2> HIDE DEF stop
  <2> QED
    BY <2>1, <2>2
<1>7. i \in places
  BY <1>5, <1>6, FirstIsLeast
<1> HIDE DEF stop, i
<1>8. at(i).state \in GoodSession
  BY <1>2, <1>7
<1>9. CASE i = 0
  <2>1. d.record = [r EXCEPT !.current = at(i).state]
    BY <1>5, <1>9
  <2>2. d.record \in GoodRecord /\ d.record.current \in GoodSession
    BY <1>8, <2>1 DEF GoodRecord
  <2> QED
    BY <2>2 DEF d
<1>10. CASE i # 0
  <2>1. i \in 1 .. Len(r.previous)
    BY <1>1, <1>7, <1>10
  <2>2. d.record \in GoodRecord /\ d.record.current \in GoodSession
    BY <1>5, <1>8, <1>10, <2>1, PromoteOldType
  <2> QED
    BY <2>2 DEF d
<1> QED
  BY <1>9, <1>10

LEMMA GoodIsTyped == GoodRecord \subseteq SessionRecord
<1>1. Seq(GoodSession) \subseteq Seq(SessionStructure)
  BY DEF GoodSession
<1> QED
  BY <1>1 DEF GoodRecord, SessionRecord, GoodSession

-----------------------------------------------------------------------------
(* The inductive invariant: the records are within the limits, and finitely *)
(* many ciphertexts were released.                                         *)

GoodSessions == sessions \in [Party -> [Party -> GoodRecord \cup {None}]]

Inv == TypeOK /\ GoodSessions /\ IsFiniteSet(net)

LEMMA NewKeyType ==
    ASSUME TypeOK, NEW p \in Party, NEW n \in Nat
    PROVE  NewKey(p, n) \in Key
BY DEF TypeOK, NewKey, Key

LEMMA InstallationType ==
    ASSUME NEW p \in Party, NEW id \in Key, NEW n \in Nat
    PROVE  NewInstallation(p, id, n) \in Installation
<1>1. \A i \in PreKeyId : << p, n + 2 + i >> \in Key
  BY LimitsAssumption DEF PreKeyId, Key
<1>2. << p, n + 1 >> \in Key /\ << p, n + 2 >> \in Key
  BY DEF Key
<1> QED
  BY <1>1, <1>2 DEF NewInstallation, Installation

LEMMA FirstInstallationType ==
    ASSUME NEW p \in Party
    PROVE  FirstInstallation(p) \in Installation
<1>1. Account \in Party
  BY DEF Account
<1>2. << Account, 0 >> \in Key /\ << p, 0 >> \in Key
  BY <1>1 DEF Key
<1> QED
  BY <1>2, InstallationType DEF FirstInstallation

(* What the bundles are made of, for the handshakes that replace the ones  *)
(* of Session.                                                             *)
KeysPublished ==
    /\ fresh \in [Party -> Nat]
    /\ published \in [Party -> Seq(Installation)]

LEMMA InitPublished == Init => KeysPublished
<1> SUFFICES ASSUME Init PROVE KeysPublished
  OBVIOUS
<1>1. /\ published = [p \in Party |-> << FirstInstallation(p) >>]
      /\ fresh = [p \in Party |-> KeysPerInstallation]
  BY DEF Init
<1>2. KeysPerInstallation \in Nat
  BY LimitsAssumption DEF KeysPerInstallation
<1>3. \A p \in Party : << FirstInstallation(p) >> \in Seq(Installation)
  BY FirstInstallationType
<1> QED
  BY <1>1, <1>2, <1>3 DEF KeysPublished

LEMMA PublishedStep ==
    ASSUME KeysPublished, NEW p \in Party, Reinstall(p)
    PROVE  KeysPublished'
<1>1. fresh[p] \in Nat
  BY DEF KeysPublished
<1>2. NewKey(p, 0) \in Key
  BY <1>1 DEF NewKey, Key
<1>3. PICK i \in Installation : i = NewInstallation(p, NewKey(p, 0), fresh[p])
  BY <1>1, <1>2, InstallationType
<1>4. /\ published' = [published EXCEPT ![p] = Append(published[p], i)]
      /\ fresh' = [fresh EXCEPT ![p] = fresh[p] + KeysPerInstallation]
  BY <1>3 DEF Reinstall
<1>5. KeysPerInstallation \in Nat
  BY LimitsAssumption DEF KeysPerInstallation
<1> QED
  BY <1>1, <1>4, <1>5 DEF KeysPublished

LEMMA ServedBundlesType ==
    ASSUME TypeOK, NEW q \in Party, NEW b \in ServedBundles(q)
    PROVE  b \in BundleType
<1>1. published[q] \in Seq(Installation)
  BY DEF TypeOK
<1>2. PICK i \in DOMAIN published[q], j \in DOMAIN published[q],
           id \in PreKeyId \cup {None} :
             b = Bundle(published[q][i], published[q][j], id)
  BY DEF ServedBundles
<1>3. published[q][i] \in Installation /\ published[q][j] \in Installation
  BY <1>1
<1> QED
  BY <1>2, <1>3 DEF Bundle, BundleType, Installation

LEMMA LoadType ==
    ASSUME GoodSessions, NEW p \in Party, NEW q \in Party
    PROVE  load_or_fresh(p, q) \in GoodRecord
BY FreshType DEF GoodSessions, load_or_fresh

LEMMA StoreType ==
    ASSUME GoodSessions, NEW p \in Party, NEW q \in Party, NEW r \in GoodRecord
    PROVE  store_session(p, q, r) \in [Party -> [Party -> GoodRecord \cup {None}]]
BY DEF GoodSessions, store_session

LEMMA SaveIdentityType ==
    ASSUME TypeOK, NEW p \in Party, NEW q \in Party, NEW key \in Key
    PROVE  save_identity(p, q, key) \in [Party -> [Party -> Key \cup {None}]]
BY DEF TypeOK, save_identity

(* Records within the limits are records, so an action that keeps them     *)
(* within the limits keeps their type.                                     *)
LEMMA GoodSessionsTyped ==
    ASSUME NEW f \in [Party -> [Party -> GoodRecord \cup {None}]]
    PROVE  f \in [Party -> [Party -> SessionRecord \cup {None}]]
BY GoodIsTyped

LEMMA CountType ==
    ASSUME NEW c \in Counts
    PROVE  /\ [c EXCEPT !.bundles = @ + 1] \in Counts
           /\ [c EXCEPT !.archives = @ + 1] \in Counts
           /\ [c EXCEPT !.reinstalls = @ + 1] \in Counts
BY DEF Counts

LEMMA FaultType ==
    ASSUME TypeOK, NEW w, NEW all, Fault(w, all)
    PROVE  count' \in Counts
BY DEF TypeOK, Fault, Counts

LEMMA DeliverType ==
    ASSUME TypeOK, NEW m \in net, Deliver(m), net' = net
    PROVE  delivered' \subseteq net' /\ replayed' \subseteq delivered'
BY DEF TypeOK, Deliver

LEMMA CiphertextType ==
    ASSUME Inv, NEW p \in Party, NEW q \in Party, NEW s \in GoodSession
    PROVE  Ciphertext(p, q, s) \in CiphertextMessage
<1>1. Cardinality({m \in net : m.from = p}) \in Nat
  <2>1. {m \in net : m.from = p} \in SUBSET net
    OBVIOUS
  <2> QED
    BY <2>1, FS_Subset, FS_CardinalityType DEF Inv
<1>2. s \in SessionStructure
  BY DEF GoodSession
<1>3. s.sender_chain.index \in Nat /\ s.sender_chain.key \in RootKey
  BY <1>2 DEF SessionStructure, ChainKey
<1>4. PreKeyPartsOf(s) \in PreKeyParts \cup {None}
  <2>1. CASE s.pending = None
    BY <2>1 DEF PreKeyPartsOf
  <2>2. CASE s.pending # None
    <3>1. s.pending \in PendingPreKey
      BY <1>2, <2>2 DEF SessionStructure
    <3> QED
      BY <1>2, <2>2, <3>1
      DEF PreKeyPartsOf, PreKeyParts, PendingPreKey, SessionStructure
  <2> QED
    BY <2>1, <2>2
<1> QED
  BY <1>1, <1>2, <1>3, <1>4 DEF Ciphertext, CiphertextMessage, SessionStructure

(* Advancing the sender chain of the current session.                      *)
LEMMA SenderChainType ==
    ASSUME NEW r \in GoodRecord, r.current \in GoodSession
    PROVE  set_sender_chain_key(r) \in GoodRecord
<1> DEFINE s == r.current
           k == [s.sender_chain EXCEPT !.index = s.sender_chain.index + 1]
           t == [s EXCEPT !.sender_chain = k]
<1>1. s \in SessionStructure
  BY DEF GoodSession
<1>2. k \in ChainKey
  BY <1>1 DEF SessionStructure, ChainKey
<1>3. t \in GoodSession
  <2> HIDE DEF k
  <2> QED
    BY <1>1, <1>2 DEF GoodSession, SessionStructure
<1>4. set_sender_chain_key(r) = [r EXCEPT !.current = t]
  <2>1. [r EXCEPT !.current.sender_chain.index = @ + 1] = [r EXCEPT !.current = t]
    BY <1>1 DEF GoodRecord, SessionStructure
  <2> QED
    BY <2>1 DEF set_sender_chain_key
<1> HIDE DEF t
<1> QED
  BY <1>3, <1>4 DEF GoodRecord

(* Accepting a pre-key message, whether it matches a session or starts one. *)
LEMMA ProcessPreKeyType ==
    ASSUME Inv, NEW p \in Party, NEW q \in Party,
           NEW m \in CiphertextMessage, m.pre # None
    PROVE  /\ process_prekey(p, q, m) \in GoodRecord
           /\ process_prekey(p, q, m).current \in GoodSession
<1>1. load_or_fresh(p, q) \in GoodRecord
  BY LoadType DEF Inv
<1>2. m.pre \in PreKeyParts
  BY DEF CiphertextMessage
<1>3. CASE HasMatching(p, q, m)
  BY <1>1, <1>3, PromoteMatchingType DEF process_prekey, HasMatching
<1>4. CASE ~HasMatching(p, q, m)
  <2>1. GetPreKey(p, m) \in Key \cup {None}
    BY <1>2 DEF GetPreKey, PreKeyParts, Inv, TypeOK
  <2>2. identity[p] \in Key /\ signed[p] \in Key /\ kyber[p] \in Key
    BY DEF Inv, TypeOK
  <2>3. initialize_bob_session(identity[p], signed[p], kyber[p], GetPreKey(p, m), m.pre)
           \in GoodSession
    BY <1>2, <2>1, <2>2, BobType
  <2> QED
    BY <1>1, <1>4, <2>3, PromoteType DEF process_prekey
<1> QED
  BY <1>3, <1>4

-----------------------------------------------------------------------------
(* Each action preserves the invariant.                                    *)

LEMMA InitInv == Init => Inv
<1> SUFFICES ASSUME Init PROVE Inv
  OBVIOUS
<1>1. \A p \in Party : FirstInstallation(p) \in Installation
  BY FirstInstallationType
<1>2. /\ identity \in [Party -> Key]
      /\ signed \in [Party -> Key]
      /\ kyber \in [Party -> Key]
      /\ pre_keys \in [Party -> [PreKeyId -> Key \cup {None}]]
  BY <1>1 DEF Init, Installation
<1>3. published \in [Party -> Seq(Installation)]
  BY <1>1 DEF Init
<1>4. fresh \in [Party -> Nat]
  BY LimitsAssumption DEF Init, KeysPerInstallation
<1>5. count \in Counts
  BY DEF Init, Counts
<1>6. GoodSessions /\ IsFiniteSet(net)
  BY FS_EmptySet DEF Init, GoodSessions
<1>7. sessions \in [Party -> [Party -> SessionRecord \cup {None}]]
  BY DEF Init
<1>8. /\ base_keys_seen \in [Party -> SUBSET Key]
      /\ known_keys \in [Party -> [Party -> Key \cup {None}]]
      /\ now \in Nat /\ net \subseteq CiphertextMessage
      /\ delivered \subseteq net /\ replayed \subseteq delivered
  BY DEF Init
<1> QED
  BY <1>2, <1>3, <1>4, <1>5, <1>6, <1>7, <1>8 DEF Inv, TypeOK

LEMMA BundleStep ==
    ASSUME Inv, NEW p \in Party, NEW q \in Party, NEW b \in ServedBundles(q),
           NEW w \in 1 .. 2, process_prekey_bundle(p, q, b, w)
    PROVE  Inv'
<1> DEFINE base    == NewKey(p, 0)
           alice   == initialize_alice_session(identity[p], base, NewKey(p, 1), b)
           session == set_unacknowledged_pre_key_message(alice, b.pre_key_id,
                           encapsulate(b.kyber, base), now)
<1>1. TypeOK /\ GoodSessions
  BY DEF Inv
<1>2. b \in BundleType /\ base \in Key /\ NewKey(p, 1) \in Key
  BY <1>1, ServedBundlesType, NewKeyType
<1>3. alice \in GoodSession
  BY <1>1, <1>2, AliceType DEF TypeOK
<1>4. encapsulate(b.kyber, base) \in Kem
  BY <1>2 DEF encapsulate, Kem, BundleType
<1>5. session \in GoodSession
  <2> HIDE DEF alice, base
  <2> QED
    BY <1>1, <1>2, <1>3, <1>4, PendingType DEF BundleType, TypeOK
<1>6. promote_state(load_or_fresh(p, q), session) \in GoodRecord
  BY <1>1, <1>5, LoadType, PromoteType
<1>7. sessions' \in [Party -> [Party -> GoodRecord \cup {None}]]
  <2>1. sessions' = IF w = 2
                      THEN store_session(p, q, promote_state(load_or_fresh(p, q), session))
                      ELSE sessions
    BY DEF process_prekey_bundle
  <2> HIDE DEF session
  <2> QED
    BY <1>1, <1>6, <2>1, StoreType DEF GoodSessions
<1> HIDE DEF session, alice, base
<1>8. count' \in Counts
  <2>1. count' = [count EXCEPT !.bundles = @ + 1] \/ Fault(w, 2)
    BY DEF process_prekey_bundle
  <2> QED
    BY <1>1, <2>1, CountType, FaultType DEF TypeOK
<1>9. known_keys' \in [Party -> [Party -> Key \cup {None}]]
  BY <1>1, <1>2, SaveIdentityType DEF process_prekey_bundle, BundleType
<1>10. fresh' \in [Party -> Nat]
  BY <1>1 DEF process_prekey_bundle, TypeOK
<1>11. UNCHANGED << identity, signed, kyber, pre_keys, base_keys_seen,
                    published, now, net, delivered, replayed >>
  BY DEF process_prekey_bundle
<1> QED
  BY <1>1, <1>7, <1>8, <1>9, <1>10, <1>11, GoodSessionsTyped
  DEF Inv, TypeOK, GoodSessions

LEMMA EncryptStep ==
    ASSUME Inv, NEW p \in Party, NEW q \in Party, NEW w \in 1 .. 2,
           message_encrypt(p, q, w)
    PROVE  Inv'
<1> DEFINE r == sessions[p][q]
<1>1. TypeOK /\ GoodSessions /\ IsFiniteSet(net)
  BY DEF Inv
<1>2. r \in GoodRecord /\ r.current \in GoodSession
  BY <1>1 DEF message_encrypt, HasCurrentSession, GoodSessions, GoodRecord
<1>3. Ciphertext(p, q, r.current) \in CiphertextMessage
  BY <1>2, CiphertextType
<1>4. net' \subseteq CiphertextMessage /\ net \subseteq net' /\ IsFiniteSet(net')
  <2>1. net' = net \/ net' = net \cup {Ciphertext(p, q, r.current)}
    BY DEF message_encrypt
  <2>2. net \subseteq CiphertextMessage
    BY <1>1 DEF TypeOK
  <2>3. IsFiniteSet(net \cup {Ciphertext(p, q, r.current)})
    BY <1>1, FS_AddElement
  <2> HIDE DEF r
  <2>4. CASE net' = net
    BY <1>1, <2>2, <2>4
  <2>5. CASE net' = net \cup {Ciphertext(p, q, r.current)}
    BY <1>3, <2>2, <2>3, <2>5
  <2> QED
    BY <2>1, <2>4, <2>5
<1>5. sessions' \in [Party -> [Party -> GoodRecord \cup {None}]]
  <2>1. set_sender_chain_key(r) \in GoodRecord
    BY <1>2, SenderChainType
  <2>2. sessions' = IF w = 2 THEN store_session(p, q, set_sender_chain_key(r)) ELSE sessions
    BY DEF message_encrypt
  <2> HIDE DEF r
  <2> QED
    BY <1>1, <2>1, <2>2, StoreType DEF GoodSessions
<1>6. count' \in Counts
  BY <1>1, FaultType DEF message_encrypt
<1>7. known_keys' \in [Party -> [Party -> Key \cup {None}]]
  BY <1>1, <1>2, SaveIdentityType DEF message_encrypt, GoodSession, SessionStructure
<1>8. UNCHANGED << identity, signed, kyber, pre_keys, base_keys_seen,
                   published, fresh, now, delivered, replayed >>
  BY DEF message_encrypt
<1> QED
  BY <1>1, <1>4, <1>5, <1>6, <1>7, <1>8, GoodSessionsTyped
  DEF Inv, TypeOK, GoodSessions

LEMMA DecryptSignalStep ==
    ASSUME Inv, NEW m \in net, NEW w \in 1 .. 2,
           message_decrypt_signal(m.to, m.from, m, w)
    PROVE  Inv'
<1> DEFINE p == m.to
           q == m.from
           r == sessions[p][q]
           d == decrypt_message_with_record(r, m, NewKey(p, 0), Places(r))
<1>1. TypeOK /\ GoodSessions /\ IsFiniteSet(net)
  BY DEF Inv
<1>2. m \in CiphertextMessage /\ p \in Party /\ q \in Party
  BY <1>1 DEF TypeOK, CiphertextMessage
<1>3. r \in GoodRecord /\ d.outcome = "ok"
  <2>1. r # None /\ d.outcome = "ok"
    BY Zenon DEF message_decrypt_signal
  <2> HIDE DEF d
  <2> QED
    BY Zenon, <1>1, <1>2, <2>1 DEF GoodSessions
<1>4. d.record \in GoodRecord /\ d.record.current \in GoodSession
  <2>1. Places(r) \in SUBSET (0 .. Len(r.previous))
    BY DEF Places
  <2>2. \A i \in Places(r) : SessionAt(r, i) \in GoodSession
    BY <1>3, SessionAtType DEF Places
  <2>3. NewKey(p, 0) \in Key
    BY <1>1, <1>2, NewKeyType
  <2> HIDE DEF p, q, r
  <2> QED
    BY <1>2, <1>3, <2>1, <2>2, <2>3, DecryptRecordType
<1>5. /\ known_keys' = save_identity(p, q, d.record.current.remote_identity)
      /\ \/ /\ sessions' = store_session(p, q, d.record)
            /\ fresh' = [fresh EXCEPT ![p] = @ + 1]
         \/ UNCHANGED << sessions, fresh >>
      /\ Fault(w, 2)
      /\ Deliver(m) \/ UNCHANGED << delivered, replayed >>
      /\ UNCHANGED << identity, signed, kyber, pre_keys, base_keys_seen,
                      published, now, net >>
  BY Zenon DEF message_decrypt_signal
<1> HIDE DEF d, r, p, q
<1>6. sessions' \in [Party -> [Party -> GoodRecord \cup {None}]]
  BY <1>1, <1>2, <1>4, <1>5, StoreType DEF GoodSessions
<1>7. known_keys' \in [Party -> [Party -> Key \cup {None}]]
  <2>1. d.record.current.remote_identity \in Key
    BY <1>4 DEF GoodSession, SessionStructure
  <2> QED
    BY <1>1, <1>2, <1>5, <2>1, SaveIdentityType
<1>8. fresh' \in [Party -> Nat] /\ count' \in Counts
  <2>1. fresh' \in [Party -> Nat]
    <3>1. fresh \in [Party -> Nat]
      BY <1>1 DEF TypeOK
    <3>2. fresh' = fresh \/ fresh' = [fresh EXCEPT ![p] = @ + 1]
      BY <1>5
    <3> QED
      BY <1>2, <3>1, <3>2
  <2>2. count' \in Counts
    BY <1>1, <1>5, FaultType
  <2> QED
    BY <2>1, <2>2
<1>9. delivered' \subseteq net' /\ replayed' \subseteq delivered'
  BY <1>1, <1>5, DeliverType DEF TypeOK
<1> QED
  BY Zenon, <1>1, <1>5, <1>6, <1>7, <1>8, <1>9, GoodSessionsTyped
  DEF Inv, TypeOK, GoodSessions

LEMMA DecryptPreKeyStep ==
    ASSUME Inv, NEW m \in net, NEW w \in 1 .. 4,
           message_decrypt_prekey(m.to, m.from, m, w)
    PROVE  Inv'
<1> DEFINE p == m.to
           q == m.from
           r == process_prekey(p, q, m)
           d == decrypt_message_with_record(r, m, NewKey(p, 0), {0})
<1>1. TypeOK /\ GoodSessions /\ IsFiniteSet(net)
  BY DEF Inv
<1>2. m \in CiphertextMessage /\ p \in Party /\ q \in Party
  BY <1>1 DEF TypeOK, CiphertextMessage
<1>3. m.pre # None /\ d.outcome = "ok"
  BY DEF message_decrypt_prekey, decrypt_prekey
<1>4. /\ m.pre \in PreKeyParts /\ m.pre.base_key \in Key /\ m.pre.identity_key \in Key
      /\ m.pre.pre_key_id \in PreKeyId \cup {None}
  BY <1>2, <1>3 DEF CiphertextMessage, PreKeyParts
<1>5. r \in GoodRecord /\ r.current \in GoodSession
  BY <1>2, <1>3, ProcessPreKeyType
<1>6. d.record \in GoodRecord
  <2>1. {0} \in SUBSET (0 .. Len(r.previous))
    BY <1>5 DEF GoodRecord
  <2>2. \A i \in {0} : SessionAt(r, i) \in GoodSession
    BY <1>5 DEF SessionAt
  <2>3. NewKey(p, 0) \in Key
    BY <1>1, <1>2, NewKeyType
  <2> HIDE DEF p, q, r
  <2> QED
    BY <1>2, <1>3, <1>5, <2>1, <2>2, <2>3, DecryptRecordType
<1>7. /\ known_keys' = save_identity(p, q, m.pre.identity_key)
      /\ base_keys_seen' \in {mark_kyber_pre_key_used(p, m), base_keys_seen}
      /\ pre_keys' \in {remove_pre_key(p, m), pre_keys}
      /\ \/ /\ sessions' = store_session(p, q, d.record)
            /\ fresh' = [fresh EXCEPT ![p] = @ + 1]
         \/ UNCHANGED << sessions, fresh >>
      /\ Fault(w, 4) \/ UNCHANGED count
      /\ Deliver(m) \/ UNCHANGED << delivered, replayed >>
      /\ UNCHANGED << identity, signed, kyber, published, now, net >>
  BY DEF message_decrypt_prekey, decrypt_prekey
<1> HIDE DEF d, r, p, q
<1>8. sessions' \in [Party -> [Party -> GoodRecord \cup {None}]]
  BY <1>1, <1>2, <1>6, <1>7, StoreType DEF GoodSessions
<1>9. known_keys' \in [Party -> [Party -> Key \cup {None}]]
  BY <1>1, <1>2, <1>4, <1>7, SaveIdentityType
<1>10. base_keys_seen' \in [Party -> SUBSET Key]
  <2>1. base_keys_seen \in [Party -> SUBSET Key]
    BY <1>1 DEF TypeOK
  <2>2. mark_kyber_pre_key_used(p, m) \in [Party -> SUBSET Key]
    BY <1>2, <1>4, <2>1 DEF mark_kyber_pre_key_used
  <2> QED
    BY <1>7, <2>1, <2>2
<1>11. pre_keys' \in [Party -> [PreKeyId -> Key \cup {None}]]
  <2>1. pre_keys \in [Party -> [PreKeyId -> Key \cup {None}]]
    BY <1>1 DEF TypeOK
  <2>2. remove_pre_key(p, m) \in [Party -> [PreKeyId -> Key \cup {None}]]
    <3>1. CASE m.pre.pre_key_id = None
      BY <2>1, <3>1 DEF remove_pre_key
    <3>2. CASE m.pre.pre_key_id # None
      <4>1. m.pre.pre_key_id \in PreKeyId
        BY <1>4, <3>2
      <4>2. remove_pre_key(p, m) = [pre_keys EXCEPT ![p][m.pre.pre_key_id] = None]
        BY <3>2 DEF remove_pre_key
      <4> QED
        BY <1>2, <2>1, <4>1, <4>2
    <3> QED
      BY <3>1, <3>2
  <2> QED
    BY <1>7, <2>1, <2>2
<1>12. fresh' \in [Party -> Nat] /\ count' \in Counts
  <2>1. fresh' \in [Party -> Nat]
    <3>1. fresh \in [Party -> Nat]
      BY <1>1 DEF TypeOK
    <3>2. fresh' = fresh \/ fresh' = [fresh EXCEPT ![p] = @ + 1]
      BY <1>7
    <3> QED
      BY <1>2, <3>1, <3>2
  <2>2. count' \in Counts
    BY <1>1, <1>7, FaultType DEF TypeOK
  <2> QED
    BY <2>1, <2>2
<1>13. delivered' \subseteq net' /\ replayed' \subseteq delivered'
  BY <1>1, <1>7, DeliverType DEF TypeOK
<1> QED
  BY <1>1, <1>7, <1>8, <1>9, <1>10, <1>11, <1>12, <1>13, GoodSessionsTyped
  DEF Inv, TypeOK, GoodSessions

LEMMA ArchiveStep ==
    ASSUME Inv, NEW p \in Party, NEW q \in Party, archive_session(p, q)
    PROVE  Inv'
<1>1. TypeOK /\ GoodSessions /\ IsFiniteSet(net)
  BY DEF Inv
<1>2. sessions[p][q] \in GoodRecord
  BY <1>1 DEF archive_session, HasCurrentSession, GoodSessions
<1>3. sessions' \in [Party -> [Party -> GoodRecord \cup {None}]]
  BY <1>1, <1>2, ArchiveType, StoreType DEF archive_session
<1>4. count' \in Counts
  BY <1>1, CountType DEF archive_session, TypeOK
<1> QED
  BY <1>1, <1>3, <1>4, GoodSessionsTyped DEF archive_session, Inv, TypeOK, GoodSessions

LEMMA AcceptStep ==
    ASSUME Inv, NEW p \in Party, NEW q \in Party, AcceptIdentity(p, q)
    PROVE  Inv'
<1>1. TypeOK /\ identity[q] \in Key
  BY DEF Inv, TypeOK
<1>2. known_keys' \in [Party -> [Party -> Key \cup {None}]]
  BY <1>1, SaveIdentityType DEF AcceptIdentity
<1> QED
  BY <1>1, <1>2 DEF AcceptIdentity, Inv, TypeOK, GoodSessions

LEMMA ReinstallStep ==
    ASSUME Inv, NEW p \in Party, Reinstall(p)
    PROVE  Inv'
<1> DEFINE i == NewInstallation(p, NewKey(p, 0), fresh[p])
<1>1. TypeOK /\ GoodSessions /\ IsFiniteSet(net)
  BY DEF Inv
<1>2. i \in Installation
  BY <1>1, NewKeyType, InstallationType DEF TypeOK
<1>3. /\ identity' = [identity EXCEPT ![p] = i.identity]
      /\ signed' = [signed EXCEPT ![p] = i.signed]
      /\ kyber' = [kyber EXCEPT ![p] = i.kyber]
      /\ pre_keys' = [pre_keys EXCEPT ![p] = i.pre_keys]
      /\ published' = [published EXCEPT ![p] = Append(published[p], i)]
  BY DEF Reinstall
<1> HIDE DEF i
<1>4. /\ identity' \in [Party -> Key]
      /\ signed' \in [Party -> Key]
      /\ kyber' \in [Party -> Key]
      /\ pre_keys' \in [Party -> [PreKeyId -> Key \cup {None}]]
  BY <1>1, <1>2, <1>3 DEF TypeOK, Installation
<1>5. published' \in [Party -> Seq(Installation)]
  <2>1. Append(published[p], i) \in Seq(Installation)
    BY <1>1, <1>2 DEF TypeOK
  <2> QED
    BY <1>1, <1>3, <2>1 DEF TypeOK
<1>6. /\ base_keys_seen' \in [Party -> SUBSET Key]
      /\ known_keys' \in [Party -> [Party -> Key \cup {None}]]
  BY <1>1 DEF Reinstall, TypeOK
<1>7. sessions' \in [Party -> [Party -> GoodRecord \cup {None}]]
  BY <1>1 DEF Reinstall, GoodSessions
<1>8. fresh' \in [Party -> Nat] /\ count' \in Counts
  <2>1. fresh' \in [Party -> Nat]
    BY <1>1, LimitsAssumption DEF Reinstall, TypeOK, KeysPerInstallation
  <2>2. count' \in Counts
    BY <1>1, CountType DEF Reinstall, TypeOK
  <2> QED
    BY <2>1, <2>2
<1>9. UNCHANGED << now, net, delivered, replayed >>
  BY DEF Reinstall
<1> QED
  BY <1>1, <1>4, <1>5, <1>6, <1>7, <1>8, <1>9, GoodSessionsTyped
  DEF Inv, TypeOK, GoodSessions

LEMMA NextInv == Inv /\ [Next]_vars => Inv'
<1> SUFFICES ASSUME Inv, [Next]_vars PROVE Inv'
  OBVIOUS
<1>1. ASSUME NEW p \in Party, NEW q \in Peers(p), StartSession(p, q) PROVE Inv'
  BY <1>1, BundleStep DEF StartSession, Peers
<1>2. ASSUME NEW p \in Party, NEW q \in Peers(p), Encrypt(p, q) PROVE Inv'
  BY <1>2, EncryptStep DEF Encrypt, Peers
<1>3. ASSUME NEW p \in Party, NEW q \in Peers(p), archive_session(p, q) PROVE Inv'
  BY <1>3, ArchiveStep DEF Peers
<1>4. ASSUME NEW p \in Party, NEW q \in Peers(p), AcceptIdentity(p, q) PROVE Inv'
  BY <1>4, AcceptStep DEF Peers
<1>5. ASSUME NEW m \in net, DecryptSignal(m) PROVE Inv'
  BY <1>5, DecryptSignalStep DEF DecryptSignal
<1>6. ASSUME NEW m \in net, DecryptPreKey(m) PROVE Inv'
  BY <1>6, DecryptPreKeyStep DEF DecryptPreKey
<1>7. ASSUME NEW p \in Party, Reinstall(p) PROVE Inv'
  BY <1>7, ReinstallStep
<1>8. CASE Tick
  BY <1>8 DEF Tick, stores, Inv, TypeOK, GoodSessions
<1>9. CASE UNCHANGED vars
  BY <1>9 DEF vars, stores, Inv, TypeOK, GoodSessions
<1> QED
  BY <1>1, <1>2, <1>3, <1>4, <1>5, <1>6, <1>7, <1>8, <1>9 DEF Next

LEMMA InvImpliesLimits == Inv => LimitsRespected
<1> SUFFICES ASSUME Inv, NEW p \in Party, NEW q \in Party, sessions[p][q] # None
             PROVE  /\ Len(sessions[p][q].previous) <= ARCHIVED_STATES_MAX_LENGTH
                    /\ \A s \in SessionsOf(sessions[p][q]) : WithinLimits(s)
  BY DEF LimitsRespected
<1> DEFINE r == sessions[p][q]
<1>1. r \in GoodRecord
  BY DEF Inv, GoodSessions
<1>2. Len(r.previous) <= ARCHIVED_STATES_MAX_LENGTH
  BY <1>1 DEF GoodRecord
<1> HIDE DEF r
<1>3. ASSUME NEW s \in SessionsOf(r) PROVE WithinLimits(s)
  <2>1. s \in GoodSession
    BY <1>1, SessionAtType DEF SessionsOf, Places
  <2>2. /\ s.receiver_chains \in Seq(GoodChain)
        /\ Len(s.receiver_chains) <= MAX_RECEIVER_CHAINS
        /\ DistinctSenders(s.receiver_chains)
    BY <2>1 DEF GoodSession, GoodChains
  <2>3. \A i \in DOMAIN s.receiver_chains : s.receiver_chains[i] \in GoodChain
    BY <2>2
  <2> QED
    BY <2>2, <2>3 DEF WithinLimits, GoodChain, DistinctSenders
<1> QED
  BY <1>2, <1>3 DEF r

(* Every reachable state is well typed: in particular a record's current   *)
(* session and archive only ever hold sessions, never Rust's None, however *)
(* encryption, decryption, archiving and promotion interleave.             *)
THEOREM TypeCorrect == Spec => []TypeOK
<1>1. Inv => TypeOK
  BY DEF Inv
<1> QED
  BY <1>1, InitInv, NextInv, PTL DEF Spec

(* The limits of consts.rs hold in every reachable state, for every value  *)
(* of the limits and every number of devices and messages: the archive,    *)
(* the receiver chains and the skipped keys never outgrow them.            *)
THEOREM LimitsHold == Spec => []LimitsRespected
  BY InitInv, NextInv, InvImpliesLimits, PTL DEF Spec

-----------------------------------------------------------------------------
(* What the operators on sessions and records do, as the safety proofs     *)
(* need it: one relation between a session and what accepting a message    *)
(* makes of it, and one between a record and the record that an operation  *)
(* puts in its place.                                                      *)

(* s is t, or t without its pending pre-key message.                       *)
SameSession(s, t) ==
    /\ s.local_identity = t.local_identity
    /\ s.remote_identity = t.remote_identity
    /\ s.alice_base_key = t.alice_base_key
    /\ s.root_key = t.root_key
    /\ s.sender_ratchet = t.sender_ratchet
    /\ s.sender_chain = t.sender_chain
    /\ s.receiver_chains = t.receiver_chains
    /\ s.pq = t.pq
    /\ s.pending \in {t.pending, None}

LEMMA SameSessionRefl ==
    ASSUME NEW s
    PROVE  SameSession(s, s)
BY DEF SameSession

LEMMA SameSessionTrans ==
    ASSUME NEW s, NEW t, NEW u, SameSession(s, t), SameSession(t, u)
    PROVE  SameSession(s, u)
BY DEF SameSession

LEMMA ClearEffect ==
    ASSUME NEW s \in GoodSession
    PROVE  SameSession(clear_unacknowledged_pre_key_message(s), s)
BY DEF clear_unacknowledged_pre_key_message, SameSession, GoodSession, SessionStructure

-----------------------------------------------------------------------------
(* Accepting a message.                                                    *)

(* The session has the message's chain, and the message's key is in it.    *)
OnOldChain(s, m, u) ==
    /\ u.root_key = s.root_key
    /\ u.sender_ratchet = s.sender_ratchet
    /\ u.sender_chain = s.sender_chain
    /\ \E i \in DOMAIN s.receiver_chains :
          /\ s.receiver_chains[i].chain.key = m.chain_key
          /\ ~IsDuplicate(s.receiver_chains[i], m.counter)

(* The message's chain is one ratchet step ahead, and so is then the       *)
(* session's own.                                                          *)
OnNewChain(s, m, new, u) ==
    /\ m.chain_key = create_chain(s.root_key, m.sender_ratchet, s.sender_ratchet)
    /\ u.root_key = create_chain(m.chain_key, m.sender_ratchet, new)
    /\ u.sender_ratchet = new
    /\ u.sender_chain = [key |-> u.root_key, index |-> 0]

(* A receiver chain of u: another one of s, or the message's own with its  *)
(* key used.                                                               *)
ChainAfter(s, m, c) ==
    \/ /\ \E i \in DOMAIN s.receiver_chains : c = s.receiver_chains[i]
       /\ c.sender # m.sender_ratchet
    \/ /\ c.sender = m.sender_ratchet
       /\ c.chain.key = m.chain_key
       /\ IsDuplicate(c, m.counter)
       /\ \A i \in DOMAIN s.receiver_chains :
             s.receiver_chains[i].sender = m.sender_ratchet =>
                 /\ s.receiver_chains[i].chain.key = m.chain_key
                 /\ \A n \in Nat : IsDuplicate(s.receiver_chains[i], n) => IsDuplicate(c, n)

Accepts(s, m, new, u) ==
    /\ u.local_identity = s.local_identity
    /\ u.remote_identity = s.remote_identity
    /\ u.alice_base_key = s.alice_base_key
    /\ u.pq = s.pq
    /\ u.pending = None
    /\ pq_ratchet_recv(s.pq, m.pq)
    /\ m.sender_identity = s.remote_identity
    /\ m.receiver_identity = s.local_identity
    /\ OnOldChain(s, m, u) \/ OnNewChain(s, m, new, u)
    /\ \A j \in DOMAIN u.receiver_chains : ChainAfter(s, m, u.receiver_chains[j])

LEMMA MessageKeyEffect ==
    ASSUME NEW c \in GoodChain, NEW counter \in Nat
    PROVE  LET k == get_or_create_message_key(c, counter) IN
           /\ k.sender = c.sender /\ k.chain.key = c.chain.key
           /\ IsDuplicate(k, counter)
           /\ \A n \in Nat : IsDuplicate(c, n) => IsDuplicate(k, n)
<1> DEFINE k == get_or_create_message_key(c, counter)
<1>1. /\ c \in ReceiverChain /\ c.chain \in ChainKey /\ c.chain.index \in Nat
      /\ c.message_keys \in SUBSET Nat
      /\ \A n \in c.message_keys : n < c.chain.index
  BY DEF GoodChain, ReceiverChain, ChainKey
<1>2. CASE c.chain.index > counter
  <2>1. k = [c EXCEPT !.message_keys = c.message_keys \ {counter}]
    BY <1>2 DEF get_or_create_message_key
  <2>2. /\ k.sender = c.sender /\ k.chain = c.chain
        /\ k.message_keys = c.message_keys \ {counter}
    BY <1>1, <2>1 DEF ReceiverChain
  <2> HIDE DEF k
  <2> QED
    BY <1>1, <1>2, <2>2 DEF IsDuplicate, k
<1>3. CASE ~(c.chain.index > counter)
  <2> DEFINE K == Newest(c.message_keys \cup (c.chain.index .. counter - 1),
                         MAX_MESSAGE_KEYS)
  <2>1. k = [c EXCEPT !.message_keys = K, !.chain.index = counter + 1]
    BY <1>3 DEF get_or_create_message_key
  <2>2. K \subseteq c.message_keys \cup (c.chain.index .. counter - 1)
    BY DEF Newest
  <2> HIDE DEF K, k
  <2>3. /\ k.sender = c.sender /\ k.chain.key = c.chain.key
        /\ k.chain.index = counter + 1 /\ k.message_keys = K
    BY <1>1, <2>1 DEF ReceiverChain, ChainKey
  <2>4. counter \notin K
    BY <1>1, <1>3, <2>2
  <2>5. ASSUME NEW n \in Nat, IsDuplicate(c, n) PROVE IsDuplicate(k, n)
    <3>1. n < c.chain.index /\ n \notin c.message_keys
      BY <1>1, <2>5 DEF IsDuplicate
    <3>2. n \notin K
      BY <1>1, <2>2, <3>1
    <3> QED
      BY <1>1, <1>3, <2>3, <3>1, <3>2 DEF IsDuplicate
  <2> QED
    BY <2>3, <2>4, <2>5 DEF IsDuplicate, k
<1> QED
  BY <1>2, <1>3

LEMMA AddChainEffect ==
    ASSUME NEW chains \in Seq(ReceiverChain), NEW sender, NEW key,
           NEW j \in DOMAIN add_receiver_chain(chains, sender, key)
    PROVE  \/ \E i \in DOMAIN chains : add_receiver_chain(chains, sender, key)[j] = chains[i]
           \/ add_receiver_chain(chains, sender, key)[j] =
                [sender |-> sender, chain |-> [key |-> key, index |-> 0], message_keys |-> {}]
<1> DEFINE c == [sender |-> sender, chain |-> [key |-> key, index |-> 0],
                 message_keys |-> {}]
<1>1. CASE Len(chains) + 1 > MAX_RECEIVER_CHAINS
  <2>1. chains # << >>
    BY <1>1, LimitsAssumption
  <2> DEFINE rest == Tail(chains)
  <2>2. /\ rest \in Seq(ReceiverChain)
        /\ \A i \in 1 .. Len(rest) : rest[i] = chains[i + 1] /\ i + 1 \in DOMAIN chains
    BY <2>1
  <2> HIDE DEF rest, c
  <2>3. add_receiver_chain(chains, sender, key) = Append(rest, c)
    BY <1>1 DEF add_receiver_chain, c, rest
  <2>4. j \in 1 .. Len(rest) + 1
    BY <2>2, <2>3
  <2>5. Append(rest, c)[j] = c \/ (j \in 1 .. Len(rest) /\ Append(rest, c)[j] = rest[j])
    BY <2>2, <2>4
  <2> QED
    BY <2>2, <2>3, <2>5 DEF c
<1>2. CASE ~(Len(chains) + 1 > MAX_RECEIVER_CHAINS)
  <2> HIDE DEF c
  <2>1. add_receiver_chain(chains, sender, key) = Append(chains, c)
    BY <1>2 DEF add_receiver_chain, c
  <2>2. j \in 1 .. Len(chains) + 1
    BY <2>1
  <2>3. Append(chains, c)[j] = c \/ (j \in 1 .. Len(chains) /\ Append(chains, c)[j] = chains[j])
    BY <2>2
  <2> QED
    BY <2>1, <2>3 DEF c
<1> QED
  BY <1>1, <1>2
(* What an accepted message does to the session that accepts it.           *)
LEMMA AcceptEffect ==
    ASSUME NEW s \in GoodSession, NEW m \in CiphertextMessage, NEW new \in Key,
           decrypt_message_with_state(s, m, new).outcome = "ok"
    PROVE  Accepts(s, m, new, decrypt_message_with_state(s, m, new).state)
<1> DEFINE t == get_or_create_chain_key(s, m.sender_ratchet, new)
           i == get_receiver_chain(t, m.sender_ratchet)
           c == t.receiver_chains[i]
           k == get_or_create_message_key(c, m.counter)
           x == [t EXCEPT !.receiver_chains[i] = k]
           u == clear_unacknowledged_pre_key_message(x)
           d == decrypt_message_with_state(s, m, new)
<1>1. m.sender_ratchet \in Key /\ m.counter \in Nat
  BY DEF CiphertextMessage
<1>2. s \in SessionStructure /\ s.receiver_chains \in Seq(ReceiverChain)
      /\ DistinctSenders(s.receiver_chains)
  BY DEF GoodSession, GoodChains, SessionStructure
<1>3. t \in GoodSession /\ HasReceiverChain(t, m.sender_ratchet)
  BY <1>1, ChainKeyType
<1>4. t = IF HasReceiverChain(s, m.sender_ratchet) THEN s
          ELSE LET receiving == create_chain(s.root_key, m.sender_ratchet, s.sender_ratchet)
                   sending   == create_chain(receiving, m.sender_ratchet, new)
               IN  [s EXCEPT
                      !.root_key = sending,
                      !.receiver_chains =
                          add_receiver_chain(s.receiver_chains, m.sender_ratchet, receiving),
                      !.sender_ratchet = new,
                      !.sender_chain = [key |-> sending, index |-> 0]]
  BY DEF get_or_create_chain_key
<1>5. d = IF IsDuplicate(c, m.counter)
            THEN [outcome |-> "dup", state |-> s]
          ELSE IF \/ IsTooFar(s, c, m.counter)
                  \/ ~pq_ratchet_recv(s.pq, m.pq)
                  \/ ~verify_mac(s, c, m)
            THEN [outcome |-> "err", state |-> s]
          ELSE [outcome |-> "ok", state |-> u]
  BY DEF decrypt_message_with_state
<1> HIDE DEF d, u
<1>6. /\ ~IsDuplicate(c, m.counter) /\ pq_ratchet_recv(s.pq, m.pq)
      /\ verify_mac(s, c, m) /\ d.state = u
  <2>1. d.outcome = "ok"
    BY DEF d
  <2> HIDE DEF c
  <2>2. CASE IsDuplicate(c, m.counter)
    <3>1. d.outcome = "dup"
      BY <1>5, <2>2
    <3> QED
      BY <2>1, <3>1
  <2>3. CASE /\ ~IsDuplicate(c, m.counter)
             /\ \/ IsTooFar(s, c, m.counter)
                \/ ~pq_ratchet_recv(s.pq, m.pq)
                \/ ~verify_mac(s, c, m)
    <3>1. d.outcome = "err"
      BY <1>5, <2>3
    <3> QED
      BY <2>1, <3>1
  <2> QED
    BY <1>5, <2>2, <2>3
<1> HIDE DEF t
<1>7. /\ i \in DOMAIN t.receiver_chains /\ c.sender = m.sender_ratchet
  BY <1>3 DEF HasReceiverChain, get_receiver_chain
<1> HIDE DEF i
<1>8. /\ t \in SessionStructure /\ t.receiver_chains \in Seq(GoodChain)
      /\ DistinctSenders(t.receiver_chains)
  BY <1>3 DEF GoodSession, GoodChains
<1>9. c \in GoodChain
  BY <1>7, <1>8
<1>10. /\ k.sender = c.sender /\ k.chain.key = c.chain.key
       /\ IsDuplicate(k, m.counter)
       /\ \A n \in Nat : IsDuplicate(c, n) => IsDuplicate(k, n)
  BY <1>1, <1>9, MessageKeyEffect
<1>11. c.chain.key = m.chain_key /\ m.sender_identity = s.remote_identity
       /\ m.receiver_identity = s.local_identity
  BY <1>6 DEF verify_mac
<1> HIDE DEF k, c
<1>12. /\ u.local_identity = t.local_identity /\ u.remote_identity = t.remote_identity
       /\ u.alice_base_key = t.alice_base_key /\ u.root_key = t.root_key
       /\ u.sender_ratchet = t.sender_ratchet /\ u.sender_chain = t.sender_chain
       /\ u.pq = t.pq /\ u.pending = None
       /\ u.receiver_chains = [t.receiver_chains EXCEPT ![i] = k]
  BY <1>8 DEF u, clear_unacknowledged_pre_key_message, SessionStructure
<1>13. \A j \in DOMAIN u.receiver_chains :
          /\ j \in DOMAIN t.receiver_chains
          /\ u.receiver_chains[j] = IF j = i THEN k ELSE t.receiver_chains[j]
  BY <1>7, <1>8, <1>12
<1> HIDE DEF x
<1>14. CASE HasReceiverChain(s, m.sender_ratchet)
  <2>1. t = s
    BY <1>4, <1>14
  <2>2. OnOldChain(s, m, u)
    BY <1>6, <1>7, <1>11, <1>12, <2>1 DEF OnOldChain, c
  <2>3. ASSUME NEW j \in DOMAIN u.receiver_chains
        PROVE  ChainAfter(s, m, u.receiver_chains[j])
    <3>1. CASE j = i
      <4>1. u.receiver_chains[j] = k
        BY <1>13, <3>1
      <4>2. \A a \in DOMAIN s.receiver_chains :
               s.receiver_chains[a].sender = m.sender_ratchet => a = i
        BY <1>2, <1>7, <2>1 DEF DistinctSenders, c
      <4> QED
        BY <1>7, <1>10, <1>11, <2>1, <4>1, <4>2 DEF ChainAfter, c
    <3>2. CASE j # i
      <4>1. u.receiver_chains[j] = s.receiver_chains[j] /\ j \in DOMAIN s.receiver_chains
        BY <1>13, <2>1, <3>2
      <4>2. s.receiver_chains[j].sender # m.sender_ratchet
        BY <1>2, <1>7, <2>1, <3>2, <4>1 DEF DistinctSenders, c
      <4> QED
        BY <4>1, <4>2 DEF ChainAfter
    <3> QED
      BY <3>1, <3>2
  <2> QED
    BY <1>6, <1>11, <1>12, <2>1, <2>2, <2>3 DEF Accepts, d
<1>15. CASE ~HasReceiverChain(s, m.sender_ratchet)
  <2> DEFINE receiving == create_chain(s.root_key, m.sender_ratchet, s.sender_ratchet)
             sending   == create_chain(receiving, m.sender_ratchet, new)
             added     == add_receiver_chain(s.receiver_chains, m.sender_ratchet, receiving)
             fresh_chain == [sender |-> m.sender_ratchet,
                             chain |-> [key |-> receiving, index |-> 0],
                             message_keys |-> {}]
  <2>1. t = [s EXCEPT !.root_key = sending, !.receiver_chains = added,
                      !.sender_ratchet = new,
                      !.sender_chain = [key |-> sending, index |-> 0]]
    BY <1>4, <1>15
  <2>2. \A j \in DOMAIN added : \/ \E a \in DOMAIN s.receiver_chains :
                                      added[j] = s.receiver_chains[a]
                                \/ added[j] = fresh_chain
    <3>1. PICK chains, from, key : /\ chains = s.receiver_chains
                                   /\ from = m.sender_ratchet /\ key = receiving
      OBVIOUS
    <3>2. chains \in Seq(ReceiverChain)
      BY Zenon, <1>2, <3>1
    <3>3. \A j \in DOMAIN add_receiver_chain(chains, from, key) :
             \/ \E a \in DOMAIN chains : add_receiver_chain(chains, from, key)[j] = chains[a]
             \/ add_receiver_chain(chains, from, key)[j] =
                  [sender |-> from, chain |-> [key |-> key, index |-> 0], message_keys |-> {}]
      BY Zenon, <3>2, AddChainEffect
    <3> HIDE DEF receiving
    <3> QED
      BY Zenon, <3>1, <3>3
  <2> HIDE DEF added, sending, receiving
  <2>3. /\ t.local_identity = s.local_identity /\ t.remote_identity = s.remote_identity
        /\ t.alice_base_key = s.alice_base_key /\ t.pq = s.pq
        /\ t.root_key = sending /\ t.sender_ratchet = new
        /\ t.sender_chain = [key |-> sending, index |-> 0] /\ t.receiver_chains = added
    BY <1>2, <2>1 DEF SessionStructure
  <2>4. \A a \in DOMAIN s.receiver_chains : s.receiver_chains[a].sender # m.sender_ratchet
    BY <1>15 DEF HasReceiverChain
  <2>5. c = fresh_chain
    <3>1. c = added[i] /\ i \in DOMAIN added
      BY <1>7, <2>3 DEF c
    <3>2. \A a \in DOMAIN s.receiver_chains : c # s.receiver_chains[a]
      BY <1>7, <2>4
    <3> QED
      BY <2>2, <3>1, <3>2
  <2>6. m.chain_key = receiving
    BY <1>11, <2>5
  <2>7. OnNewChain(s, m, new, u)
    BY <1>12, <2>3, <2>6 DEF OnNewChain, sending, receiving
  <2>8. ASSUME NEW j \in DOMAIN u.receiver_chains
        PROVE  ChainAfter(s, m, u.receiver_chains[j])
    <3>1. CASE j = i
      <4>1. u.receiver_chains[j] = k
        BY <1>13, <3>1
      <4> QED
        BY <1>7, <1>10, <1>11, <2>4, <4>1 DEF ChainAfter
    <3>2. CASE j # i
      <4>1. u.receiver_chains[j] = added[j] /\ j \in DOMAIN added
        BY <1>13, <2>3, <3>2
      <4>2. added[j] # fresh_chain
        <5>1. added[j].sender # added[i].sender
          BY <1>7, <1>8, <2>3, <3>2, <4>1 DEF DistinctSenders
        <5>2. added[i].sender = fresh_chain.sender
          BY <1>7, <2>3 DEF c
        <5> HIDE DEF fresh_chain
        <5> QED
          BY <5>1, <5>2
      <4>3. PICK a \in DOMAIN s.receiver_chains : added[j] = s.receiver_chains[a]
        BY <2>2, <4>1, <4>2
      <4> QED
        BY <2>4, <4>1, <4>3 DEF ChainAfter
    <3> QED
      BY <3>1, <3>2
  <2> QED
    BY <1>6, <1>11, <1>12, <2>3, <2>7, <2>8 DEF Accepts, d
<1> QED
  BY <1>14, <1>15
-----------------------------------------------------------------------------
(* Records.                                                                *)

(* No two sessions of a record have the same base key.                     *)
UniqueBase(r) ==
    \A i, j \in Places(r) :
        SessionAt(r, i).alice_base_key = SessionAt(r, j).alice_base_key => i = j

(* Session s of record r, for a place in it.                               *)
Holds(r, s) == \E k \in Places(r) : SameSession(s, SessionAt(r, k))

(* Record n has u as its current session; the others are sessions of r for *)
(* other base keys.                                                        *)
Replaces(r, u, n) ==
    /\ n.current = u
    /\ UniqueBase(n)
    /\ \A j \in DOMAIN n.previous :
          Holds(r, n.previous[j]) /\ n.previous[j].alice_base_key # u.alice_base_key

LEMMA PlacesOf ==
    ASSUME NEW r \in GoodRecord
    PROVE  /\ Places(r) \in SUBSET Nat
           /\ \A k \in DOMAIN r.previous :
                 k \in Places(r) /\ k \in Nat \ {0} /\ SessionAt(r, k) = r.previous[k]
           /\ \A k \in Places(r) : k # 0 =>
                 k \in DOMAIN r.previous /\ SessionAt(r, k) = r.previous[k]
           /\ 0 \in Places(r) <=> r.current # None
           /\ SessionAt(r, 0) = r.current
           /\ \A k \in Places(r) : SessionAt(r, k) \in GoodSession
<1>1. r.previous \in Seq(GoodSession) /\ Len(r.previous) \in Nat
  BY DEF GoodRecord
<1>2. \A k \in Places(r) : SessionAt(r, k) \in GoodSession
  BY SessionAtType DEF Places
<1> QED
  BY <1>1, <1>2 DEF Places, SessionAt

(* A record is determined to have distinct base keys by its archive and    *)
(* its current session.                                                    *)
LEMMA UniqueBaseOf ==
    ASSUME NEW n \in GoodRecord,
           \A i, j \in DOMAIN n.previous :
               n.previous[i].alice_base_key = n.previous[j].alice_base_key => i = j,
           n.current # None => \A i \in DOMAIN n.previous :
               n.previous[i].alice_base_key # n.current.alice_base_key
    PROVE  UniqueBase(n)
<1> SUFFICES ASSUME NEW i \in Places(n), NEW j \in Places(n),
                    SessionAt(n, i).alice_base_key = SessionAt(n, j).alice_base_key
             PROVE  i = j
  BY DEF UniqueBase
<1>1. CASE i = 0 /\ j = 0
  BY <1>1
<1>2. CASE i = 0 /\ j # 0
  BY <1>2, PlacesOf
<1>3. CASE i # 0 /\ j = 0
  BY <1>3, PlacesOf
<1>4. CASE i # 0 /\ j # 0
  BY <1>4, PlacesOf
<1> QED
  BY <1>1, <1>2, <1>3, <1>4

LEMMA ArchiveEffect ==
    ASSUME NEW r \in GoodRecord, UniqueBase(r)
    PROVE  LET a == archive_current_state(r) IN
           /\ a.current = None
           /\ UniqueBase(a)
           /\ \A j \in DOMAIN a.previous : Holds(r, a.previous[j])
<1> DEFINE a    == archive_current_state(r)
           h    == r.previous
           n    == IF Len(h) >= ARCHIVED_STATES_MAX_LENGTH THEN Len(h) - 1 ELSE Len(h)
           kept == SubSeq(h, 1, n)
           head == << clear_unacknowledged_pre_key_message(r.current) >>
<1>1. /\ h \in Seq(GoodSession) /\ Len(h) \in Nat
      /\ Len(h) <= ARCHIVED_STATES_MAX_LENGTH
      /\ r.current \in GoodSession \cup {None}
  BY DEF GoodRecord
<1>2. CASE r.current = None
  <2>1. a = r
    BY <1>2 DEF archive_current_state
  <2>2. \A j \in DOMAIN r.previous : Holds(r, r.previous[j])
    BY PlacesOf, SameSessionRefl DEF Holds
  <2> QED
    BY <1>2, <2>1, <2>2
<1>3. CASE r.current # None
  <2> DEFINE c == clear_unacknowledged_pre_key_message(r.current)
  <2>1. c \in GoodSession /\ SameSession(c, r.current)
    BY <1>1, <1>3, ClearType, ClearEffect
  <2>2. n \in Nat /\ n <= Len(h)
    BY <1>1, LimitsAssumption
  <2>3. a = [current |-> None, previous |-> << c >> \o kept]
    BY <1>3 DEF archive_current_state
  <2> HIDE DEF n, c, a
  <2>4. kept \in Seq(GoodSession) /\ Len(kept) = n /\ \A j \in 1 .. n : kept[j] = h[j]
    <3>1. kept \in Seq(GoodSession) /\ Len(kept) = n
      BY <1>1, <2>2, SubSeqType
    <3> QED
      BY <1>1, <2>2, <3>1
  <2> HIDE DEF kept
  <2>5. /\ a.previous = << c >> \o kept /\ a.current = None
        /\ DOMAIN a.previous = 1 .. n + 1
        /\ a.previous[1] = c
        /\ \A j \in 2 .. n + 1 : a.previous[j] = h[j - 1] /\ j - 1 \in DOMAIN h
    <3>1. a.previous = << c >> \o kept /\ a.current = None
      BY <2>3
    <3>2. << c >> \in Seq(GoodSession) /\ Len(<< c >>) = 1 /\ << c >>[1] = c
      BY <2>1
    <3>3. /\ << c >> \o kept \in Seq(GoodSession) /\ Len(<< c >> \o kept) = 1 + n
          /\ \A j \in 1 .. 1 + n : (<< c >> \o kept)[j] =
                IF j <= 1 THEN << c >>[j] ELSE kept[j - 1]
      BY <2>2, <2>4, <3>2, ConcatProperties
    <3>4. DOMAIN (<< c >> \o kept) = 1 .. n + 1
      BY <2>2, <3>3
    <3>5. \A j \in 2 .. n + 1 : j - 1 \in 1 .. n /\ j - 1 \in DOMAIN h /\ j \in 1 .. 1 + n
      BY <1>1, <2>2
    <3>6. (<< c >> \o kept)[1] = c
      BY <2>2, <3>2, <3>3
    <3> QED
      BY <2>2, <2>4, <3>1, <3>3, <3>4, <3>5, <3>6
  <2>6. \A j \in DOMAIN a.previous : Holds(r, a.previous[j])
    <3>1. Holds(r, c)
      BY <1>3, <2>1, PlacesOf DEF Holds
    <3>2. \A j \in DOMAIN h : Holds(r, h[j])
      BY PlacesOf, SameSessionRefl DEF Holds
    <3> QED
      BY <2>2, <2>5, <3>1, <3>2
  <2>7. UniqueBase(a)
    <3>1. a \in GoodRecord
      BY ArchiveType DEF a
    <3>2. \A j \in DOMAIN h : h[j].alice_base_key # c.alice_base_key
      <4>1. SessionAt(r, 0) = r.current /\ 0 \in Places(r)
        BY <1>3, PlacesOf
      <4> QED
        BY <2>1, <4>1, PlacesOf DEF UniqueBase, SameSession
    <3>3. \A i, j \in DOMAIN h : h[i].alice_base_key = h[j].alice_base_key => i = j
      BY PlacesOf DEF UniqueBase
    <3>4. ASSUME NEW i \in DOMAIN a.previous, NEW j \in DOMAIN a.previous,
                 a.previous[i].alice_base_key = a.previous[j].alice_base_key
          PROVE  i = j
      <4>1. CASE i = 1 /\ j = 1
        BY <4>1
      <4>2. CASE i = 1 /\ j # 1
        BY <2>2, <2>5, <3>2, <3>4, <4>2
      <4>3. CASE i # 1 /\ j = 1
        BY <2>2, <2>5, <3>2, <3>4, <4>3
      <4>4. CASE i # 1 /\ j # 1
        <5>1. i \in 2 .. n + 1 /\ j \in 2 .. n + 1
          BY <2>2, <2>5, <4>4
        <5>2. PICK x, y : x = i - 1 /\ y = j - 1
          OBVIOUS
        <5>3. /\ a.previous[i] = h[x] /\ x \in DOMAIN h
              /\ a.previous[j] = h[y] /\ y \in DOMAIN h
          BY Zenon, <2>5, <5>1, <5>2
        <5>4. x = y
          BY Zenon, <3>3, <3>4, <5>3
        <5> QED
          BY <5>1, <5>2, <5>4
      <4> QED
        BY <4>1, <4>2, <4>3, <4>4
    <3> QED
      BY <2>5, <3>1, <3>4, UniqueBaseOf
  <2> QED
    BY <2>5, <2>6, <2>7 DEF a
<1> QED
  BY <1>2, <1>3
LEMMA PromoteEffect ==
    ASSUME NEW r \in GoodRecord, UniqueBase(r), NEW s \in GoodSession,
           \A k \in Places(r) : SessionAt(r, k).alice_base_key # s.alice_base_key
    PROVE  Replaces(r, s, promote_state(r, s))
<1> DEFINE a == archive_current_state(r)
           n == promote_state(r, s)
<1>1. a \in GoodRecord /\ UniqueBase(a) /\ \A j \in DOMAIN a.previous : Holds(r, a.previous[j])
  BY ArchiveType, ArchiveEffect
<1>2. n \in GoodRecord /\ n.current = s
  BY PromoteType
<1>3. n.previous = a.previous
  <2>1. n = [a EXCEPT !.current = s]
    BY DEF promote_state
  <2> QED
    BY <1>1, <2>1 DEF GoodRecord
<1> HIDE DEF a, n
<1>4. \A j \in DOMAIN a.previous : a.previous[j].alice_base_key # s.alice_base_key
  BY <1>1 DEF Holds, SameSession
<1>5. \A i, j \in DOMAIN a.previous :
         a.previous[i].alice_base_key = a.previous[j].alice_base_key => i = j
  BY <1>1, PlacesOf DEF UniqueBase
<1>6. UniqueBase(n)
  BY <1>2, <1>3, <1>4, <1>5, UniqueBaseOf
<1> QED
  BY <1>1, <1>2, <1>3, <1>4, <1>6 DEF Replaces, n

(* Taking a session out of the archive.                                    *)
LEMMA RemoveEffect ==
    ASSUME NEW r \in GoodRecord, UniqueBase(r), NEW i \in DOMAIN r.previous
    PROVE  LET h == r.previous
               u == [r EXCEPT !.previous = SubSeq(h, 1, i - 1) \o SubSeq(h, i + 1, Len(h))]
           IN  /\ u \in GoodRecord /\ UniqueBase(u)
               /\ \A k \in Places(u) :
                     /\ \E j \in Places(r) : SessionAt(u, k) = SessionAt(r, j)
                     /\ SessionAt(u, k).alice_base_key # h[i].alice_base_key
<1> DEFINE h == r.previous
           before == SubSeq(h, 1, i - 1)
           after  == SubSeq(h, i + 1, Len(h))
           cut    == before \o after
           u      == [r EXCEPT !.previous = cut]
<1>1. /\ h \in Seq(GoodSession) /\ Len(h) \in Nat
      /\ Len(h) <= ARCHIVED_STATES_MAX_LENGTH
      /\ i \in 1 .. Len(h)
  BY DEF GoodRecord
<1>2. before \in Seq(GoodSession) /\ Len(before) = i - 1
  BY <1>1, SubSeqType
<1>3. after \in Seq(GoodSession) /\ Len(after) = Len(h) - i
  BY <1>1, SubSeqType
<1>4. /\ \A j \in 1 .. i - 1 : before[j] = h[j]
      /\ \A j \in 1 .. Len(h) - i : after[j] = h[i + j]
  <2> DEFINE n == Len(h)
             a == i + 1
             b == i - 1
  <2>1. n \in Nat /\ a \in Nat \ {0} /\ b \in Nat
    BY <1>1
  <2>2. ASSUME NEW j \in 1 .. b PROVE SubSeq(h, 1, b)[j] = h[j]
    <3> HIDE DEF b
    <3> QED
      BY <1>1, <2>1
  <2>3. ASSUME NEW j \in 1 .. n - i PROVE SubSeq(h, a, n)[j] = h[i + j]
    <3>1. j \in 1 .. n - a + 1 /\ a + j - 1 = i + j /\ j \in Nat
      <4>1. i \in Nat /\ a = i + 1
        BY <1>1
      <4> HIDE DEF a, n
      <4> QED
        BY <2>1, <4>1
    <3>2. SubSeq(h, a, n)[j] = h[a + j - 1]
      <4> HIDE DEF a
      <4> QED
        BY <1>1, <2>1, <3>1
    <3> QED
      BY <3>1, <3>2
  <2> QED
    BY <2>2, <2>3
<1> HIDE DEF before, after
<1>5. /\ cut \in Seq(GoodSession)
      /\ Len(cut) = Len(before) + Len(after)
      /\ \A j \in 1 .. Len(before) + Len(after) : cut[j] =
            IF j <= Len(before) THEN before[j] ELSE after[j - Len(before)]
  BY <1>2, <1>3, ConcatProperties
<1> HIDE DEF cut
<1>6. \A j \in DOMAIN cut : LET x == IF j < i THEN j ELSE j + 1 IN
         x \in DOMAIN h /\ x # i /\ cut[j] = h[x]
  <2>0. Len(cut) = Len(h) - 1 /\ DOMAIN cut = 1 .. Len(h) - 1
    BY <1>1, <1>2, <1>3, <1>5
  <2> SUFFICES ASSUME NEW j \in 1 .. Len(h) - 1
               PROVE  LET x == IF j < i THEN j ELSE j + 1 IN
                      x \in DOMAIN h /\ x # i /\ cut[j] = h[x]
    BY <2>0
  <2>1. CASE j < i
    <3>1. j \in 1 .. i - 1 /\ j \in 1 .. Len(h)
      BY <1>1, <2>1
    <3>2. j \in 1 .. Len(before) + Len(after) /\ j <= Len(before)
      BY <1>1, <1>2, <1>3, <2>1
    <3>3. cut[j] = before[j]
      BY <1>5, <3>2
    <3>4. j \in DOMAIN h
      BY <1>1, <3>1
    <3> QED
      BY <1>4, <2>1, <3>1, <3>3, <3>4
  <2>2. CASE ~(j < i)
    <3>1. j - (i - 1) \in 1 .. Len(h) - i /\ i + (j - (i - 1)) = j + 1
      BY <1>1, <2>2
    <3>2. cut[j] = after[j - Len(before)]
      <4>1. j \in 1 .. Len(before) + Len(after) /\ ~(j <= Len(before))
        BY <1>1, <1>2, <1>3, <2>2
      <4> QED
        BY <1>5, <4>1
    <3>3. cut[j] = h[j + 1]
      BY <1>2, <1>4, <3>1, <3>2
    <3>4. j + 1 \in DOMAIN h /\ j + 1 # i
      BY <1>1, <2>2
    <3> QED
      BY <2>2, <3>3, <3>4
  <2> QED
    BY <2>1, <2>2
<1>7. u \in GoodRecord /\ u.previous = cut /\ u.current = r.current
  <2>1. Len(cut) <= ARCHIVED_STATES_MAX_LENGTH
    BY <1>1, <1>2, <1>3, <1>5, LimitsAssumption
  <2> QED
    BY <1>5, <2>1 DEF GoodRecord
<1> HIDE DEF u
<1>8. \A a, b \in DOMAIN h : h[a].alice_base_key = h[b].alice_base_key => a = b
  BY PlacesOf DEF UniqueBase
<1>9. r.current # None => \A a \in DOMAIN h : h[a].alice_base_key # r.current.alice_base_key
  <2> SUFFICES ASSUME r.current # None, NEW a \in DOMAIN h,
                      h[a].alice_base_key = r.current.alice_base_key
               PROVE  FALSE
    OBVIOUS
  <2>1. 0 \in Places(r) /\ SessionAt(r, 0) = r.current
    BY PlacesOf
  <2>2. a \in Places(r) /\ SessionAt(r, a) = h[a] /\ a # 0
    BY PlacesOf
  <2> QED
    BY <2>1, <2>2 DEF UniqueBase
<1>10. UniqueBase(u)
  <2>1. ASSUME NEW a \in DOMAIN cut, NEW b \in DOMAIN cut,
               cut[a].alice_base_key = cut[b].alice_base_key
        PROVE  a = b
    <3>1. (IF a < i THEN a ELSE a + 1) = (IF b < i THEN b ELSE b + 1)
      BY <1>6, <1>8, <2>1
    <3>2. a \in Nat /\ b \in Nat /\ i \in Nat
      BY <1>1, <1>5
    <3> QED
      BY <3>1, <3>2
  <2> QED
    BY <1>6, <1>7, <1>9, <2>1, UniqueBaseOf
<1>11. ASSUME NEW k \in Places(u)
       PROVE  /\ \E j \in Places(r) : SessionAt(u, k) = SessionAt(r, j)
              /\ SessionAt(u, k).alice_base_key # h[i].alice_base_key
  <2>1. CASE k = 0
    <3>1. SessionAt(u, k) = r.current /\ r.current # None
      BY <1>7, <2>1, PlacesOf
    <3>2. 0 \in Places(r) /\ SessionAt(r, 0) = r.current
      BY <3>1, PlacesOf
    <3> QED
      BY <1>9, <3>1, <3>2
  <2>2. CASE k # 0
    <3>1. k \in DOMAIN cut /\ SessionAt(u, k) = cut[k]
      BY <1>7, <2>2, PlacesOf
    <3>2. PICK x \in DOMAIN h : x # i /\ cut[k] = h[x]
      BY <1>6, <3>1
    <3> QED
      BY <1>8, <3>1, <3>2, PlacesOf
  <2> QED
    BY <2>1, <2>2
<1> QED
  BY <1>7, <1>10, <1>11 DEF u, cut, before, after

LEMMA PromoteOldEffect ==
    ASSUME NEW r \in GoodRecord, UniqueBase(r), NEW i \in DOMAIN r.previous,
           NEW s \in GoodSession, s.alice_base_key = r.previous[i].alice_base_key
    PROVE  Replaces(r, s, promote_old_session(r, i, s))
<1> DEFINE h == r.previous
           u == [r EXCEPT !.previous = SubSeq(h, 1, i - 1) \o SubSeq(h, i + 1, Len(h))]
<1>1. /\ u \in GoodRecord /\ UniqueBase(u)
      /\ \A k \in Places(u) :
            /\ \E j \in Places(r) : SessionAt(u, k) = SessionAt(r, j)
            /\ SessionAt(u, k).alice_base_key # s.alice_base_key
  <2>1. /\ u \in GoodRecord /\ UniqueBase(u)
        /\ \A k \in Places(u) :
              /\ \E j \in Places(r) : SessionAt(u, k) = SessionAt(r, j)
              /\ SessionAt(u, k).alice_base_key # h[i].alice_base_key
    BY RemoveEffect
  <2> HIDE DEF u
  <2> QED
    BY <2>1
<1>2. promote_old_session(r, i, s) = promote_state(u, s)
  BY DEF promote_old_session
<1> HIDE DEF u
<1>3. Replaces(u, s, promote_state(u, s))
  BY <1>1, PromoteEffect
<1>4. \A x : Holds(u, x) => Holds(r, x)
  BY <1>1 DEF Holds
<1> QED
  BY <1>2, <1>3, <1>4 DEF Replaces

LEMMA PromoteMatchingEffect ==
    ASSUME NEW r \in GoodRecord, UniqueBase(r), NEW base, MatchingSessions(r, base) # {}
    PROVE  LET n == promote_matching_session(r, base) IN
           /\ Replaces(r, n.current, n)
           /\ n.current.alice_base_key = base
           /\ \E k \in Places(r) : n.current = SessionAt(r, k)
<1> DEFINE i == First(MatchingSessions(r, base))
           n == promote_matching_session(r, base)
<1>1. r.previous \in Seq(GoodSession) /\ r.current \in GoodSession \cup {None}
  BY DEF GoodRecord
<1>2. MatchingSessions(r, base) \in SUBSET (0 .. Len(r.previous))
  BY DEF MatchingSessions
<1>3. MatchingSessions(r, base) \in SUBSET Nat
  BY <1>2
<1>4. i \in MatchingSessions(r, base)
  BY <1>3, FirstIsLeast
<1>5. /\ i \in 0 .. Len(r.previous)
      /\ i = 0 => r.current # None /\ r.current.alice_base_key = base
      /\ i # 0 => r.previous[i].alice_base_key = base
  BY <1>4 DEF MatchingSessions
<1>6. n = IF i = 0 THEN r ELSE promote_old_session(r, i, r.previous[i])
  BY DEF promote_matching_session
<1> HIDE DEF i, n
<1>7. CASE i = 0
  <2>1. n = r /\ r.current.alice_base_key = base
    BY <1>5, <1>6, <1>7
  <2>2. 0 \in Places(r) /\ SessionAt(r, 0) = r.current
    BY <1>5, <1>7, PlacesOf
  <2>3. ASSUME NEW j \in DOMAIN r.previous
        PROVE  Holds(r, r.previous[j]) /\ r.previous[j].alice_base_key # r.current.alice_base_key
    <3>1. j \in Places(r) /\ SessionAt(r, j) = r.previous[j] /\ j # 0
      BY PlacesOf
    <3> QED
      BY <2>2, <3>1, SameSessionRefl DEF Holds, UniqueBase
  <2> QED
    BY <2>1, <2>2, <2>3 DEF Replaces, n
<1>8. CASE i # 0
  <2>1. i \in DOMAIN r.previous /\ r.previous[i].alice_base_key = base
    BY <1>1, <1>5, <1>8
  <2>2. r.previous[i] \in GoodSession /\ i \in Places(r) /\ SessionAt(r, i) = r.previous[i]
    BY <1>1, <2>1, PlacesOf
  <2>3. Replaces(r, r.previous[i], n)
    BY <1>6, <1>8, <2>1, <2>2, PromoteOldEffect
  <2>4. n.current = r.previous[i]
    BY <2>3 DEF Replaces
  <2> QED
    BY <2>1, <2>2, <2>3, <2>4 DEF n
<1> QED
  BY <1>7, <1>8

(* A record that accepts a message: the session that accepted it is now    *)
(* the current one.                                                        *)
LEMMA DecryptRecordEffect ==
    ASSUME NEW r \in GoodRecord, UniqueBase(r), NEW m \in CiphertextMessage,
           NEW new \in Key, NEW places \in SUBSET Places(r),
           decrypt_message_with_record(r, m, new, places).outcome = "ok"
    PROVE  LET n == decrypt_message_with_record(r, m, new, places).record IN
           /\ n.current \in GoodSession
           /\ Replaces(r, n.current, n)
           /\ \E k \in places : Accepts(SessionAt(r, k), m, new, n.current)
<1> DEFINE at(i) == decrypt_message_with_state(SessionAt(r, i), m, new)
           stop  == {i \in places : at(i).outcome # "err"}
           i     == First(stop)
           d     == decrypt_message_with_record(r, m, new, places)
<1>1. r.previous \in Seq(GoodSession) /\ r.current \in GoodSession \cup {None}
  BY DEF GoodRecord
<1>2. \A j \in places : SessionAt(r, j) \in GoodSession
  BY PlacesOf
<1>3. d = IF stop = {} \/ at(i).outcome # "ok"
            THEN [outcome |-> IF stop = {} THEN "err" ELSE "dup", record |-> r]
            ELSE [outcome |-> "ok",
                  record  |-> IF i = 0
                                THEN [r EXCEPT !.current = at(i).state]
                                ELSE promote_old_session(r, i, at(i).state)]
  BY DEF decrypt_message_with_record
<1>4. d.outcome = "ok"
  OBVIOUS
<1>5. \A j \in places : at(j).state \in GoodSession
                        /\ (at(j).outcome = "ok" => Accepts(SessionAt(r, j), m, new, at(j).state))
  BY <1>2, DecryptStateType, AcceptEffect
<1> HIDE DEF at, d
<1>6. /\ stop # {} /\ at(i).outcome = "ok"
      /\ d.record = IF i = 0 THEN [r EXCEPT !.current = at(i).state]
                             ELSE promote_old_session(r, i, at(i).state)
  <2> HIDE DEF stop, i
  <2>1. ~(stop = {} \/ at(i).outcome # "ok")
    <3> SUFFICES ASSUME stop = {} \/ at(i).outcome # "ok" PROVE FALSE
      OBVIOUS
    <3>1. d.outcome \in {"err", "dup"}
      BY <1>3
    <3> QED
      BY <1>4, <3>1
  <2> QED
    BY <1>3, <2>1
<1>7. i \in places /\ i \in Places(r)
  <2>1. stop \in SUBSET places
    OBVIOUS
  <2>2. places \in SUBSET Nat
    BY PlacesOf
  <2> HIDE DEF stop
  <2>3. stop \in SUBSET Nat
    BY <2>1, <2>2
  <2>4. i \in stop
    BY <1>6, <2>3, FirstIsLeast
  <2> QED
    BY <2>1, <2>4
<1> HIDE DEF stop, i
<1> DEFINE u == at(i).state
<1>8. u \in GoodSession /\ Accepts(SessionAt(r, i), m, new, u)
  BY <1>5, <1>6, <1>7
<1>9. u.alice_base_key = SessionAt(r, i).alice_base_key
  BY <1>8 DEF Accepts
<1> HIDE DEF u
<1>10. d.record.current = u /\ Replaces(r, u, d.record)
  <2>1. CASE i = 0
    <3>1. d.record = [r EXCEPT !.current = u]
      BY <1>6, <2>1 DEF u
    <3>2. d.record \in GoodRecord /\ d.record.current = u /\ d.record.previous = r.previous
      BY <1>8, <3>1 DEF GoodRecord
    <3>3. 0 \in Places(r) /\ SessionAt(r, 0) = r.current /\ r.current.alice_base_key = u.alice_base_key
      BY <1>7, <1>9, <2>1, PlacesOf
    <3>4. ASSUME NEW j \in DOMAIN r.previous
          PROVE  Holds(r, r.previous[j]) /\ r.previous[j].alice_base_key # u.alice_base_key
      <4>1. j \in Places(r) /\ SessionAt(r, j) = r.previous[j] /\ j # 0
        BY PlacesOf
      <4> QED
        BY <3>3, <4>1, SameSessionRefl DEF Holds, UniqueBase
    <3>5. \A a, b \in DOMAIN r.previous :
             r.previous[a].alice_base_key = r.previous[b].alice_base_key => a = b
      BY PlacesOf DEF UniqueBase
    <3>6. UniqueBase(d.record)
      BY <3>2, <3>4, <3>5, UniqueBaseOf
    <3> QED
      BY <3>2, <3>4, <3>6 DEF Replaces
  <2>2. CASE i # 0
    <3>1. i \in DOMAIN r.previous /\ SessionAt(r, i) = r.previous[i]
      BY <1>7, <2>2, PlacesOf
    <3>2. d.record = promote_old_session(r, i, u)
      BY <1>6, <2>2 DEF u
    <3>3. Replaces(r, u, d.record)
      BY <1>8, <1>9, <3>1, <3>2, PromoteOldEffect
    <3> QED
      BY <3>3 DEF Replaces
  <2> QED
    BY <2>1, <2>2
<1> QED
  BY <1>7, <1>8, <1>10 DEF d
LEMMA ReplacesTrans ==
    ASSUME NEW r, NEW s, NEW n \in GoodRecord, NEW u, NEW z,
           Replaces(r, s, n), Replaces(n, u, z), s.alice_base_key = u.alice_base_key
    PROVE  Replaces(r, u, z)
<1> SUFFICES ASSUME NEW j \in DOMAIN z.previous
             PROVE  Holds(r, z.previous[j])
  BY DEF Replaces
<1>1. PICK k \in Places(n) : SameSession(z.previous[j], SessionAt(n, k))
  BY DEF Replaces, Holds
<1>2. z.previous[j].alice_base_key # u.alice_base_key
  BY DEF Replaces
<1>3. k # 0
  <2> SUFFICES ASSUME k = 0 PROVE FALSE
    OBVIOUS
  <2>1. SessionAt(n, k) = s
    BY PlacesOf DEF Replaces
  <2> QED
    BY <1>1, <1>2, <2>1 DEF SameSession
<1>4. k \in DOMAIN n.previous /\ SessionAt(n, k) = n.previous[k]
  BY <1>3, PlacesOf
<1>5. PICK i \in Places(r) : SameSession(n.previous[k], SessionAt(r, i))
  BY <1>4 DEF Replaces, Holds
<1>6. SameSession(z.previous[j], SessionAt(r, i))
  BY <1>1, <1>4, <1>5, SameSessionTrans
<1> QED
  BY <1>6 DEF Holds

-----------------------------------------------------------------------------
(* The sessions of all devices after a step, for rigid x and y.            *)

(* The step makes u the current session of p for q, in the place of what   *)
(* was there for u's base key; of the others it may drop some.             *)
KeepsOthers(p, q, u) ==
    \A x, y \in Party : \A s \in AllSessions(x, y)' :
        \/ x = p /\ y = q /\ s = u
        \/ \E t \in AllSessions(x, y) :
              SameSession(s, t) /\ ((x = p /\ y = q) => t.alice_base_key # u.alice_base_key)

CurrentAfter(p, q, u) ==
    \A x, y \in Party : HasCurrentSession(x, y)' =>
        \/ x = p /\ y = q /\ sessions'[x][y].current = u
        \/ /\ HasCurrentSession(x, y)
           /\ sessions'[x][y].current = sessions[x][y].current

KeepsAll ==
    \A x, y \in Party : \A s \in AllSessions(x, y)' :
        \E t \in AllSessions(x, y) : SameSession(s, t)

CurrentKept ==
    \A x, y \in Party : HasCurrentSession(x, y)' =>
        /\ HasCurrentSession(x, y)
        /\ sessions'[x][y].current = sessions[x][y].current

(* The session that process_prekey_bundle starts.                          *)
StartedSession(p, b) ==
    set_unacknowledged_pre_key_message(
        initialize_alice_session(identity[p], NewKey(p, 0), NewKey(p, 1), b),
        b.pre_key_id, encapsulate(b.kyber, NewKey(p, 0)), now)

Started(p, q, b) ==
    /\ KeepsOthers(p, q, StartedSession(p, b))
    /\ CurrentAfter(p, q, StartedSession(p, b))
    /\ fresh' = [fresh EXCEPT ![p] = @ + 2]
    /\ UNCHANGED << identity, signed, kyber, pre_keys, base_keys_seen, published,
                    net, delivered, replayed >>

(* A session after a message was sent on it.                               *)
Moved(s) == [s EXCEPT !.sender_chain = [s.sender_chain EXCEPT !.index = s.sender_chain.index + 1]]

Sent(p, q) ==
    /\ HasCurrentSession(p, q)
    /\ KeepsOthers(p, q, Moved(sessions[p][q].current))
    /\ CurrentAfter(p, q, Moved(sessions[p][q].current))
    /\ net' = net \cup {Ciphertext(p, q, sessions[p][q].current)}
    /\ UNCHANGED << identity, signed, kyber, pre_keys, base_keys_seen, published,
                    fresh, delivered, replayed >>

(* Session s of the receiver accepts m and becomes u.                      *)
Received(m, s, u) ==
    /\ Accepts(s, m, NewKey(m.to, 0), u)
    /\ KeepsOthers(m.to, m.from, u)
    /\ CurrentAfter(m.to, m.from, u)
    /\ fresh' = [fresh EXCEPT ![m.to] = @ + 1]
    /\ Deliver(m)
    /\ UNCHANGED << identity, signed, kyber, published, net >>

ReceivedOnOld(m, s, u) ==
    /\ Received(m, s, u)
    /\ s \in AllSessions(m.to, m.from)
    /\ m.pre # None => s.alice_base_key = m.pre.base_key
    /\ UNCHANGED << pre_keys, base_keys_seen >>

(* The session that process_prekey creates.                                *)
CreatedSession(m) ==
    initialize_bob_session(identity[m.to], signed[m.to], kyber[m.to],
                           GetPreKey(m.to, m), m.pre)

ReceivedOnNew(m, u) ==
    /\ m.pre # None
    /\ Received(m, CreatedSession(m), u)
    /\ \A t \in AllSessions(m.to, m.from) : t.alice_base_key # m.pre.base_key
    /\ CanGetPreKey(m.to, m)
    /\ CanMarkKyberPreKey(m.to, m)
    /\ base_keys_seen' = mark_kyber_pre_key_used(m.to, m)
    /\ pre_keys' = remove_pre_key(m.to, m)

Quiet ==
    /\ KeepsAll /\ CurrentKept
    /\ \A p \in Party : base_keys_seen[p] \subseteq base_keys_seen'[p]
    /\ \A p \in Party, id \in PreKeyId : pre_keys[p][id] = None => pre_keys'[p][id] = None
    /\ UNCHANGED << identity, signed, kyber, published, fresh, net, delivered, replayed >>

Step ==
    \/ \E p, q \in Party : p # q /\ \E b \in ServedBundles(q) : Started(p, q, b)
    \/ \E p, q \in Party : p # q /\ Sent(p, q)
    \/ \E m \in net : \E s, u \in GoodSession : ReceivedOnOld(m, s, u)
    \/ \E m \in net : \E u \in GoodSession : ReceivedOnNew(m, u)
    \/ \E p \in Party : Reinstall(p)
    \/ Quiet

-----------------------------------------------------------------------------
LEMMA AllSessionsType ==
    ASSUME GoodSessions, NEW p \in Party, NEW q \in Party, NEW s \in AllSessions(p, q)
    PROVE  s \in GoodSession
<1>1. sessions[p][q] \in GoodRecord /\ s \in SessionsOf(sessions[p][q])
  BY DEF GoodSessions, AllSessions
<1> QED
  BY <1>1, PlacesOf DEF SessionsOf

LEMMA HoldsIsKept ==
    ASSUME NEW p \in Party, NEW q \in Party, NEW s, Holds(load_or_fresh(p, q), s)
    PROVE  \E t \in AllSessions(p, q) : SameSession(s, t)
<1>1. CASE sessions[p][q] = None
  <2>1. Places(new_fresh) = {}
    BY DEF Places, new_fresh
  <2> QED
    BY <1>1, <2>1 DEF Holds, load_or_fresh
<1>2. CASE sessions[p][q] # None
  BY <1>2 DEF Holds, load_or_fresh, AllSessions, SessionsOf
<1> QED
  BY <1>1, <1>2

(* The record of p for q has distinct base keys.                           *)
LEMMA LoadUnique ==
    ASSUME BaseKeysUnique, NEW p \in Party, NEW q \in Party
    PROVE  UniqueBase(load_or_fresh(p, q))
<1>1. CASE sessions[p][q] = None
  <2>1. Places(new_fresh) = {}
    BY DEF Places, new_fresh
  <2> QED
    BY <1>1, <2>1 DEF UniqueBase, load_or_fresh
<1>2. CASE sessions[p][q] # None
  BY <1>2 DEF UniqueBase, load_or_fresh, BaseKeysUnique
<1> QED
  BY <1>1, <1>2

(* Storing a record in which u replaces what was there for its base key.   *)
LEMMA StoreEffect ==
    ASSUME GoodSessions, BaseKeysUnique, NEW p \in Party, NEW q \in Party,
           NEW u \in GoodSession, NEW n \in GoodRecord,
           Replaces(load_or_fresh(p, q), u, n), sessions' = store_session(p, q, n)
    PROVE  KeepsOthers(p, q, u) /\ CurrentAfter(p, q, u) /\ BaseKeysUnique'
<1>1. \A x, y \in Party : sessions'[x][y] = IF x = p /\ y = q THEN n ELSE sessions[x][y]
  BY DEF store_session, GoodSessions
<1>2. n.current = u /\ UniqueBase(n)
  BY DEF Replaces
<1>3. KeepsOthers(p, q, u)
  <2> SUFFICES ASSUME NEW x \in Party, NEW y \in Party, NEW s \in AllSessions(x, y)',
                      ~(x = p /\ y = q /\ s = u)
               PROVE  \E t \in AllSessions(x, y) :
                         /\ SameSession(s, t)
                         /\ (x = p /\ y = q) => t.alice_base_key # u.alice_base_key
    BY DEF KeepsOthers
  <2>1. CASE x = p /\ y = q
    <3>1. sessions'[x][y] = n
      BY <1>1, <2>1
    <3>2. s \in SessionsOf(n)
      BY <3>1 DEF AllSessions
    <3>3. PICK k \in Places(n) : s = SessionAt(n, k)
      BY <3>2 DEF SessionsOf
    <3>4. k # 0
      BY <1>2, <2>1, <3>3, PlacesOf
    <3>5. k \in DOMAIN n.previous /\ s = n.previous[k]
      BY <3>3, <3>4, PlacesOf
    <3>6. Holds(load_or_fresh(p, q), s) /\ s.alice_base_key # u.alice_base_key
      BY <3>5 DEF Replaces
    <3> QED
      BY <2>1, <3>6, HoldsIsKept DEF SameSession
  <2>2. CASE ~(x = p /\ y = q)
    <3>1. sessions'[x][y] = sessions[x][y]
      BY <1>1, <2>2
    <3>2. s \in AllSessions(x, y)
      BY <3>1 DEF AllSessions
    <3> QED
      BY <2>2, <3>2, SameSessionRefl
  <2> QED
    BY <2>1, <2>2
<1>4. CurrentAfter(p, q, u)
  BY <1>1, <1>2 DEF CurrentAfter, HasCurrentSession
<1>5. BaseKeysUnique'
  BY <1>1, <1>2 DEF BaseKeysUnique, UniqueBase
<1> QED
  BY <1>3, <1>4, <1>5
-----------------------------------------------------------------------------
(* The first part of the invariant: what holds of each session and of each *)
(* ciphertext by itself.                                                   *)

(* The key was generated already, when f numbers the next key of each device. *)
Old(f, k) == k[2] < f[k[1]]

(* A root or chain key after at least one ratchet step: the key pairs that *)
(* its secret and its last step are made of were generated already.        *)
OldRoot(f, k) ==
    /\ Old(f, k.secret.kem.seed) /\ Old(f, k.secret.kem.kyber)
    /\ k.path # << >>
    /\ \A x \in k.path[Len(k.path)] : Old(f, x)

KeysKnown ==
    \A p \in Party :
        /\ Old(fresh, identity[p]) /\ Old(fresh, kyber[p]) /\ kyber[p][1] = p
        /\ \A i \in DOMAIN published[p] :
              /\ Old(fresh, published[p][i].identity) /\ Old(fresh, published[p][i].signed)
              /\ Old(fresh, published[p][i].kyber) /\ published[p][i].kyber[1] = p

SessionFacts(p, q, s) ==
    /\ p # q
    /\ s.local_identity = identity[p] /\ Old(fresh, s.remote_identity)
    /\ Old(fresh, s.sender_ratchet) /\ OldRoot(fresh, s.root_key)
    /\ s.sender_chain.key = s.root_key
    /\ s.pq.auth = s.root_key.secret
    /\ s.root_key.secret.kem.seed = s.alice_base_key
    /\ s.pq.direction = IF s.alice_base_key[1] = p THEN "A2B" ELSE "B2A"
    /\ s.root_key.secret.kem.kyber = kyber[p] => s.alice_base_key \in base_keys_seen[p]
    /\ s.pending # None =>
          /\ s.alice_base_key[1] = p
          /\ s.pending.base_key = s.alice_base_key
          /\ s.pending.kyber_ciphertext.seed = s.alice_base_key

MessageFacts(m) ==
    /\ m.from # m.to
    /\ Old(fresh, m.sender_identity) /\ Old(fresh, m.receiver_identity)
    /\ Old(fresh, m.sender_ratchet) /\ OldRoot(fresh, m.chain_key)
    /\ m.pq.auth = m.chain_key.secret
    /\ m.chain_key.secret.kem.kyber = kyber[m.from]
         => m.chain_key.secret.kem.seed \in base_keys_seen[m.from]
    /\ m.pre # None =>
          /\ m.pre.base_key = m.chain_key.secret.kem.seed
          /\ m.pre.kyber_ciphertext.seed = m.pre.base_key
          /\ m.pre.base_key[1] = m.from
          /\ m.pre.identity_key = m.sender_identity

SessionsKnown == \A p, q \in Party : \A s \in AllSessions(p, q) : SessionFacts(p, q, s)
MessagesKnown == \A m \in net : MessageFacts(m)

Known == KeysKnown /\ SessionsKnown /\ MessagesKnown /\ BaseKeysUnique

-----------------------------------------------------------------------------
(* Every action is a Step, and keeps base keys distinct in each record.    *)

LEMMA StartIsStep ==
    ASSUME Inv, Known, NEW p \in Party, NEW q \in Party, p # q, NEW b \in ServedBundles(q),
           NEW w \in 1 .. 2, process_prekey_bundle(p, q, b, w)
    PROVE  Step /\ BaseKeysUnique'
<1> DEFINE u == StartedSession(p, b)
           r == load_or_fresh(p, q)
           n == promote_state(r, u)
<1>1. TypeOK /\ GoodSessions /\ BaseKeysUnique
  BY DEF Inv, Known
<1>2. u \in GoodSession /\ u.alice_base_key = NewKey(p, 0)
  <2> DEFINE alice == initialize_alice_session(identity[p], NewKey(p, 0), NewKey(p, 1), b)
  <2>1. b \in BundleType /\ NewKey(p, 0) \in Key /\ NewKey(p, 1) \in Key
    BY <1>1, ServedBundlesType, NewKeyType
  <2>2. alice \in GoodSession
    BY <1>1, <2>1, AliceType DEF TypeOK
  <2>3. encapsulate(b.kyber, NewKey(p, 0)) \in Kem
    BY <2>1 DEF encapsulate, Kem, BundleType
  <2>4. alice.alice_base_key = NewKey(p, 0)
    BY DEF initialize_alice_session
  <2>5. u = set_unacknowledged_pre_key_message(alice, b.pre_key_id,
              encapsulate(b.kyber, NewKey(p, 0)), now)
    BY DEF StartedSession
  <2> HIDE DEF alice
  <2>6. u \in GoodSession
    <3> DEFINE ct == encapsulate(b.kyber, NewKey(p, 0))
    <3>1. ct \in Kem /\ b.pre_key_id \in PreKeyId \cup {None} /\ now \in Nat
      BY <1>1, <2>1, <2>3 DEF BundleType, TypeOK
    <3> HIDE DEF ct
    <3>2. set_unacknowledged_pre_key_message(alice, b.pre_key_id, ct, now) \in GoodSession
      BY <2>2, <3>1, PendingType
    <3> QED
      BY <2>5, <3>2 DEF ct
  <2> QED
    BY <2>2, <2>4, <2>5, <2>6
    DEF set_unacknowledged_pre_key_message, GoodSession, SessionStructure
<1>3. r \in GoodRecord /\ UniqueBase(r)
  BY <1>1, LoadType, LoadUnique
<1> HIDE DEF u
<1>4. CASE w = 2
  <2>1. \A k \in Places(r) : SessionAt(r, k).alice_base_key # u.alice_base_key
    <3> SUFFICES ASSUME NEW k \in Places(r), SessionAt(r, k).alice_base_key = NewKey(p, 0)
                 PROVE  FALSE
      BY <1>2
    <3>1. Holds(r, SessionAt(r, k))
      BY SameSessionRefl DEF Holds
    <3>2. PICK t \in AllSessions(p, q) : t.alice_base_key = NewKey(p, 0)
      BY <3>1, HoldsIsKept DEF SameSession
    <3>3. Old(fresh, NewKey(p, 0))
      BY <3>2 DEF Known, SessionsKnown, SessionFacts, OldRoot
    <3> QED
      BY <1>1, <3>3 DEF Old, NewKey, TypeOK
  <2>2. n \in GoodRecord /\ Replaces(r, u, n)
    BY <1>2, <1>3, <2>1, PromoteType, PromoteEffect
  <2>3. /\ sessions' = store_session(p, q, n)
        /\ fresh' = [fresh EXCEPT ![p] = @ + 2]
        /\ UNCHANGED << identity, signed, kyber, pre_keys, base_keys_seen, published,
                        net, delivered, replayed >>
    BY <1>4 DEF process_prekey_bundle, u, StartedSession
  <2> HIDE DEF n, r
  <2>4. KeepsOthers(p, q, u) /\ CurrentAfter(p, q, u) /\ BaseKeysUnique'
    BY <1>1, <1>2, <2>2, <2>3, StoreEffect DEF r
  <2>5. Started(p, q, b)
    BY <2>3, <2>4 DEF Started, u
  <2> QED
    BY <2>4, <2>5 DEF Step
<1>5. CASE w # 2
  <2>1. UNCHANGED << sessions, fresh, identity, signed, kyber, pre_keys, base_keys_seen,
                     published, net, delivered, replayed >>
    BY <1>5 DEF process_prekey_bundle
  <2>2. Quiet
    BY <2>1, SameSessionRefl DEF Quiet, KeepsAll, CurrentKept, AllSessions, HasCurrentSession
  <2> QED
    BY <1>1, <2>1, <2>2 DEF Step, BaseKeysUnique
<1> QED
  BY <1>4, <1>5

(* Steps that leave the sessions alone.                                    *)
LEMMA QuietStep ==
    ASSUME Known, UNCHANGED << sessions, fresh, identity, signed, kyber, published, net,
                               delivered, replayed >>,
           \A p \in Party : base_keys_seen[p] \subseteq base_keys_seen'[p],
           \A p \in Party, id \in PreKeyId :
               pre_keys[p][id] = None => pre_keys'[p][id] = None
    PROVE  Step /\ BaseKeysUnique'
<1>1. Quiet
  BY SameSessionRefl DEF Quiet, KeepsAll, CurrentKept, AllSessions, HasCurrentSession
<1> QED
  BY <1>1 DEF Step, Known, BaseKeysUnique

LEMMA MovedType ==
    ASSUME NEW s \in GoodSession
    PROVE  Moved(s) \in GoodSession
<1>1. s \in SessionStructure
  BY DEF GoodSession
<1>2. [s.sender_chain EXCEPT !.index = s.sender_chain.index + 1] \in ChainKey
  BY <1>1 DEF SessionStructure, ChainKey
<1> QED
  BY <1>1, <1>2 DEF Moved, GoodSession, SessionStructure

LEMMA SendIsStep ==
    ASSUME Inv, Known, NEW p \in Party, NEW q \in Party, p # q,
           NEW w \in 1 .. 2, message_encrypt(p, q, w)
    PROVE  Step /\ BaseKeysUnique'
<1> DEFINE r == sessions[p][q]
           u == Moved(r.current)
           n == [r EXCEPT !.current = u]
<1>1. TypeOK /\ GoodSessions /\ BaseKeysUnique /\ HasCurrentSession(p, q)
  BY DEF Inv, Known, message_encrypt
<1>2. r \in GoodRecord /\ r.current \in GoodSession /\ r = load_or_fresh(p, q)
  BY <1>1 DEF GoodSessions, GoodRecord, HasCurrentSession, load_or_fresh
<1>3. u \in GoodSession /\ u.alice_base_key = r.current.alice_base_key
  <2>1. u \in GoodSession
    BY <1>2, MovedType
  <2> QED
    BY <1>2, <2>1 DEF Moved, GoodSession, SessionStructure
<1>4. CASE w = 2
  <2>1. /\ sessions' = store_session(p, q, set_sender_chain_key(r))
        /\ net' = net \cup {Ciphertext(p, q, r.current)}
        /\ UNCHANGED << identity, signed, kyber, pre_keys, base_keys_seen, published,
                        fresh, delivered, replayed >>
    BY <1>4 DEF message_encrypt, ReturnsOk
  <2>2. set_sender_chain_key(r) = n
    <3>1. [r EXCEPT !.current.sender_chain.index = @ + 1] = n
      BY <1>2 DEF GoodRecord, GoodSession, SessionStructure, Moved
    <3> QED
      BY <3>1 DEF set_sender_chain_key
  <2> HIDE DEF u
  <2>3. n \in GoodRecord /\ n.current = u /\ n.previous = r.previous
    BY <1>2, <1>3 DEF GoodRecord
  <2>4. Replaces(r, u, n)
    <3>1. UniqueBase(r)
      BY <1>1, <1>2, LoadUnique
    <3>2. 0 \in Places(r) /\ SessionAt(r, 0) = r.current
      BY <1>1, <1>2, PlacesOf DEF HasCurrentSession
    <3>3. ASSUME NEW j \in DOMAIN r.previous
          PROVE  Holds(r, r.previous[j]) /\ r.previous[j].alice_base_key # u.alice_base_key
      <4>1. j \in Places(r) /\ SessionAt(r, j) = r.previous[j] /\ j # 0
        BY <1>2, PlacesOf
      <4> QED
        BY <1>3, <3>1, <3>2, <4>1, SameSessionRefl DEF Holds, UniqueBase
    <3>4. \A a, b \in DOMAIN r.previous :
             r.previous[a].alice_base_key = r.previous[b].alice_base_key => a = b
      BY <1>2, <3>1, PlacesOf DEF UniqueBase
    <3>5. UniqueBase(n)
      BY <2>3, <3>3, <3>4, UniqueBaseOf
    <3> QED
      BY <2>3, <3>3, <3>5 DEF Replaces
  <2> HIDE DEF n
  <2>5. KeepsOthers(p, q, u) /\ CurrentAfter(p, q, u) /\ BaseKeysUnique'
    BY <1>1, <1>2, <1>3, <2>1, <2>2, <2>3, <2>4, StoreEffect
  <2>6. Sent(p, q)
    BY <1>1, <2>1, <2>5 DEF Sent, u
  <2> QED
    BY <2>5, <2>6 DEF Step
<1>5. CASE w # 2
  BY <1>5, QuietStep DEF message_encrypt, ReturnsOk
<1> QED
  BY <1>4, <1>5
LEMMA ReceiveSignalIsStep ==
    ASSUME Inv, Known, NEW m \in net, NEW w \in 1 .. 2,
           message_decrypt_signal(m.to, m.from, m, w)
    PROVE  Step /\ BaseKeysUnique'
<1> DEFINE r == sessions[m.to][m.from]
           d == decrypt_message_with_record(r, m, NewKey(m.to, 0), Places(r))
           n == d.record
           u == n.current
<1>1. TypeOK /\ GoodSessions /\ BaseKeysUnique
  BY DEF Inv, Known
<1>2. m \in CiphertextMessage /\ m.to \in Party /\ m.from \in Party
  BY <1>1 DEF TypeOK, CiphertextMessage
<1>3. /\ r # None /\ d.outcome = "ok" /\ m.pre = None
      /\ r \in GoodRecord /\ r = load_or_fresh(m.to, m.from)
  <2>1. r # None /\ d.outcome = "ok" /\ m.pre = None
    BY Zenon DEF message_decrypt_signal
  <2>2. r \in GoodRecord
    BY <1>1, <1>2, <2>1 DEF GoodSessions
  <2>3. r = load_or_fresh(m.to, m.from)
    BY <2>1 DEF load_or_fresh
  <2> QED
    BY <2>1, <2>2, <2>3
<1>4. UniqueBase(r) /\ NewKey(m.to, 0) \in Key
  BY <1>1, <1>2, <1>3, LoadUnique, NewKeyType
<1>5. CASE w = 2
  <2>1. /\ sessions' = store_session(m.to, m.from, n)
        /\ fresh' = [fresh EXCEPT ![m.to] = @ + 1]
        /\ Deliver(m)
        /\ UNCHANGED << identity, signed, kyber, pre_keys, base_keys_seen, published, net >>
    <3>1. /\ sessions' = store_session(m.to, m.from, n)
          /\ fresh' = [fresh EXCEPT ![m.to] = @ + 1]
      <4>1. \/ /\ w = 2
               /\ sessions' = store_session(m.to, m.from, n)
               /\ fresh' = [fresh EXCEPT ![m.to] = @ + 1]
            \/ w < 2
        BY Zenon DEF message_decrypt_signal
      <4> QED
        BY <1>5, <4>1
    <3>2. Deliver(m)
      BY Zenon, <1>5 DEF message_decrypt_signal, ReturnsOk
    <3> QED
      BY Zenon, <3>1, <3>2 DEF message_decrypt_signal
  <2> HIDE DEF r
  <2>2. /\ u \in GoodSession /\ Replaces(r, u, n)
        /\ \E k \in Places(r) : Accepts(SessionAt(r, k), m, NewKey(m.to, 0), u)
    BY <1>2, <1>3, <1>4, DecryptRecordEffect
  <2>3. n \in GoodRecord
    <3>1. Places(r) \in SUBSET (0 .. Len(r.previous))
      BY DEF Places
    <3>2. \A i \in Places(r) : SessionAt(r, i) \in GoodSession
      BY <1>3, PlacesOf
    <3> QED
      BY <1>2, <1>3, <1>4, <3>1, <3>2, DecryptRecordType
  <2> HIDE DEF n, u, d
  <2>4. PICK k \in Places(r) : Accepts(SessionAt(r, k), m, NewKey(m.to, 0), u)
    BY <2>2
  <2>5. /\ KeepsOthers(m.to, m.from, u) /\ CurrentAfter(m.to, m.from, u)
        /\ BaseKeysUnique'
    BY <1>1, <1>2, <1>3, <2>1, <2>2, <2>3, StoreEffect
  <2>6. SessionAt(r, k) \in AllSessions(m.to, m.from) /\ SessionAt(r, k) \in GoodSession
    BY <1>3, PlacesOf DEF AllSessions, SessionsOf, r
  <2>7. ReceivedOnOld(m, SessionAt(r, k), u)
    BY <1>3, <2>1, <2>4, <2>5, <2>6 DEF ReceivedOnOld, Received
  <2> QED
    BY <2>2, <2>5, <2>6, <2>7 DEF Step
<1>6. CASE w # 2
  BY Zenon, <1>6, QuietStep DEF message_decrypt_signal, ReturnsOk
<1> QED
  BY <1>5, <1>6

(* A record has a session for a base key, or none of its sessions has it.  *)
LEMMA MatchingIsHeld ==
    ASSUME GoodSessions, NEW p \in Party, NEW q \in Party, NEW m,
           ~HasMatching(p, q, m)
    PROVE  /\ \A k \in Places(load_or_fresh(p, q)) :
                 SessionAt(load_or_fresh(p, q), k).alice_base_key # m.pre.base_key
           /\ \A t \in AllSessions(p, q) : t.alice_base_key # m.pre.base_key
<1> DEFINE r == load_or_fresh(p, q)
<1>1. \A k \in Places(r) : SessionAt(r, k).alice_base_key # m.pre.base_key
  <2> SUFFICES ASSUME NEW k \in Places(r), SessionAt(r, k).alice_base_key = m.pre.base_key
               PROVE  k \in MatchingSessions(r, m.pre.base_key)
    BY DEF HasMatching
  <2>1. k \in 0 .. Len(r.previous) /\ (k > 0 \/ r.current # None)
    BY DEF Places
  <2> HIDE DEF r
  <2>2. CASE k = 0
    BY <2>1, <2>2 DEF MatchingSessions, SessionAt
  <2>3. CASE k # 0
    BY <2>1, <2>3 DEF MatchingSessions, SessionAt
  <2> QED
    BY <2>2, <2>3
<1>2. ASSUME NEW t \in AllSessions(p, q) PROVE t.alice_base_key # m.pre.base_key
  <2>1. sessions[p][q] # None /\ t \in SessionsOf(sessions[p][q])
    BY DEF AllSessions
  <2>2. sessions[p][q] = r
    BY <2>1 DEF load_or_fresh
  <2> QED
    BY <1>1, <2>1, <2>2 DEF SessionsOf
<1> QED
  BY <1>1, <1>2

LEMMA ReceivePreKeyIsStep ==
    ASSUME Inv, Known, NEW m \in net, NEW w \in 1 .. 4,
           message_decrypt_prekey(m.to, m.from, m, w)
    PROVE  Step /\ BaseKeysUnique'
<1> DEFINE p == m.to
           q == m.from
           r == load_or_fresh(p, q)
           v == process_prekey(p, q, m)
           d == decrypt_message_with_record(v, m, NewKey(p, 0), {0})
           n == d.record
           u == n.current
<1>1. TypeOK /\ GoodSessions /\ BaseKeysUnique
  BY DEF Inv, Known
<1>2. m \in CiphertextMessage /\ p \in Party /\ q \in Party
  BY <1>1 DEF TypeOK, CiphertextMessage
<1>3. m.pre # None /\ d.outcome = "ok" /\ m.pre \in PreKeyParts
  BY <1>2 DEF message_decrypt_prekey, decrypt_prekey, CiphertextMessage
<1>4. /\ r \in GoodRecord /\ UniqueBase(r) /\ NewKey(p, 0) \in Key
      /\ v \in GoodRecord /\ v.current \in GoodSession
  BY <1>1, <1>2, <1>3, LoadType, LoadUnique, NewKeyType, ProcessPreKeyType
<1>5. /\ Replaces(r, v.current, v)
      /\ IF HasMatching(p, q, m)
           THEN v.current.alice_base_key = m.pre.base_key
                /\ \E k \in Places(r) : v.current = SessionAt(r, k)
           ELSE v.current = CreatedSession(m)
  <2>1. CASE HasMatching(p, q, m)
    <3>1. v = promote_matching_session(r, m.pre.base_key)
      BY <2>1 DEF process_prekey
    <3> HIDE DEF r, v, p, q
    <3>2. MatchingSessions(r, m.pre.base_key) # {}
      BY <2>1 DEF HasMatching, r
    <3> QED
      BY <1>4, <2>1, <3>1, <3>2, PromoteMatchingEffect
  <2>2. CASE ~HasMatching(p, q, m)
    <3> DEFINE c == CreatedSession(m)
    <3>1. v = promote_state(r, c)
      BY <2>2 DEF process_prekey, CreatedSession
    <3>2. c.alice_base_key = m.pre.base_key
      BY DEF CreatedSession, initialize_bob_session
    <3>3. c \in GoodSession
      <4>1. identity[p] \in Key /\ signed[p] \in Key /\ kyber[p] \in Key
        BY <1>1, <1>2 DEF TypeOK
      <4>2. GetPreKey(p, m) \in Key \cup {None}
        BY <1>1, <1>2, <1>3 DEF GetPreKey, PreKeyParts, TypeOK
      <4> QED
        BY <1>3, <4>1, <4>2, BobType DEF CreatedSession
    <3>4. \A k \in Places(r) : SessionAt(r, k).alice_base_key # c.alice_base_key
      BY <1>1, <1>2, <2>2, <3>2, MatchingIsHeld
    <3> HIDE DEF c, r, v, p, q
    <3>5. Replaces(r, c, v)
      BY <1>4, <3>1, <3>3, <3>4, PromoteEffect
    <3>6. v.current = c
      BY <3>5 DEF Replaces
    <3> QED
      BY <2>2, <3>5, <3>6 DEF c
  <2> QED
    BY <2>1, <2>2
<1>6. CASE w = 4
  <2>1. /\ sessions' = store_session(p, q, n)
        /\ fresh' = [fresh EXCEPT ![p] = @ + 1]
        /\ Deliver(m)
        /\ UNCHANGED << identity, signed, kyber, published, net >>
    BY <1>6 DEF message_decrypt_prekey, decrypt_prekey, ReturnsOk
  <2>2. IF HasMatching(p, q, m)
          THEN UNCHANGED << pre_keys, base_keys_seen >>
          ELSE /\ CanGetPreKey(p, m) /\ CanMarkKyberPreKey(p, m)
               /\ base_keys_seen' = mark_kyber_pre_key_used(p, m)
               /\ pre_keys' = remove_pre_key(p, m)
    <3>1. CASE HasMatching(p, q, m)
      BY <1>6, <3>1 DEF message_decrypt_prekey
    <3>2. CASE ~HasMatching(p, q, m)
      BY <1>6, <3>2 DEF message_decrypt_prekey
    <3> QED
      BY <3>1, <3>2
  <2> HIDE DEF v, p, q, r
  <2>3. {0} \in SUBSET Places(v) /\ SessionAt(v, 0) = v.current
        /\ {0} \in SUBSET (0 .. Len(v.previous))
    <3>1. v.current # None
      BY <1>4, NoSessionAssumption DEF GoodSession
    <3>2. Len(v.previous) \in Nat
      BY <1>4 DEF GoodRecord
    <3> QED
      BY <1>4, <3>1, <3>2, PlacesOf
  <2>4. /\ u \in GoodSession /\ Replaces(v, u, n)
        /\ Accepts(v.current, m, NewKey(p, 0), u)
    <3>1. UniqueBase(v)
      BY <1>5 DEF Replaces
    <3> QED
      BY <1>2, <1>3, <1>4, <2>3, <3>1, DecryptRecordEffect
  <2>5. n \in GoodRecord
    BY <1>2, <1>3, <1>4, <2>3, DecryptRecordType
  <2> HIDE DEF n, u, d
  <2>6. u.alice_base_key = v.current.alice_base_key
    BY <2>4 DEF Accepts
  <2>7. Replaces(r, u, n)
    BY <1>4, <1>5, <2>4, <2>6, ReplacesTrans
  <2>8. KeepsOthers(p, q, u) /\ CurrentAfter(p, q, u) /\ BaseKeysUnique'
    BY <1>1, <1>2, <2>1, <2>4, <2>5, <2>7, StoreEffect DEF r
  <2>9. Received(m, v.current, u)
    BY <2>1, <2>4, <2>8 DEF Received, p, q
  <2>10. CASE HasMatching(p, q, m)
    <3>1. PICK k \in Places(r) : v.current = SessionAt(r, k)
      BY <1>5, <2>10
    <3>2. sessions[p][q] # None
      <4>1. Places(new_fresh) = {}
        BY DEF Places, new_fresh
      <4> QED
        BY <4>1 DEF r, load_or_fresh
    <3>3. v.current \in AllSessions(p, q)
      BY <3>1, <3>2 DEF AllSessions, SessionsOf, r, load_or_fresh
    <3>4. ReceivedOnOld(m, v.current, u)
      BY <1>5, <2>2, <2>9, <2>10, <3>3 DEF ReceivedOnOld, p, q
    <3> QED
      BY <1>4, <2>4, <2>8, <3>4 DEF Step
  <2>11. CASE ~HasMatching(p, q, m)
    <3>1. \A t \in AllSessions(p, q) : t.alice_base_key # m.pre.base_key
      BY <1>1, <1>2, <2>11, MatchingIsHeld
    <3>2. ReceivedOnNew(m, u)
      BY <1>3, <1>5, <2>2, <2>9, <2>11, <3>1 DEF ReceivedOnNew, p, q
    <3> QED
      BY <2>4, <2>8, <3>2 DEF Step
  <2> QED
    BY <2>10, <2>11
<1>7. CASE w # 4
  <2>1. /\ UNCHANGED << sessions, fresh, identity, signed, kyber, published, net,
                        delivered, replayed >>
        /\ base_keys_seen' \in {mark_kyber_pre_key_used(p, m), base_keys_seen}
        /\ pre_keys' \in {remove_pre_key(p, m), pre_keys}
    BY <1>7 DEF message_decrypt_prekey, ReturnsOk
  <2> HIDE DEF p, q
  <2>2. \A x \in Party : base_keys_seen[x] \subseteq base_keys_seen'[x]
    BY <1>1, <1>2, <2>1 DEF TypeOK, mark_kyber_pre_key_used
  <2>3. \A x \in Party, id \in PreKeyId : pre_keys[x][id] = None => pre_keys'[x][id] = None
    <3>1. pre_keys \in [Party -> [PreKeyId -> Key \cup {None}]]
      BY <1>1 DEF TypeOK
    <3>2. CASE pre_keys' = pre_keys
      BY <3>2
    <3>3. CASE pre_keys' = [pre_keys EXCEPT ![p][m.pre.pre_key_id] = None]
      BY <1>2, <3>1, <3>3
    <3> QED
      BY <2>1, <3>2, <3>3 DEF remove_pre_key
  <2> QED
    BY <2>1, <2>2, <2>3, QuietStep
<1> QED
  BY <1>6, <1>7
LEMMA ArchiveIsStep ==
    ASSUME Inv, Known, NEW p \in Party, NEW q \in Party, archive_session(p, q)
    PROVE  Step /\ BaseKeysUnique'
<1> DEFINE r == sessions[p][q]
           a == archive_current_state(r)
<1>1. TypeOK /\ GoodSessions /\ BaseKeysUnique
  BY DEF Inv, Known
<1>2. /\ r \in GoodRecord /\ r # None
      /\ sessions' = store_session(p, q, a)
      /\ UNCHANGED << fresh, identity, signed, kyber, published, pre_keys, base_keys_seen,
                      net, delivered, replayed >>
  BY <1>1 DEF archive_session, HasCurrentSession, GoodSessions
<1>3. UniqueBase(r) /\ load_or_fresh(p, q) = r
  BY <1>1, <1>2, LoadUnique DEF load_or_fresh
<1> HIDE DEF r
<1>4. /\ a \in GoodRecord /\ a.current = None /\ UniqueBase(a)
      /\ \A j \in DOMAIN a.previous : Holds(r, a.previous[j])
  BY <1>2, <1>3, ArchiveType, ArchiveEffect
<1> HIDE DEF a
<1>5. \A x, y \in Party : sessions'[x][y] = IF x = p /\ y = q THEN a ELSE sessions[x][y]
  BY <1>1, <1>2 DEF store_session, GoodSessions
<1>6. KeepsAll
  <2> SUFFICES ASSUME NEW x \in Party, NEW y \in Party, NEW s \in AllSessions(x, y)'
               PROVE  \E t \in AllSessions(x, y) : SameSession(s, t)
    BY DEF KeepsAll
  <2>1. CASE x = p /\ y = q
    <3>1. s \in SessionsOf(a)
      BY <1>5, <2>1 DEF AllSessions
    <3>2. PICK k \in Places(a) : s = SessionAt(a, k)
      BY <3>1 DEF SessionsOf
    <3>3. k # 0
      BY <1>4, <3>2, PlacesOf
    <3>4. Holds(load_or_fresh(p, q), s)
      BY <1>3, <1>4, <3>2, <3>3, PlacesOf
    <3> QED
      BY <2>1, <3>4, HoldsIsKept
  <2>2. CASE ~(x = p /\ y = q)
    <3>1. s \in AllSessions(x, y)
      BY <1>5, <2>2 DEF AllSessions
    <3> QED
      BY <3>1, SameSessionRefl
  <2> QED
    BY <2>1, <2>2
<1>7. CurrentKept
  BY <1>4, <1>5 DEF CurrentKept, HasCurrentSession
<1>8. BaseKeysUnique'
  BY <1>1, <1>4, <1>5 DEF BaseKeysUnique, UniqueBase
<1> QED
  BY <1>2, <1>6, <1>7, <1>8 DEF Step, Quiet

LEMMA NextIsStep == Inv /\ Known /\ [Next]_vars => Step /\ BaseKeysUnique'
<1> SUFFICES ASSUME Inv, Known, [Next]_vars PROVE Step /\ BaseKeysUnique'
  OBVIOUS
<1>1. ASSUME NEW p \in Party, NEW q \in Peers(p), StartSession(p, q)
      PROVE  Step /\ BaseKeysUnique'
  BY <1>1, StartIsStep DEF StartSession, Peers
<1>2. ASSUME NEW p \in Party, NEW q \in Peers(p), Encrypt(p, q)
      PROVE  Step /\ BaseKeysUnique'
  BY <1>2, SendIsStep DEF Encrypt, Peers
<1>3. ASSUME NEW p \in Party, NEW q \in Peers(p), archive_session(p, q)
      PROVE  Step /\ BaseKeysUnique'
  BY <1>3, ArchiveIsStep DEF Peers
<1>4. ASSUME NEW p \in Party, NEW q \in Peers(p), AcceptIdentity(p, q)
      PROVE  Step /\ BaseKeysUnique'
  BY <1>4, QuietStep DEF AcceptIdentity
<1>5. ASSUME NEW m \in net, DecryptSignal(m) PROVE Step /\ BaseKeysUnique'
  BY <1>5, ReceiveSignalIsStep DEF DecryptSignal
<1>6. ASSUME NEW m \in net, DecryptPreKey(m) PROVE Step /\ BaseKeysUnique'
  BY <1>6, ReceivePreKeyIsStep DEF DecryptPreKey
<1>7. ASSUME NEW p \in Party, Reinstall(p) PROVE Step /\ BaseKeysUnique'
  <2>1. \A x, y \in Party : sessions'[x][y] = IF x = p THEN None ELSE sessions[x][y]
    BY <1>7 DEF Reinstall, Inv, GoodSessions
  <2>2. BaseKeysUnique'
    BY <2>1 DEF BaseKeysUnique, Known
  <2> QED
    BY <1>7, <2>2 DEF Step
<1>8. CASE Tick
  BY <1>8, QuietStep DEF Tick, stores
<1>9. CASE UNCHANGED vars
  BY <1>9, QuietStep DEF vars, stores
<1> QED
  BY <1>1, <1>2, <1>3, <1>4, <1>5, <1>6, <1>7, <1>8, <1>9 DEF Next
-----------------------------------------------------------------------------
(* Known is preserved.                                                     *)

LEMMA OldGrows ==
    ASSUME NEW f \in [Party -> Nat], NEW g \in [Party -> Nat],
           \A x \in Party : f[x] <= g[x]
    PROVE  /\ \A k \in Key : Old(f, k) => Old(g, k)
           /\ \A k \in RootKey : OldRoot(f, k) => OldRoot(g, k)
<1>1. \A k \in Key : Old(f, k) => Old(g, k)
  <2> SUFFICES ASSUME NEW k \in Key, Old(f, k) PROVE Old(g, k)
    OBVIOUS
  <2>1. k[1] \in Party /\ k[2] \in Nat
    BY DEF Key
  <2>2. f[k[1]] <= g[k[1]] /\ f[k[1]] \in Nat /\ g[k[1]] \in Nat
    BY <2>1
  <2> QED
    BY <2>1, <2>2 DEF Old
<1>2. ASSUME NEW k \in RootKey, OldRoot(f, k) PROVE OldRoot(g, k)
  <2>1. /\ k.secret.kem.seed \in Key /\ k.secret.kem.kyber \in Key
        /\ k.path \in Seq(SUBSET Key)
    BY DEF RootKey, Secret, Kem
  <2>2. k.path[Len(k.path)] \in SUBSET Key
    BY <1>2, <2>1 DEF OldRoot
  <2> QED
    BY <1>1, <1>2, <2>1, <2>2 DEF OldRoot
<1> QED
  BY <1>1, <1>2

LEMMA CreateChainEffect ==
    ASSUME NEW root \in RootKey, NEW a \in Key, NEW b \in Key
    PROVE  LET k == create_chain(root, a, b) IN
           /\ k.secret = root.secret
           /\ k.path # << >>
           /\ Len(k.path) = Len(root.path) + 1
           /\ k.path[Len(k.path)] = {a, b}
<1>1. root.path \in Seq(SUBSET Key) /\ DH(a, b) = {a, b}
  BY DEF RootKey, DH
<1>2. /\ create_chain(root, a, b).secret = root.secret
      /\ create_chain(root, a, b).path = Append(root.path, {a, b})
  BY <1>1 DEF create_chain, RootKey
<1>3. {a, b} \in SUBSET Key
  OBVIOUS
<1> HIDE DEF create_chain
<1> QED
  BY <1>1, <1>2, <1>3

(* The fields of a session that process_prekey_bundle starts.              *)
LEMMA StartedFields ==
    ASSUME TypeOK, NEW p \in Party, NEW q \in Party, NEW b \in ServedBundles(q)
    PROVE  LET u == StartedSession(p, b) IN
           /\ u \in GoodSession
           /\ u.local_identity = identity[p] /\ u.remote_identity = b.identity
           /\ u.alice_base_key = NewKey(p, 0) /\ u.sender_ratchet = NewKey(p, 1)
           /\ u.sender_chain = [key |-> u.root_key, index |-> 0]
           /\ u.pending = [pre_key_id |-> b.pre_key_id, base_key |-> NewKey(p, 0),
                           kyber_ciphertext |-> [kyber |-> b.kyber, seed |-> NewKey(p, 0)],
                           timestamp |-> now]
           /\ \E x \in Secret :
                 /\ x.kem = [kyber |-> b.kyber, seed |-> NewKey(p, 0)]
                 /\ u.root_key = create_chain(derive_keys(x), b.signed, NewKey(p, 1))
                 /\ u.pq = [auth |-> x, direction |-> "A2B"]
                 /\ u.receiver_chains =
                      << [sender |-> b.signed, chain |-> [key |-> derive_keys(x), index |-> 0],
                          message_keys |-> {}] >>
<1> DEFINE base  == NewKey(p, 0)
           alice == initialize_alice_session(identity[p], base, NewKey(p, 1), b)
           ct    == encapsulate(b.kyber, base)
           u     == StartedSession(p, b)
           x     == [dh1 |-> DH(identity[p], b.signed),
                     dh2 |-> DH(base, b.identity),
                     dh3 |-> DH(base, b.signed),
                     dh4 |-> IF b.pre_key = None THEN {} ELSE DH(base, b.pre_key),
                     kem |-> ct]
<1>1. b \in BundleType /\ base \in Key /\ NewKey(p, 1) \in Key /\ identity[p] \in Key
      /\ now \in Nat /\ b.pre_key_id \in PreKeyId \cup {None}
  BY ServedBundlesType, NewKeyType DEF TypeOK, BundleType
<1>2. alice \in GoodSession
  BY <1>1, AliceType
<1>3. ct \in Kem /\ ct = [kyber |-> b.kyber, seed |-> base]
  BY <1>1 DEF encapsulate, Kem, BundleType
<1>4. x \in Secret /\ x.kem = ct
  BY <1>1, <1>3 DEF Secret, DH, BundleType
<1>5. /\ alice.local_identity = identity[p] /\ alice.remote_identity = b.identity
      /\ alice.alice_base_key = base /\ alice.sender_ratchet = NewKey(p, 1)
      /\ alice.root_key = create_chain(derive_keys(x), b.signed, NewKey(p, 1))
      /\ alice.sender_chain = [key |-> alice.root_key, index |-> 0]
      /\ alice.pq = [auth |-> x, direction |-> "A2B"]
      /\ alice.receiver_chains =
           << [sender |-> b.signed, chain |-> [key |-> derive_keys(x), index |-> 0],
               message_keys |-> {}] >>
  BY DEF initialize_alice_session
<1>6. u = set_unacknowledged_pre_key_message(alice, b.pre_key_id, ct, now)
  BY DEF StartedSession
<1> HIDE DEF alice, ct, x, base, u
<1>7. u \in GoodSession
  BY <1>1, <1>2, <1>3, <1>6, PendingType
<1>8. u = [alice EXCEPT !.pending = [pre_key_id |-> b.pre_key_id, base_key |-> base,
                                     kyber_ciphertext |-> ct, timestamp |-> now]]
  BY <1>5, <1>6 DEF set_unacknowledged_pre_key_message
<1>9. /\ u.local_identity = alice.local_identity
      /\ u.remote_identity = alice.remote_identity
      /\ u.alice_base_key = alice.alice_base_key
      /\ u.sender_ratchet = alice.sender_ratchet
      /\ u.root_key = alice.root_key
      /\ u.sender_chain = alice.sender_chain
      /\ u.pq = alice.pq
      /\ u.receiver_chains = alice.receiver_chains
      /\ u.pending = [pre_key_id |-> b.pre_key_id, base_key |-> base,
                      kyber_ciphertext |-> ct, timestamp |-> now]
  BY <1>2, <1>8 DEF GoodSession, SessionStructure
<1>10. u.sender_chain = [key |-> u.root_key, index |-> 0]
  BY <1>5, <1>9
<1> QED
  BY <1>3, <1>4, <1>5, <1>7, <1>9, <1>10 DEF u, base

(* The fields of a session that process_prekey creates.                    *)
LEMMA CreatedFields ==
    ASSUME TypeOK, NEW m \in net, m.pre # None
    PROVE  LET s == CreatedSession(m) IN
           /\ s \in GoodSession
           /\ s.local_identity = identity[m.to]
           /\ s.remote_identity = m.pre.identity_key
           /\ s.alice_base_key = m.pre.base_key
           /\ s.root_key.path = << >>
           /\ s.root_key.secret.kem =
                [kyber |-> kyber[m.to], seed |-> m.pre.kyber_ciphertext.seed]
           /\ s.pq = [auth |-> s.root_key.secret, direction |-> "B2A"]
           /\ s.sender_ratchet = signed[m.to]
           /\ s.receiver_chains = << >>
<1> DEFINE s == CreatedSession(m)
           ct == m.pre.kyber_ciphertext
           x == [dh1 |-> DH(signed[m.to], m.pre.identity_key),
                 dh2 |-> DH(identity[m.to], m.pre.base_key),
                 dh3 |-> DH(signed[m.to], m.pre.base_key),
                 dh4 |-> IF GetPreKey(m.to, m) = None
                           THEN {} ELSE DH(GetPreKey(m.to, m), m.pre.base_key),
                 kem |-> decapsulate(kyber[m.to], ct)]
<1>1. m \in CiphertextMessage /\ m.to \in Party /\ m.pre \in PreKeyParts
  BY DEF TypeOK, CiphertextMessage
<1>2. identity[m.to] \in Key /\ signed[m.to] \in Key /\ kyber[m.to] \in Key
  BY <1>1 DEF TypeOK
<1>3. GetPreKey(m.to, m) \in Key \cup {None}
  BY <1>1 DEF GetPreKey, PreKeyParts, TypeOK
<1>4. s \in GoodSession
  BY <1>1, <1>2, <1>3, BobType DEF CreatedSession
<1>5. ct \in Kem
  BY <1>1 DEF PreKeyParts
<1>6. decapsulate(kyber[m.to], ct) = [kyber |-> kyber[m.to], seed |-> ct.seed]
  BY <1>5 DEF decapsulate, Kem
<1>7. /\ s.local_identity = identity[m.to] /\ s.remote_identity = m.pre.identity_key
      /\ s.alice_base_key = m.pre.base_key /\ s.root_key = derive_keys(x)
      /\ s.pq = [auth |-> x, direction |-> "B2A"]
      /\ s.sender_ratchet = signed[m.to] /\ s.receiver_chains = << >>
  BY DEF CreatedSession, initialize_bob_session
<1>8. x.kem = decapsulate(kyber[m.to], ct)
  OBVIOUS
<1> HIDE DEF x, ct
<1>9. derive_keys(x).secret = x /\ derive_keys(x).path = << >>
  BY DEF derive_keys
<1> HIDE DEF s
<1> QED
  BY <1>4, <1>6, <1>7, <1>8, <1>9 DEF s, ct
(* The device keeps its keys, and the base keys it has seen.               *)
Remains(p) ==
    /\ identity'[p] = identity[p] /\ kyber'[p] = kyber[p]
    /\ base_keys_seen[p] \subseteq base_keys_seen'[p]

FreshGrows ==
    /\ fresh \in [Party -> Nat] /\ fresh' \in [Party -> Nat]
    /\ \A x \in Party : fresh[x] <= fresh'[x]

LEMMA KeptFacts ==
    ASSUME NEW p \in Party, NEW q \in Party, NEW s, NEW t \in GoodSession,
           SameSession(s, t), SessionFacts(p, q, t), FreshGrows, Remains(p)
    PROVE  SessionFacts(p, q, s)'
<1>1. /\ t.remote_identity \in Key /\ t.sender_ratchet \in Key /\ t.root_key \in RootKey
  BY DEF GoodSession, SessionStructure
<1>2. /\ Old(fresh', s.remote_identity) /\ Old(fresh', s.sender_ratchet)
      /\ OldRoot(fresh', s.root_key)
  BY <1>1, OldGrows DEF SameSession, SessionFacts, FreshGrows
<1> QED
  BY <1>2 DEF SameSession, SessionFacts, Remains

LEMMA KeptMessage ==
    ASSUME NEW m \in CiphertextMessage, MessageFacts(m), FreshGrows, Remains(m.from)
    PROVE  MessageFacts(m)'
<1>1. /\ m.sender_identity \in Key /\ m.receiver_identity \in Key
      /\ m.sender_ratchet \in Key /\ m.chain_key \in RootKey
  BY DEF CiphertextMessage
<1>2. /\ Old(fresh', m.sender_identity) /\ Old(fresh', m.receiver_identity)
      /\ Old(fresh', m.sender_ratchet) /\ OldRoot(fresh', m.chain_key)
  BY <1>1, OldGrows DEF MessageFacts, FreshGrows
<1> QED
  BY <1>2 DEF MessageFacts, Remains

LEMMA KeptKeys ==
    ASSUME TypeOK, KeysKnown, FreshGrows, UNCHANGED << identity, kyber, published >>
    PROVE  KeysKnown'
<1> SUFFICES ASSUME NEW p \in Party
             PROVE  /\ Old(fresh', identity[p]) /\ Old(fresh', kyber[p]) /\ kyber[p][1] = p
                    /\ \A i \in DOMAIN published[p] :
                          /\ Old(fresh', published[p][i].identity)
                          /\ Old(fresh', published[p][i].signed)
                          /\ Old(fresh', published[p][i].kyber)
                          /\ published[p][i].kyber[1] = p
  BY DEF KeysKnown
<1>1. identity[p] \in Key /\ kyber[p] \in Key /\ published[p] \in Seq(Installation)
  BY DEF TypeOK
<1>2. \A k \in Key : Old(fresh, k) => Old(fresh', k)
  BY OldGrows DEF FreshGrows
<1>3. Old(fresh', identity[p]) /\ Old(fresh', kyber[p]) /\ kyber[p][1] = p
  BY <1>1, <1>2 DEF KeysKnown
<1>4. ASSUME NEW i \in DOMAIN published[p]
      PROVE  /\ Old(fresh', published[p][i].identity)
             /\ Old(fresh', published[p][i].signed)
             /\ Old(fresh', published[p][i].kyber)
             /\ published[p][i].kyber[1] = p
  <2>1. published[p][i] \in Installation
    BY <1>1
  <2>2. /\ published[p][i].identity \in Key /\ published[p][i].signed \in Key
        /\ published[p][i].kyber \in Key
    BY <2>1 DEF Installation
  <2> QED
    BY <1>2, <2>2 DEF KeysKnown
<1> QED
  BY <1>3, <1>4

LEMMA KnownQuiet ==
    ASSUME Inv, Inv', Known, Quiet, BaseKeysUnique'
    PROVE  Known'
<1>1. TypeOK /\ GoodSessions /\ KeysKnown /\ SessionsKnown /\ MessagesKnown
  BY DEF Inv, Known
<1>2. FreshGrows /\ \A p \in Party : Remains(p)
  BY <1>1 DEF FreshGrows, TypeOK, Quiet, Remains
<1>3. KeysKnown'
  BY <1>1, <1>2, KeptKeys DEF Quiet
<1>4. SessionsKnown'
  <2> SUFFICES ASSUME NEW x \in Party, NEW y \in Party, NEW s \in AllSessions(x, y)'
               PROVE  SessionFacts(x, y, s)'
    BY DEF SessionsKnown
  <2>1. PICK t \in AllSessions(x, y) : SameSession(s, t)
    BY DEF Quiet, KeepsAll
  <2>2. t \in GoodSession /\ SessionFacts(x, y, t)
    BY <1>1, AllSessionsType DEF SessionsKnown
  <2> QED
    BY <1>2, <2>1, <2>2, KeptFacts
<1>5. MessagesKnown'
  <2> SUFFICES ASSUME NEW m \in net PROVE MessageFacts(m)'
    BY DEF MessagesKnown, Quiet
  <2>1. m \in CiphertextMessage /\ m.from \in Party
    BY <1>1 DEF TypeOK, CiphertextMessage
  <2> QED
    BY <1>1, <1>2, <2>1, KeptMessage DEF MessagesKnown
<1> QED
  BY <1>3, <1>4, <1>5 DEF Known

(* After a step that makes u the current session, it is enough to look at  *)
(* u and at the ciphertexts.                                               *)
LEMMA KnownWith ==
    ASSUME Inv, Known, BaseKeysUnique', FreshGrows, \A x \in Party : Remains(x),
           UNCHANGED << identity, kyber, published >>,
           NEW p \in Party, NEW q \in Party, NEW u,
           KeepsOthers(p, q, u), SessionFacts(p, q, u)',
           \A m \in net' \ net : MessageFacts(m)'
    PROVE  Known'
<1>1. TypeOK /\ GoodSessions /\ KeysKnown /\ SessionsKnown /\ MessagesKnown
  BY DEF Inv, Known
<1>2. KeysKnown'
  BY <1>1, KeptKeys
<1>3. SessionsKnown'
  <2> SUFFICES ASSUME NEW x \in Party, NEW y \in Party, NEW s \in AllSessions(x, y)'
               PROVE  SessionFacts(x, y, s)'
    BY DEF SessionsKnown
  <2>1. CASE x = p /\ y = q /\ s = u
    BY <2>1
  <2>2. CASE ~(x = p /\ y = q /\ s = u)
    <3>1. PICK t \in AllSessions(x, y) : SameSession(s, t)
      BY <2>2 DEF KeepsOthers
    <3>2. t \in GoodSession /\ SessionFacts(x, y, t)
      BY <1>1, AllSessionsType DEF SessionsKnown
    <3> QED
      BY <3>1, <3>2, KeptFacts
  <2> QED
    BY <2>1, <2>2
<1>4. MessagesKnown'
  <2> SUFFICES ASSUME NEW m \in net' PROVE MessageFacts(m)'
    BY DEF MessagesKnown
  <2>1. CASE m \in net
    <3>1. m \in CiphertextMessage /\ m.from \in Party
      BY <1>1, <2>1 DEF TypeOK, CiphertextMessage
    <3> QED
      BY <1>1, <2>1, <3>1, KeptMessage DEF MessagesKnown
  <2>2. CASE m \notin net
    BY <2>2
  <2> QED
    BY <2>1, <2>2
<1> QED
  BY <1>2, <1>3, <1>4 DEF Known
LEMMA NewKeyOld ==
    ASSUME TypeOK, NEW p \in Party, NEW n \in Nat, NEW i \in Nat,
           fresh' = [fresh EXCEPT ![p] = @ + n]
    PROVE  /\ FreshGrows
           /\ ~Old(fresh, NewKey(p, i))
           /\ i < n => Old(fresh', NewKey(p, i))
<1>1. fresh \in [Party -> Nat] /\ fresh[p] \in Nat
  BY DEF TypeOK
<1> QED
  BY <1>1 DEF FreshGrows, Old, NewKey

(* The keys that a bundle of q can hold.                                   *)
LEMMA BundleKeys ==
    ASSUME TypeOK, KeysKnown, NEW q \in Party, NEW b \in ServedBundles(q)
    PROVE  /\ Old(fresh, b.identity) /\ Old(fresh, b.signed) /\ Old(fresh, b.kyber)
           /\ b.kyber[1] = q
<1>1. PICK i \in DOMAIN published[q], j \in DOMAIN published[q],
           id \in PreKeyId \cup {None} :
             b = Bundle(published[q][i], published[q][j], id)
  BY DEF ServedBundles
<1> QED
  BY <1>1 DEF Bundle, KeysKnown

LEMMA KnownStarted ==
    ASSUME Inv, Inv', Known, BaseKeysUnique', NEW p \in Party, NEW q \in Party, p # q,
           NEW b \in ServedBundles(q), Started(p, q, b)
    PROVE  Known'
<1>1. TypeOK /\ KeysKnown
  BY DEF Inv, Known
<1>2. PICK u : u = StartedSession(p, b)
  OBVIOUS
<1>3. PICK base \in Key, ratchet \in Key : base = NewKey(p, 0) /\ ratchet = NewKey(p, 1)
  BY <1>1, NewKeyType
<1>4. /\ u \in GoodSession
      /\ u.local_identity = identity[p] /\ u.remote_identity = b.identity
      /\ u.alice_base_key = base /\ u.sender_ratchet = ratchet
      /\ u.sender_chain = [key |-> u.root_key, index |-> 0]
      /\ u.pending = [pre_key_id |-> b.pre_key_id, base_key |-> base,
                      kyber_ciphertext |-> [kyber |-> b.kyber, seed |-> base],
                      timestamp |-> now]
  BY <1>1, <1>2, <1>3, StartedFields
<1>5. PICK x \in Secret :
         /\ x.kem = [kyber |-> b.kyber, seed |-> base]
         /\ u.root_key = create_chain(derive_keys(x), b.signed, ratchet)
         /\ u.pq = [auth |-> x, direction |-> "A2B"]
  BY <1>1, <1>2, <1>3, StartedFields
<1>6. /\ FreshGrows /\ Old(fresh', base) /\ Old(fresh', ratchet)
  <2>1. fresh' = [fresh EXCEPT ![p] = @ + 2]
    BY DEF Started
  <2>2. FreshGrows /\ (0 < 2 => Old(fresh', NewKey(p, 0)))
    BY <1>1, <2>1, NewKeyOld
  <2>3. 1 < 2 => Old(fresh', NewKey(p, 1))
    BY <1>1, <2>1, NewKeyOld
  <2> QED
    BY <1>3, <2>2, <2>3
<1>7. /\ b \in BundleType
      /\ Old(fresh', b.identity) /\ Old(fresh', b.signed) /\ Old(fresh', b.kyber)
      /\ b.kyber[1] = q
  <2>1. b \in BundleType
    BY <1>1, ServedBundlesType
  <2>2. b.identity \in Key /\ b.signed \in Key /\ b.kyber \in Key
    BY <2>1 DEF BundleType
  <2> QED
    BY <1>1, <1>6, <2>1, <2>2, BundleKeys, OldGrows DEF FreshGrows
<1>8. /\ u.root_key.secret = x /\ OldRoot(fresh', u.root_key)
  <2> DEFINE d == derive_keys(x)
  <2>1. d \in RootKey /\ d.secret = x
    BY DeriveKeysType DEF derive_keys
  <2> HIDE DEF d
  <2>2. /\ u.root_key.secret = x /\ u.root_key.path # << >>
        /\ u.root_key.path[Len(u.root_key.path)] = {b.signed, ratchet}
    BY <1>5, <1>7, <2>1, CreateChainEffect DEF BundleType, d
  <2> QED
    BY <1>5, <1>6, <1>7, <2>2 DEF OldRoot
<1>9. kyber[p][1] = p /\ base[1] = p
  BY <1>1, <1>3 DEF KeysKnown, NewKey
<1>10. /\ \A y \in Party : Remains(y)
       /\ UNCHANGED << identity, kyber, published, base_keys_seen, net >>
  BY DEF Started, Remains
<1>11. SessionFacts(p, q, u)'
  <2>1. u.root_key.secret.kem.kyber # kyber[p] /\ u.root_key.secret.kem.seed = base
    BY <1>5, <1>7, <1>8, <1>9
  <2>2. u.pq.auth = x /\ u.pq.direction = "A2B" /\ u.sender_chain.key = u.root_key
    BY <1>4, <1>5
  <2>3. u.pending.base_key = base /\ u.pending.kyber_ciphertext.seed = base
    BY <1>4
  <2> QED
    BY <1>4, <1>6, <1>7, <1>8, <1>9, <1>10, <2>1, <2>2, <2>3 DEF SessionFacts
<1>12. KeepsOthers(p, q, u)
  BY <1>2 DEF Started
<1> QED
  BY <1>6, <1>10, <1>11, <1>12, KnownWith

LEMMA KnownSent ==
    ASSUME Inv, Inv', Known, BaseKeysUnique', NEW p \in Party, NEW q \in Party, p # q,
           Sent(p, q)
    PROVE  Known'
<1>1. TypeOK /\ KeysKnown /\ GoodSessions /\ SessionsKnown
  BY DEF Inv, Known
<1>2. PICK s : s = sessions[p][q].current
  OBVIOUS
<1>3. s \in AllSessions(p, q) /\ s \in GoodSession /\ SessionFacts(p, q, s)
  <2>1. sessions[p][q] \in GoodRecord /\ sessions[p][q].current # None
    BY <1>1 DEF Sent, HasCurrentSession, GoodSessions
  <2>2. 0 \in Places(sessions[p][q]) /\ SessionAt(sessions[p][q], 0) = s
    BY <1>2, <2>1, PlacesOf
  <2>3. s \in AllSessions(p, q)
    BY <2>2 DEF Sent, HasCurrentSession, AllSessions, SessionsOf
  <2> QED
    BY <1>1, <2>3, AllSessionsType DEF SessionsKnown
<1>4. PICK u : u = Moved(s)
  OBVIOUS
<1>5. /\ u.local_identity = s.local_identity /\ u.remote_identity = s.remote_identity
      /\ u.alice_base_key = s.alice_base_key /\ u.root_key = s.root_key
      /\ u.sender_ratchet = s.sender_ratchet /\ u.pq = s.pq /\ u.pending = s.pending
      /\ u.sender_chain.key = s.sender_chain.key
  <2> DEFINE c == [s.sender_chain EXCEPT !.index = s.sender_chain.index + 1]
  <2>1. c.key = s.sender_chain.key
    BY <1>3 DEF GoodSession, SessionStructure, ChainKey
  <2>2. u = [s EXCEPT !.sender_chain = c]
    BY <1>4 DEF Moved
  <2> HIDE DEF c
  <2> QED
    BY <1>3, <2>1, <2>2 DEF GoodSession, SessionStructure
<1>6. /\ FreshGrows /\ \A y \in Party : Remains(y)
      /\ UNCHANGED << identity, kyber, published, base_keys_seen, fresh >>
  BY <1>1 DEF FreshGrows, TypeOK, Sent, Remains
<1>7. SessionFacts(p, q, u)'
  BY <1>3, <1>5, <1>6 DEF SessionFacts
<1>8. PICK m : m = Ciphertext(p, q, s)
  OBVIOUS
<1>9. net' = net \cup {m}
  BY <1>2, <1>8 DEF Sent
<1>10. MessageFacts(m)'
  <2>1. /\ m.from = p /\ m.to = q /\ m.sender_ratchet = s.sender_ratchet
        /\ m.chain_key = s.root_key /\ m.pq = s.pq
        /\ m.sender_identity = identity[p] /\ m.receiver_identity = s.remote_identity
        /\ m.pre = PreKeyPartsOf(s)
    BY <1>3, <1>8 DEF Ciphertext, SessionFacts
  <2>2. m.pre # None =>
           /\ m.pre.base_key = s.alice_base_key
           /\ m.pre.kyber_ciphertext.seed = s.alice_base_key
           /\ s.alice_base_key[1] = p
           /\ m.pre.identity_key = s.local_identity
    BY <1>3, <2>1 DEF PreKeyPartsOf, SessionFacts
  <2>3. Old(fresh, identity[p])
    BY <1>1 DEF KeysKnown
  <2> QED
    BY <1>3, <1>6, <2>1, <2>2, <2>3 DEF MessageFacts, SessionFacts
<1>11. KeepsOthers(p, q, u)
  BY <1>2, <1>4 DEF Sent
<1> QED
  BY <1>6, <1>7, <1>9, <1>10, <1>11, KnownWith
(* The secrets and path lengths of a message and of the session that       *)
(* accepts it.                                                             *)
LEMMA ReceivedRoots ==
    ASSUME Inv, Known, NEW m \in net, NEW s \in GoodSession, NEW u \in GoodSession,
           Received(m, s, u), s.pq.auth = s.root_key.secret
    PROVE  /\ m.chain_key.secret = s.root_key.secret
           /\ u.root_key.secret = s.root_key.secret
           /\ Len(s.root_key.path) \in Nat /\ Len(m.chain_key.path) \in Nat
           /\ OnNewChain(s, m, NewKey(m.to, 0), u) =>
                /\ Len(m.chain_key.path) = Len(s.root_key.path) + 1
                /\ Len(u.root_key.path) = Len(s.root_key.path) + 2
                /\ u.root_key.path # << >>
                /\ u.root_key.path[Len(u.root_key.path)] = {m.sender_ratchet, NewKey(m.to, 0)}
<1>1. /\ m \in CiphertextMessage /\ m.to \in Party /\ m.sender_ratchet \in Key
      /\ m.chain_key \in RootKey /\ NewKey(m.to, 0) \in Key
  BY NewKeyType DEF Inv, TypeOK, CiphertextMessage
<1>2. s.root_key \in RootKey /\ s.sender_ratchet \in Key
  BY DEF GoodSession, SessionStructure
<1>3. Len(s.root_key.path) \in Nat /\ Len(m.chain_key.path) \in Nat
  BY <1>1, <1>2 DEF RootKey
<1>4. m.chain_key.secret = s.root_key.secret
  BY DEF Received, Accepts, pq_ratchet_recv, Known, MessagesKnown, MessageFacts
<1>5. CASE OnOldChain(s, m, u)
  <2>1. u.root_key = s.root_key
    BY <1>5 DEF OnOldChain
  <2>2. ~OnNewChain(s, m, NewKey(m.to, 0), u)
    <3> SUFFICES ASSUME OnNewChain(s, m, NewKey(m.to, 0), u) PROVE FALSE
      OBVIOUS
    <3>1. Len(m.chain_key.path) = Len(s.root_key.path) + 1
      BY <1>1, <1>2, CreateChainEffect DEF OnNewChain
    <3>2. Len(u.root_key.path) = Len(m.chain_key.path) + 1
      BY <1>1, CreateChainEffect DEF OnNewChain
    <3> QED
      BY <1>3, <2>1, <3>1, <3>2
  <2> QED
    BY <1>3, <1>4, <2>1, <2>2
<1>6. CASE OnNewChain(s, m, NewKey(m.to, 0), u)
  <2>1. Len(m.chain_key.path) = Len(s.root_key.path) + 1
    BY <1>1, <1>2, <1>6, CreateChainEffect DEF OnNewChain
  <2>2. /\ u.root_key.secret = m.chain_key.secret
        /\ Len(u.root_key.path) = Len(m.chain_key.path) + 1
        /\ u.root_key.path # << >>
        /\ u.root_key.path[Len(u.root_key.path)] = {m.sender_ratchet, NewKey(m.to, 0)}
    BY <1>1, <1>6, CreateChainEffect DEF OnNewChain
  <2> QED
    BY <1>3, <1>4, <2>1, <2>2
<1> QED
  BY <1>5, <1>6 DEF Received, Accepts

(* What is true of a session that accepts a message, just created or not.  *)
ReceiverFacts(m, s) ==
    /\ s.local_identity = identity[m.to] /\ Old(fresh, s.remote_identity)
    /\ s.pq.auth = s.root_key.secret
    /\ s.root_key.secret.kem.seed = s.alice_base_key
    /\ s.pq.direction = IF s.alice_base_key[1] = m.to THEN "A2B" ELSE "B2A"
    /\ s.root_key.secret.kem.kyber = kyber[m.to]
         => s.alice_base_key \in base_keys_seen'[m.to]
    /\ \/ s.receiver_chains = << >>
       \/ /\ s.sender_chain.key = s.root_key
          /\ OldRoot(fresh, s.root_key) /\ Old(fresh, s.sender_ratchet)

LEMMA KnownReceived ==
    ASSUME Inv, Inv', Known, BaseKeysUnique', NEW m \in net, NEW s \in GoodSession,
           NEW u \in GoodSession, Received(m, s, u), ReceiverFacts(m, s),
           \A x \in Party : base_keys_seen[x] \subseteq base_keys_seen'[x]
    PROVE  Known'
<1>1. TypeOK /\ KeysKnown /\ MessageFacts(m)
  BY DEF Inv, Known, MessagesKnown
<1>2. m \in CiphertextMessage /\ m.to \in Party /\ m.from \in Party
      /\ m.sender_ratchet \in Key /\ m.chain_key \in RootKey
  BY <1>1 DEF TypeOK, CiphertextMessage
<1>3. PICK p \in Party, q \in Party : p = m.to /\ q = m.from
  BY <1>2
<1>4. PICK new \in Key : new = NewKey(m.to, 0)
  BY <1>1, <1>2, NewKeyType
<1>5. FreshGrows /\ Old(fresh', new)
  <2>1. fresh' = [fresh EXCEPT ![m.to] = @ + 1]
    BY DEF Received
  <2>2. FreshGrows /\ (0 < 1 => Old(fresh', NewKey(m.to, 0)))
    BY <1>1, <1>2, <2>1, NewKeyOld
  <2> QED
    BY <1>4, <2>2
<1>6. /\ \A k \in Key : Old(fresh, k) => Old(fresh', k)
      /\ \A k \in RootKey : OldRoot(fresh, k) => OldRoot(fresh', k)
  BY <1>5, OldGrows DEF FreshGrows
<1>7. /\ s.remote_identity \in Key /\ s.sender_ratchet \in Key /\ s.root_key \in RootKey
  BY DEF GoodSession, SessionStructure
<1>8. m.chain_key.secret = s.root_key.secret /\ u.root_key.secret = s.root_key.secret
  BY ReceivedRoots DEF ReceiverFacts
<1>9. /\ u.sender_chain.key = u.root_key
      /\ OldRoot(fresh', u.root_key) /\ Old(fresh', u.sender_ratchet)
  <2>1. CASE OnOldChain(s, m, u)
    <3>1. s.receiver_chains # << >>
      BY <2>1 DEF OnOldChain
    <3> QED
      BY <1>6, <1>7, <2>1, <3>1 DEF OnOldChain, ReceiverFacts
  <2>2. CASE OnNewChain(s, m, NewKey(m.to, 0), u)
    <3>1. /\ u.root_key.path # << >>
          /\ u.root_key.path[Len(u.root_key.path)] = {m.sender_ratchet, new}
      BY <1>4, <2>2, ReceivedRoots DEF ReceiverFacts
    <3>2. Old(fresh', m.sender_ratchet)
      BY <1>1, <1>2, <1>6 DEF MessageFacts
    <3>3. OldRoot(fresh', m.chain_key)
      BY <1>1, <1>2, <1>6 DEF MessageFacts
    <3>4. OldRoot(fresh', u.root_key)
      BY <1>5, <1>8, <3>1, <3>2, <3>3 DEF OldRoot
    <3>5. u.sender_ratchet = new /\ u.sender_chain = [key |-> u.root_key, index |-> 0]
      BY <1>4, <2>2 DEF OnNewChain
    <3> QED
      BY <1>5, <3>4, <3>5
  <2> QED
    BY <2>1, <2>2 DEF Received, Accepts
<1>10. /\ \A x \in Party : Remains(x)
       /\ UNCHANGED << identity, kyber, published, net >>
  BY DEF Received, Remains
<1>11. SessionFacts(p, q, u)'
  <2>1. /\ u.local_identity = s.local_identity /\ u.remote_identity = s.remote_identity
        /\ u.alice_base_key = s.alice_base_key /\ u.pq = s.pq /\ u.pending = None
    BY DEF Received, Accepts
  <2>2. p # q
    BY <1>1, <1>3 DEF MessageFacts
  <2>3. Old(fresh', u.remote_identity)
    BY <1>6, <1>7, <2>1 DEF ReceiverFacts
  <2> QED
    BY <1>3, <1>8, <1>9, <1>10, <2>1, <2>2, <2>3 DEF SessionFacts, ReceiverFacts
<1>12. KeepsOthers(p, q, u)
  BY <1>3 DEF Received
<1> QED
  BY <1>5, <1>10, <1>11, <1>12, KnownWith

LEMMA OldReceiverFacts ==
    ASSUME Inv, Known, NEW m \in net, NEW s, NEW u, ReceivedOnOld(m, s, u)
    PROVE  /\ ReceiverFacts(m, s) /\ s \in GoodSession /\ SessionFacts(m.to, m.from, s)
           /\ m.to \in Party /\ m.from \in Party
           /\ \A x \in Party : base_keys_seen[x] \subseteq base_keys_seen'[x]
<1>1. m.to \in Party /\ m.from \in Party
  BY DEF Inv, TypeOK, CiphertextMessage
<1>2. s \in AllSessions(m.to, m.from) /\ UNCHANGED base_keys_seen
  BY DEF ReceivedOnOld
<1>3. s \in GoodSession /\ SessionFacts(m.to, m.from, s)
  BY <1>1, <1>2, AllSessionsType DEF Inv, Known, SessionsKnown
<1> QED
  BY <1>1, <1>2, <1>3 DEF ReceiverFacts, SessionFacts

LEMMA NewReceiverFacts ==
    ASSUME Inv, Known, NEW m \in net, NEW u, ReceivedOnNew(m, u)
    PROVE  /\ ReceiverFacts(m, CreatedSession(m)) /\ CreatedSession(m) \in GoodSession
           /\ m.to \in Party /\ m.from \in Party
           /\ \A x \in Party : base_keys_seen[x] \subseteq base_keys_seen'[x]
<1> DEFINE s == CreatedSession(m)
<1>1. /\ m.to \in Party /\ m.from \in Party /\ m.pre # None /\ MessageFacts(m)
      /\ base_keys_seen \in [Party -> SUBSET Key]
  BY DEF Inv, TypeOK, CiphertextMessage, ReceivedOnNew, Known, MessagesKnown
<1>2. /\ s \in GoodSession
      /\ s.local_identity = identity[m.to]
      /\ s.remote_identity = m.pre.identity_key
      /\ s.alice_base_key = m.pre.base_key
      /\ s.root_key.secret.kem =
           [kyber |-> kyber[m.to], seed |-> m.pre.kyber_ciphertext.seed]
      /\ s.pq = [auth |-> s.root_key.secret, direction |-> "B2A"]
      /\ s.receiver_chains = << >>
  BY <1>1, CreatedFields DEF Inv
<1> HIDE DEF s
<1>3. base_keys_seen' = [base_keys_seen EXCEPT ![m.to] = @ \cup {m.pre.base_key}]
  BY DEF ReceivedOnNew, mark_kyber_pre_key_used
<1>4. /\ \A x \in Party : base_keys_seen[x] \subseteq base_keys_seen'[x]
      /\ m.pre.base_key \in base_keys_seen'[m.to]
  BY <1>1, <1>3
<1>5. /\ s.root_key.secret.kem.seed = s.alice_base_key
      /\ s.pq.auth = s.root_key.secret /\ s.pq.direction = "B2A"
      /\ s.alice_base_key[1] # m.to /\ Old(fresh, s.remote_identity)
  BY <1>1, <1>2 DEF MessageFacts
<1>6. ReceiverFacts(m, s)
  BY <1>2, <1>4, <1>5 DEF ReceiverFacts
<1> QED
  BY <1>1, <1>2, <1>4, <1>6 DEF s
(* What starting over changes.                                             *)
LEMMA ReinstalledFields ==
    ASSUME Inv, NEW p \in Party, Reinstall(p)
    PROVE  /\ \A x, y \in Party : AllSessions(x, y)' = IF x = p THEN {} ELSE AllSessions(x, y)
           /\ \A x \in Party : x # p => Remains(x) /\ published'[x] = published[x]
                                        /\ pre_keys'[x] = pre_keys[x]
           /\ FreshGrows /\ UNCHANGED << net, delivered, replayed >>
           /\ identity'[p] = << p, fresh[p] >> /\ kyber'[p] = << p, fresh[p] + 2 >>
           /\ base_keys_seen'[p] = {}
           /\ fresh'[p] = fresh[p] + 3 + NumPreKeys
           /\ published'[p] = Append(published[p], NewInstallation(p, NewKey(p, 0), fresh[p]))
           /\ NewInstallation(p, NewKey(p, 0), fresh[p]) \in Installation
<1> DEFINE i == NewInstallation(p, NewKey(p, 0), fresh[p])
<1>1. TypeOK /\ GoodSessions
  BY DEF Inv
<1>2. /\ identity' = [identity EXCEPT ![p] = i.identity]
      /\ kyber' = [kyber EXCEPT ![p] = i.kyber]
      /\ pre_keys' = [pre_keys EXCEPT ![p] = i.pre_keys]
      /\ base_keys_seen' = [base_keys_seen EXCEPT ![p] = {}]
      /\ sessions' = [sessions EXCEPT ![p] = [q \in Party |-> None]]
      /\ published' = [published EXCEPT ![p] = Append(published[p], i)]
      /\ fresh' = [fresh EXCEPT ![p] = fresh[p] + KeysPerInstallation]
      /\ UNCHANGED << net, delivered, replayed >>
  BY DEF Reinstall
<1>3. i \in Installation
  BY <1>1, NewKeyType, InstallationType DEF TypeOK
<1>4. i.identity = << p, fresh[p] >> /\ i.kyber = << p, fresh[p] + 2 >>
  <2>1. fresh[p] \in Nat
    BY <1>1 DEF TypeOK
  <2> QED
    BY <2>1 DEF NewInstallation, NewKey
<1> HIDE DEF i
<1>5. \A x, y \in Party : sessions'[x][y] = IF x = p THEN None ELSE sessions[x][y]
  BY <1>1, <1>2 DEF GoodSessions
<1>6. \A x, y \in Party : AllSessions(x, y)' = IF x = p THEN {} ELSE AllSessions(x, y)
  BY <1>5 DEF AllSessions
<1>7. \A x \in Party : x # p => Remains(x) /\ published'[x] = published[x]
                                /\ pre_keys'[x] = pre_keys[x]
  BY <1>1, <1>2 DEF Remains, TypeOK
<1>8. FreshGrows /\ fresh'[p] = fresh[p] + 3 + NumPreKeys
  BY <1>1, <1>2, LimitsAssumption DEF FreshGrows, TypeOK, KeysPerInstallation
<1>9. /\ identity'[p] = i.identity /\ kyber'[p] = i.kyber
      /\ base_keys_seen'[p] = {} /\ published'[p] = Append(published[p], i)
  BY <1>1, <1>2 DEF TypeOK
<1> QED
  BY <1>2, <1>3, <1>4, <1>6, <1>7, <1>8, <1>9 DEF i

LEMMA KnownReinstalled ==
    ASSUME Inv, Inv', Known, BaseKeysUnique', NEW p \in Party, Reinstall(p)
    PROVE  Known'
<1> DEFINE i == NewInstallation(p, NewKey(p, 0), fresh[p])
<1>1. TypeOK /\ GoodSessions /\ KeysKnown /\ SessionsKnown /\ MessagesKnown
  BY DEF Inv, Known
<1>2. fresh[p] \in Nat /\ NumPreKeys \in Nat
  BY <1>1, LimitsAssumption DEF TypeOK
<1>3. /\ \A k \in Key : Old(fresh, k) => Old(fresh', k)
      /\ FreshGrows
  BY ReinstalledFields, OldGrows DEF FreshGrows
<1>4. /\ i.identity = << p, fresh[p] >> /\ i.signed = << p, fresh[p] + 1 >>
      /\ i.kyber = << p, fresh[p] + 2 >>
  BY <1>2 DEF NewInstallation, NewKey
<1>5. /\ Old(fresh', << p, fresh[p] >>) /\ Old(fresh', << p, fresh[p] + 1 >>)
      /\ Old(fresh', << p, fresh[p] + 2 >>)
  <2>1. fresh'[p] = fresh[p] + 3 + NumPreKeys
    BY ReinstalledFields
  <2> QED
    BY <1>2, <2>1 DEF Old
<1> HIDE DEF i
<1>6. KeysKnown'
  <2> SUFFICES ASSUME NEW x \in Party
               PROVE  /\ Old(fresh', identity'[x]) /\ Old(fresh', kyber'[x])
                      /\ kyber'[x][1] = x
                      /\ \A j \in DOMAIN published'[x] :
                            /\ Old(fresh', published'[x][j].identity)
                            /\ Old(fresh', published'[x][j].signed)
                            /\ Old(fresh', published'[x][j].kyber)
                            /\ published'[x][j].kyber[1] = x
    BY DEF KeysKnown
  <2>1. identity[x] \in Key /\ kyber[x] \in Key /\ published[x] \in Seq(Installation)
    BY <1>1 DEF TypeOK
  <2>2. /\ Old(fresh', identity[x]) /\ Old(fresh', kyber[x]) /\ kyber[x][1] = x
    BY <1>1, <1>3, <2>1 DEF KeysKnown
  <2>3. ASSUME NEW j \in DOMAIN published[x]
        PROVE  /\ Old(fresh', published[x][j].identity)
               /\ Old(fresh', published[x][j].signed)
               /\ Old(fresh', published[x][j].kyber)
               /\ published[x][j].kyber[1] = x
    <3>1. published[x][j] \in Installation
      BY <2>1
    <3>2. /\ published[x][j].identity \in Key /\ published[x][j].signed \in Key
          /\ published[x][j].kyber \in Key
      BY <3>1 DEF Installation
    <3> QED
      BY <1>1, <1>3, <3>2 DEF KeysKnown
  <2>4. CASE x # p
    <3>1. identity'[x] = identity[x] /\ kyber'[x] = kyber[x] /\ published'[x] = published[x]
      BY <2>4, ReinstalledFields DEF Remains
    <3> QED
      BY <2>2, <2>3, <3>1
  <2>5. CASE x = p
    <3>1. /\ identity'[p] = << p, fresh[p] >> /\ kyber'[p] = << p, fresh[p] + 2 >>
          /\ published'[p] = Append(published[p], i) /\ i \in Installation
      BY ReinstalledFields DEF i
    <3>2. ASSUME NEW j \in DOMAIN published'[p]
          PROVE  published'[p][j] = i
                 \/ (j \in DOMAIN published[p] /\ published'[p][j] = published[p][j])
      BY <2>1, <2>5, <3>1
    <3>3. /\ Old(fresh', i.identity) /\ Old(fresh', i.signed) /\ Old(fresh', i.kyber)
          /\ i.kyber[1] = p
      BY <1>4, <1>5
    <3>4. kyber'[p][1] = p
      BY <3>1
    <3> QED
      BY <1>5, <2>3, <2>5, <3>1, <3>2, <3>3, <3>4
  <2> QED
    BY <2>4, <2>5
<1>7. SessionsKnown'
  <2> SUFFICES ASSUME NEW x \in Party, NEW y \in Party, NEW s \in AllSessions(x, y)'
               PROVE  SessionFacts(x, y, s)'
    BY DEF SessionsKnown
  <2>1. x # p /\ s \in AllSessions(x, y) /\ Remains(x)
    BY ReinstalledFields
  <2>2. s \in GoodSession /\ SessionFacts(x, y, s)
    BY <1>1, <2>1, AllSessionsType DEF SessionsKnown
  <2> QED
    BY <1>3, <2>1, <2>2, KeptFacts, SameSessionRefl
<1>8. MessagesKnown'
  <2> SUFFICES ASSUME NEW m \in net PROVE MessageFacts(m)'
    BY ReinstalledFields DEF MessagesKnown
  <2>1. m \in CiphertextMessage /\ m.from \in Party /\ MessageFacts(m)
    BY <1>1 DEF TypeOK, CiphertextMessage, MessagesKnown
  <2>2. CASE m.from # p
    BY <1>3, <2>1, <2>2, KeptMessage, ReinstalledFields
  <2>3. CASE m.from = p
    <3>1. /\ m.sender_identity \in Key /\ m.receiver_identity \in Key
          /\ m.sender_ratchet \in Key /\ m.chain_key \in RootKey
      BY <2>1 DEF CiphertextMessage
    <3>2. /\ Old(fresh', m.sender_identity) /\ Old(fresh', m.receiver_identity)
          /\ Old(fresh', m.sender_ratchet) /\ OldRoot(fresh', m.chain_key)
      BY <1>3, <2>1, <3>1, OldGrows DEF MessageFacts, FreshGrows
    <3>3. Old(fresh, m.chain_key.secret.kem.kyber)
      BY <2>1 DEF MessageFacts, OldRoot
    <3>4. ~Old(fresh, << p, fresh[p] + 2 >>)
      BY <1>2 DEF Old
    <3>5. m.chain_key.secret.kem.kyber # kyber'[m.from]
      BY <2>3, <3>3, <3>4, ReinstalledFields
    <3> QED
      BY <2>1, <3>2, <3>5 DEF MessageFacts
  <2> QED
    BY <2>2, <2>3
<1> QED
  BY <1>6, <1>7, <1>8 DEF Known

LEMMA InitKnown == Init => Known
<1> SUFFICES ASSUME Init PROVE Known
  OBVIOUS
<1>1. \A p, q \in Party : sessions[p][q] = None
  BY DEF Init
<1>2. SessionsKnown /\ MessagesKnown /\ BaseKeysUnique
  BY <1>1 DEF SessionsKnown, MessagesKnown, BaseKeysUnique, AllSessions, Init
<1>3. KeysKnown
  <2> SUFFICES ASSUME NEW p \in Party
               PROVE  /\ Old(fresh, identity[p]) /\ Old(fresh, kyber[p]) /\ kyber[p][1] = p
                      /\ \A i \in DOMAIN published[p] :
                            /\ Old(fresh, published[p][i].identity)
                            /\ Old(fresh, published[p][i].signed)
                            /\ Old(fresh, published[p][i].kyber)
                            /\ published[p][i].kyber[1] = p
    BY DEF KeysKnown
  <2> DEFINE i == FirstInstallation(p)
  <2>1. Account \in Party
    BY DEF Account
  <2>2. /\ i.identity \in {<< Account, 0 >>, << p, 0 >>}
        /\ i.signed = << p, 1 >> /\ i.kyber = << p, 2 >>
    BY DEF FirstInstallation, NewInstallation
  <2>3. /\ identity[p] = i.identity /\ kyber[p] = i.kyber /\ published[p] = << i >>
        /\ \A x \in Party : fresh[x] = 3 + NumPreKeys
    BY DEF Init, KeysPerInstallation
  <2> HIDE DEF i
  <2>4. /\ Old(fresh, i.identity) /\ Old(fresh, i.signed) /\ Old(fresh, i.kyber)
        /\ i.kyber[1] = p
    BY <2>1, <2>2, <2>3, LimitsAssumption DEF Old
  <2>5. \A j \in DOMAIN published[p] : published[p][j] = i
    BY <2>3
  <2> QED
    BY <2>3, <2>4, <2>5
<1> QED
  BY <1>2, <1>3 DEF Known

LEMMA KnownStep == Inv /\ Inv' /\ Known /\ [Next]_vars => Known' /\ Step
<1> SUFFICES ASSUME Inv, Inv', Known, [Next]_vars PROVE Known' /\ Step
  OBVIOUS
<1>1. Step /\ BaseKeysUnique'
  BY NextIsStep
<1>2. ASSUME NEW p \in Party, NEW q \in Party, p # q, NEW b \in ServedBundles(q), Started(p, q, b)
      PROVE  Known'
  BY <1>1, <1>2, KnownStarted
<1>3. ASSUME NEW p \in Party, NEW q \in Party, p # q, Sent(p, q) PROVE Known'
  BY <1>1, <1>3, KnownSent
<1>4. ASSUME NEW m \in net, NEW s \in GoodSession, NEW u \in GoodSession,
             ReceivedOnOld(m, s, u)
      PROVE  Known'
  BY <1>1, <1>4, OldReceiverFacts, KnownReceived DEF ReceivedOnOld
<1>5. ASSUME NEW m \in net, NEW u \in GoodSession, ReceivedOnNew(m, u) PROVE Known'
  BY <1>1, <1>5, NewReceiverFacts, KnownReceived DEF ReceivedOnNew
<1>6. ASSUME NEW p \in Party, Reinstall(p) PROVE Known'
  BY <1>1, <1>6, KnownReinstalled
<1>7. CASE Quiet
  BY <1>1, <1>7, KnownQuiet
<1> QED
  BY <1>1, <1>2, <1>3, <1>4, <1>5, <1>6, <1>7 DEF Step
-----------------------------------------------------------------------------
(***************************************************************************)
(* The first part of the invariant, together with the types and limits of  *)
(* SessionProofs.                                                          *)
(***************************************************************************)
THEOREM SessionKnown == Spec => [](Inv /\ Known)
<1>1. Init => Inv /\ Known
  BY InitInv, InitKnown
<1>2. Inv /\ Known /\ [Next]_vars => (Inv /\ Known)'
  BY NextInv, KnownStep
<1> QED
  BY <1>1, <1>2, PTL DEF Spec

(***************************************************************************)
(* promote_matching_session finds a session by its base key alone: in no   *)
(* reachable record do two sessions, current or archived, have the same.   *)
(***************************************************************************)
THEOREM SessionBaseKeysUnique == Spec => []BaseKeysUnique
<1>1. Inv /\ Known => BaseKeysUnique
  BY DEF Known
<1> QED
  BY <1>1, SessionKnown, PTL
=============================================================================
