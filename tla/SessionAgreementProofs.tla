------------------------ MODULE SessionAgreementProofs ------------------------
(***************************************************************************)
(* The chains of sessions: which device sends on a chain, which keys of it *)
(* were used, and how the two ends of a session stand to each other.  Then *)
(* what the two ends agree on, which pre-keys a session took, which        *)
(* identities it is with, and the channel that sessions implement.         *)
(***************************************************************************)
EXTENDS SessionProofs

-----------------------------------------------------------------------------
(* The second part of the invariant: chains.  Each root key belongs to one *)
(* session, each chain key to one sender, and a sender is past the keys it *)
(* has used.                                                               *)

RootsUnique ==
    \A p, q, x, y \in Party : \A s \in AllSessions(p, q), t \in AllSessions(x, y) :
        s.root_key = t.root_key => p = x /\ q = y

(* The ciphertexts of the chain that s sends on.                           *)
SentOn(p, q, s) ==
    \A m \in net : m.chain_key = s.root_key =>
        /\ m.from = p /\ m.to = q /\ m.sender_ratchet = s.sender_ratchet
        /\ m.counter < s.sender_chain.index

SendersAhead == \A p, q \in Party : \A s \in AllSessions(p, q) : SentOn(p, q, s)

ChainsOwned ==
    \A m, d \in net : m.chain_key = d.chain_key =>
        m.from = d.from /\ m.sender_ratchet = d.sender_ratchet

(* A receiver chain other than the first of an initiator is that of a      *)
(* message of the peer.                                                    *)
ChainSeen(p, q, c) ==
    \/ c.chain.key.path = << >>
    \/ \E m \in net : /\ m.from = q /\ m.to = p
                      /\ m.chain_key = c.chain.key /\ m.sender_ratchet = c.sender

ChainsSeen ==
    \A p, q \in Party : \A s \in AllSessions(p, q) :
        \A i \in DOMAIN s.receiver_chains : ChainSeen(p, q, s.receiver_chains[i])

(* No session is behind a ciphertext that was sent on it.                  *)
PastSent(s, m) ==
    s.root_key.secret = m.chain_key.secret =>
        \/ Len(m.chain_key.path) < Len(s.root_key.path)
        \/ m.chain_key = s.root_key

SendersPast == \A m \in net : \A s \in AllSessions(m.from, m.to) : PastSent(s, m)

(* The secret of a ciphertext or of a session that is kept.                *)
InUse(x) ==
    \/ \E m \in net : x = m.chain_key.secret
    \/ \E p, q \in Party : \E s \in AllSessions(p, q) : x = s.root_key.secret

OneSecret ==
    \A x, y \in Secret : (InUse(x) /\ InUse(y) /\ x.kem.seed = y.kem.seed) => x = y

Chains ==
    /\ RootsUnique /\ SendersAhead /\ ChainsOwned /\ NoKeyReuse
    /\ ChainsSeen /\ SendersPast /\ OneSecret

(* s sends where t did.                                                    *)
Follows(s, t) ==
    /\ s.root_key = t.root_key /\ s.sender_ratchet = t.sender_ratchet
    /\ s.sender_chain = t.sender_chain

LEMMA ChainsKept ==
    ASSUME Inv, Inv', Chains, ChainsSeen', net' = net,
           \A x, y \in Party : \A s \in AllSessions(x, y)' :
               \E t \in AllSessions(x, y) : Follows(s, t)
    PROVE  Chains'
<1>1. RootsUnique'
  <2> SUFFICES ASSUME NEW p \in Party, NEW q \in Party, NEW x \in Party, NEW y \in Party,
                      NEW s \in AllSessions(p, q)', NEW t \in AllSessions(x, y)',
                      s.root_key = t.root_key
               PROVE  p = x /\ q = y
    BY DEF RootsUnique
  <2> QED
    BY DEF Chains, RootsUnique, Follows
<1>2. SendersAhead'
  <2> SUFFICES ASSUME NEW p \in Party, NEW q \in Party, NEW s \in AllSessions(p, q)'
               PROVE  SentOn(p, q, s)'
    BY DEF SendersAhead
  <2>1. PICK t \in AllSessions(p, q) : Follows(s, t)
    OBVIOUS
  <2>2. SentOn(p, q, t)
    BY DEF Chains, SendersAhead
  <2> QED
    BY <2>1, <2>2 DEF SentOn, Follows
<1>3. ChainsOwned' /\ NoKeyReuse'
  BY DEF Chains, ChainsOwned, NoKeyReuse
<1>4. SendersPast'
  <2> SUFFICES ASSUME NEW m \in net, NEW s \in AllSessions(m.from, m.to)'
               PROVE  PastSent(s, m)
    BY DEF SendersPast
  <2>1. m.from \in Party /\ m.to \in Party
    BY DEF Inv, TypeOK, CiphertextMessage
  <2>2. PICK t \in AllSessions(m.from, m.to) : Follows(s, t)
    BY <2>1
  <2> QED
    BY <2>2 DEF Chains, SendersPast, PastSent, Follows
<1>5. OneSecret'
  <2> SUFFICES ASSUME NEW x \in Secret, NEW y \in Secret, InUse(x)', InUse(y)',
                      x.kem.seed = y.kem.seed
               PROVE  x = y
    BY DEF OneSecret
  <2>1. \A z \in {x, y} : InUse(z)
    BY DEF InUse, Follows
  <2> QED
    BY <2>1 DEF Chains, OneSecret
<1> QED
  BY <1>1, <1>2, <1>3, <1>4, <1>5 DEF Chains

(* A session whose root key is new takes the place of what was there for   *)
(* its base key.                                                           *)
LEMMA ChainsNewRoot ==
    ASSUME Inv, Inv', Chains, ChainsSeen', net' = net,
           NEW p \in Party, NEW q \in Party, NEW u \in GoodSession, KeepsOthers(p, q, u),
           \A m \in net : m.chain_key # u.root_key,
           \A x, y \in Party : \A t \in AllSessions(x, y) : t.root_key # u.root_key,
           \A m \in net : (m.from = p /\ m.to = q) => PastSent(u, m),
           \/ InUse(u.root_key.secret)
           \/ \A x \in Secret : InUse(x) => x.kem.seed # u.root_key.secret.kem.seed
    PROVE  Chains'
<1>1. RootsUnique'
  <2> SUFFICES ASSUME NEW a \in Party, NEW b \in Party, NEW x \in Party, NEW y \in Party,
                      NEW s \in AllSessions(a, b)', NEW t \in AllSessions(x, y)',
                      s.root_key = t.root_key
               PROVE  a = x /\ b = y
    BY DEF RootsUnique
  <2>1. \/ a = p /\ b = q /\ s = u
        \/ \E v \in AllSessions(a, b) : v.root_key = s.root_key
    BY DEF KeepsOthers, SameSession
  <2>2. \/ x = p /\ y = q /\ t = u
        \/ \E v \in AllSessions(x, y) : v.root_key = t.root_key
    BY DEF KeepsOthers, SameSession
  <2> QED
    BY <2>1, <2>2 DEF Chains, RootsUnique
<1>2. SendersAhead'
  <2> SUFFICES ASSUME NEW x \in Party, NEW y \in Party, NEW s \in AllSessions(x, y)'
               PROVE  SentOn(x, y, s)'
    BY DEF SendersAhead
  <2>1. CASE s = u
    BY <2>1 DEF SentOn
  <2>2. CASE s # u
    <3>1. PICK t \in AllSessions(x, y) : SameSession(s, t)
      BY <2>2 DEF KeepsOthers
    <3>2. SentOn(x, y, t)
      BY DEF Chains, SendersAhead
    <3> QED
      BY <3>1, <3>2 DEF SentOn, SameSession
  <2> QED
    BY <2>1, <2>2
<1>3. ChainsOwned' /\ NoKeyReuse'
  BY DEF Chains, ChainsOwned, NoKeyReuse
<1>4. SendersPast'
  <2> SUFFICES ASSUME NEW m \in net, NEW s \in AllSessions(m.from, m.to)'
               PROVE  PastSent(s, m)
    BY DEF SendersPast
  <2>1. m.from \in Party /\ m.to \in Party
    BY DEF Inv, TypeOK, CiphertextMessage
  <2>2. CASE m.from = p /\ m.to = q /\ s = u
    BY <2>2
  <2>3. CASE ~(m.from = p /\ m.to = q /\ s = u)
    <3>1. PICK t \in AllSessions(m.from, m.to) : SameSession(s, t)
      BY <2>1, <2>3 DEF KeepsOthers
    <3> QED
      BY <3>1 DEF Chains, SendersPast, PastSent, SameSession
  <2> QED
    BY <2>2, <2>3
<1>5. OneSecret'
  <2> SUFFICES ASSUME NEW x \in Secret, NEW y \in Secret, InUse(x)', InUse(y)',
                      x.kem.seed = y.kem.seed
               PROVE  x = y
    BY DEF OneSecret
  <2>1. \A z \in {x, y} : InUse(z) \/ z = u.root_key.secret
    <3> SUFFICES ASSUME NEW z \in {x, y}, z # u.root_key.secret PROVE InUse(z)
      OBVIOUS
    <3>1. InUse(z)'
      OBVIOUS
    <3>2. CASE \E m \in net' : z = m.chain_key.secret
      BY <3>2 DEF InUse
    <3>3. CASE \E a, b \in Party : \E s \in AllSessions(a, b)' : z = s.root_key.secret
      <4>1. PICK a \in Party, b \in Party : \E s \in AllSessions(a, b)' : z = s.root_key.secret
        BY <3>3
      <4>2. PICK s \in AllSessions(a, b)' : z = s.root_key.secret
        BY <4>1
      <4>3. PICK t \in AllSessions(a, b) : SameSession(s, t)
        BY <4>2 DEF KeepsOthers
      <4> QED
        BY <4>2, <4>3 DEF InUse, SameSession
    <3> QED
      BY <3>1, <3>2, <3>3 DEF InUse
  <2> QED
    BY <2>1 DEF Chains, OneSecret
<1> QED
  BY <1>1, <1>2, <1>3, <1>4, <1>5 DEF Chains
(* Chains once seen stay seen; only those of the new session are to be     *)
(* looked at.                                                              *)
LEMMA SeenKept ==
    ASSUME NEW p \in Party, NEW q \in Party, NEW s, NEW t, net \subseteq net',
           SameSession(s, t), \A i \in DOMAIN t.receiver_chains : ChainSeen(p, q, t.receiver_chains[i])
    PROVE  \A i \in DOMAIN s.receiver_chains : ChainSeen(p, q, s.receiver_chains[i])'
BY DEF ChainSeen, SameSession

LEMMA SeenWith ==
    ASSUME ChainsSeen, net \subseteq net', NEW p \in Party, NEW q \in Party, NEW u,
           KeepsOthers(p, q, u),
           \A i \in DOMAIN u.receiver_chains : ChainSeen(p, q, u.receiver_chains[i])'
    PROVE  ChainsSeen'
<1> SUFFICES ASSUME NEW x \in Party, NEW y \in Party, NEW s \in AllSessions(x, y)'
             PROVE  \A i \in DOMAIN s.receiver_chains : ChainSeen(x, y, s.receiver_chains[i])'
  BY DEF ChainsSeen
<1>1. CASE x = p /\ y = q /\ s = u
  BY <1>1
<1>2. CASE ~(x = p /\ y = q /\ s = u)
  <2>1. PICK t \in AllSessions(x, y) : SameSession(s, t)
    BY <1>2 DEF KeepsOthers
  <2> QED
    BY <2>1, SeenKept DEF ChainsSeen
<1> QED
  BY <1>1, <1>2

LEMMA SeenQuiet ==
    ASSUME ChainsSeen, net' = net, KeepsAll
    PROVE  ChainsSeen'
<1> SUFFICES ASSUME NEW x \in Party, NEW y \in Party, NEW s \in AllSessions(x, y)'
             PROVE  \A i \in DOMAIN s.receiver_chains : ChainSeen(x, y, s.receiver_chains[i])'
  BY DEF ChainsSeen
<1>1. PICK t \in AllSessions(x, y) : SameSession(s, t)
  BY DEF KeepsAll
<1> QED
  BY <1>1, SeenKept DEF ChainsSeen

(* The chains of a session that accepted a message.                        *)
LEMMA SeenReceived ==
    ASSUME Inv, ChainsSeen, NEW m \in net, NEW s, NEW u, Received(m, s, u),
           \A i \in DOMAIN s.receiver_chains : ChainSeen(m.to, m.from, s.receiver_chains[i])
    PROVE  ChainsSeen'
<1>1. PICK p \in Party, q \in Party : p = m.to /\ q = m.from
  BY DEF Inv, TypeOK, CiphertextMessage
<1>2. KeepsOthers(p, q, u) /\ net' = net
  BY <1>1 DEF Received
<1>3. ASSUME NEW j \in DOMAIN u.receiver_chains
      PROVE  ChainSeen(p, q, u.receiver_chains[j])'
  <2>1. ChainAfter(s, m, u.receiver_chains[j])
    BY DEF Received, Accepts
  <2> QED
    BY <1>1, <1>2, <2>1 DEF ChainAfter, ChainSeen
<1> QED
  BY <1>1, <1>2, <1>3, SeenWith

LEMMA ChainsQuiet ==
    ASSUME Inv, Inv', Chains, Quiet
    PROVE  Chains'
<1>1. KeepsAll /\ net' = net /\ ChainsSeen
  BY DEF Quiet, Chains
<1>2. \A x, y \in Party : \A s \in AllSessions(x, y)' :
         \E t \in AllSessions(x, y) : Follows(s, t)
  BY <1>1 DEF KeepsAll, SameSession, Follows
<1> QED
  BY <1>1, <1>2, SeenQuiet, ChainsKept

LEMMA ChainsReinstalled ==
    ASSUME Inv, Inv', Chains, NEW p \in Party, Reinstall(p)
    PROVE  Chains'
<1>1. /\ net' = net
      /\ \A x, y \in Party : \A s \in AllSessions(x, y)' : s \in AllSessions(x, y)
  BY ReinstalledFields
<1>2. \A x, y \in Party : \A s \in AllSessions(x, y)' :
         \E t \in AllSessions(x, y) : Follows(s, t)
  BY <1>1 DEF Follows
<1>3. ChainsSeen'
  BY <1>1 DEF Chains, ChainsSeen, ChainSeen
<1> QED
  BY <1>1, <1>2, <1>3, ChainsKept

(* A root key whose last step is made with a key not generated before is   *)
(* none that exists.                                                       *)
LEMMA NewRootIsNew ==
    ASSUME Known, NEW k, k.path # << >> => \E x \in k.path[Len(k.path)] : ~Old(fresh, x)
    PROVE  /\ \A m \in net : m.chain_key # k
           /\ \A x, y \in Party : \A t \in AllSessions(x, y) : t.root_key # k
BY DEF Known, SessionsKnown, MessagesKnown, SessionFacts, MessageFacts, OldRoot

LEMMA ChainsStarted ==
    ASSUME Inv, Inv', Known, Chains, NEW p \in Party, NEW q \in Party, p # q,
           NEW b \in ServedBundles(q), Started(p, q, b)
    PROVE  Chains'
<1>1. TypeOK
  BY DEF Inv
<1>2. PICK u : u = StartedSession(p, b)
  OBVIOUS
<1>3. PICK base \in Key, ratchet \in Key : base = NewKey(p, 0) /\ ratchet = NewKey(p, 1)
  BY <1>1, NewKeyType
<1>4. PICK x \in Secret :
         /\ x.kem = [kyber |-> b.kyber, seed |-> base]
         /\ u.root_key = create_chain(derive_keys(x), b.signed, ratchet)
         /\ u.receiver_chains =
              << [sender |-> b.signed, chain |-> [key |-> derive_keys(x), index |-> 0],
                  message_keys |-> {}] >>
  BY <1>1, <1>2, <1>3, StartedFields
<1>5. u \in GoodSession /\ KeepsOthers(p, q, u) /\ net' = net
  BY <1>1, <1>2, StartedFields DEF Started
<1>6. ~Old(fresh, base) /\ ~Old(fresh, ratchet)
  BY <1>1, <1>3 DEF NewKey, Old, TypeOK
<1>7. ChainsSeen'
  <2>1. \A i \in DOMAIN u.receiver_chains : u.receiver_chains[i].chain.key.path = << >>
    BY <1>4 DEF derive_keys
  <2>2. \A i \in DOMAIN u.receiver_chains : ChainSeen(p, q, u.receiver_chains[i])'
    BY <2>1 DEF ChainSeen
  <2> QED
    BY <1>5, <2>2, SeenWith DEF Chains
<1>8. u.root_key.secret.kem.seed = base /\ u.root_key.secret \in Secret
  <2> DEFINE d == derive_keys(x)
  <2>1. d \in RootKey /\ d.secret = x
    BY DeriveKeysType DEF derive_keys
  <2>2. b.signed \in Key
    BY <1>1, ServedBundlesType DEF BundleType
  <2> HIDE DEF d
  <2>3. u.root_key.secret = x
    BY <1>4, <2>1, <2>2, CreateChainEffect DEF d
  <2> QED
    BY <1>4, <2>3
<1>9. \A y \in Secret : InUse(y) => y.kem.seed # base
  BY <1>6 DEF InUse, Known, SessionsKnown, MessagesKnown, SessionFacts, MessageFacts, OldRoot
<1>10. /\ \A m \in net : m.chain_key.secret # u.root_key.secret
       /\ \A y, z \in Party : \A t \in AllSessions(y, z) : t.root_key.secret # u.root_key.secret
  BY <1>8, <1>9 DEF InUse
<1>11. /\ \A m \in net : m.chain_key # u.root_key
       /\ \A y, z \in Party : \A t \in AllSessions(y, z) : t.root_key # u.root_key
       /\ \A m \in net : PastSent(u, m)
  BY <1>10 DEF PastSent
<1> QED
  BY <1>5, <1>7, <1>8, <1>9, <1>11, ChainsNewRoot
LEMMA MessageType ==
    ASSUME Inv, NEW m \in net
    PROVE  /\ m \in CiphertextMessage /\ m.from \in Party /\ m.to \in Party
           /\ m.sender_ratchet \in Key /\ m.counter \in Nat /\ m.chain_key \in RootKey
           /\ m.chain_key.secret \in Secret /\ Len(m.chain_key.path) \in Nat
<1>1. m \in CiphertextMessage
  BY DEF Inv, TypeOK
<1>2. m.chain_key \in RootKey
  BY <1>1 DEF CiphertextMessage
<1>3. m.chain_key.secret \in Secret /\ m.chain_key.path \in Seq(SUBSET Key)
  BY <1>2 DEF RootKey
<1> QED
  BY <1>1, <1>2, <1>3 DEF CiphertextMessage

LEMMA SessionType ==
    ASSUME NEW s \in GoodSession
    PROVE  /\ s \in SessionStructure /\ s.root_key \in RootKey /\ s.sender_ratchet \in Key
           /\ s.root_key.secret \in Secret /\ Len(s.root_key.path) \in Nat
           /\ s.sender_chain.index \in Nat
<1>1. s \in SessionStructure
  BY DEF GoodSession
<1>2. s.root_key \in RootKey /\ s.sender_chain \in ChainKey
  BY <1>1 DEF SessionStructure
<1>3. s.root_key.secret \in Secret /\ s.root_key.path \in Seq(SUBSET Key)
  BY <1>2 DEF RootKey
<1> QED
  BY <1>1, <1>2, <1>3 DEF SessionStructure, ChainKey

LEMMA ChainsReceived ==
    ASSUME Inv, Inv', Known, Chains, NEW m \in net, NEW s \in GoodSession,
           NEW u \in GoodSession, Received(m, s, u), s.pq.auth = s.root_key.secret,
           \/ s \in AllSessions(m.to, m.from)
           \/ /\ s.receiver_chains = << >>
              /\ \A d \in net : (d.from = m.to /\ d.to = m.from)
                                   => d.chain_key.secret # s.root_key.secret
    PROVE  Chains'
<1>1. PICK p \in Party, q \in Party : p = m.to /\ q = m.from
  BY DEF Inv, TypeOK, CiphertextMessage
<1>2. KeepsOthers(p, q, u) /\ net' = net
  BY <1>1 DEF Received
<1>3. ChainsSeen'
  <2>1. ChainsSeen
    BY DEF Chains
  <2>2. \A i \in DOMAIN s.receiver_chains : ChainSeen(m.to, m.from, s.receiver_chains[i])
    BY <1>1, <2>1 DEF ChainsSeen
  <2> QED
    BY <2>1, <2>2, SeenReceived
<1>4. CASE OnOldChain(s, m, u)
  <2>1. s \in AllSessions(p, q) /\ Follows(u, s)
    BY <1>1, <1>4 DEF OnOldChain, Follows
  <2>2. \A x, y \in Party : \A v \in AllSessions(x, y)' :
           \E t \in AllSessions(x, y) : Follows(v, t)
    BY <1>2, <2>1 DEF KeepsOthers, SameSession, Follows
  <2> QED
    BY <1>2, <1>3, <2>2, ChainsKept
<1>5. CASE OnNewChain(s, m, NewKey(m.to, 0), u)
  <2>1. /\ m.chain_key.secret = s.root_key.secret
        /\ u.root_key.secret = s.root_key.secret
        /\ Len(s.root_key.path) \in Nat
        /\ Len(u.root_key.path) = Len(s.root_key.path) + 2
        /\ u.root_key.path # << >>
        /\ u.root_key.path[Len(u.root_key.path)] = {m.sender_ratchet, NewKey(m.to, 0)}
    BY <1>5, ReceivedRoots
  <2>2. ~Old(fresh, NewKey(m.to, 0))
    BY <1>1 DEF NewKey, Old, Inv, TypeOK
  <2>3. /\ \A d \in net : d.chain_key # u.root_key
        /\ \A x, y \in Party : \A t \in AllSessions(x, y) : t.root_key # u.root_key
    BY <2>1, <2>2, NewRootIsNew
  <2>4. ASSUME NEW d \in net, d.from = p, d.to = q
        PROVE  PastSent(u, d)
    <3>1. CASE s \in AllSessions(m.to, m.from)
      <4>1. PastSent(s, d)
        BY <1>1, <2>4, <3>1 DEF Chains, SendersPast
      <4>2. Len(d.chain_key.path) \in Nat
        BY MessageType
      <4> QED
        BY <2>1, <4>1, <4>2 DEF PastSent
    <3>2. CASE s \notin AllSessions(m.to, m.from)
      BY <1>1, <2>1, <2>4, <3>2 DEF PastSent
    <3> QED
      BY <3>1, <3>2
  <2>5. InUse(u.root_key.secret)
    BY <2>1 DEF InUse
  <2> QED
    BY <1>2, <1>3, <2>3, <2>4, <2>5, ChainsNewRoot
<1> QED
  BY <1>4, <1>5 DEF Received, Accepts

LEMMA ChainsOnOld ==
    ASSUME Inv, Inv', Known, Chains, NEW m \in net, NEW s \in GoodSession,
           NEW u \in GoodSession, ReceivedOnOld(m, s, u)
    PROVE  Chains'
<1>1. s.pq.auth = s.root_key.secret
  BY OldReceiverFacts DEF ReceiverFacts
<1> QED
  BY <1>1, ChainsReceived DEF ReceivedOnOld

LEMMA CreatedUnused ==
    ASSUME Inv, Known, NEW m \in net, NEW u, ReceivedOnNew(m, u), NEW d \in net,
           d.from = m.to
    PROVE  d.chain_key.secret # CreatedSession(m).root_key.secret
<1> DEFINE s == CreatedSession(m)
<1>1. m.pre # None /\ MessageFacts(m) /\ MessageFacts(d)
  BY DEF ReceivedOnNew, Known, MessagesKnown
<1>2. s.root_key.secret.kem = [kyber |-> kyber[m.to], seed |-> m.pre.kyber_ciphertext.seed]
  BY <1>1, CreatedFields DEF Inv
<1> HIDE DEF s
<1>3. /\ s.root_key.secret.kem.kyber = kyber[m.to]
      /\ s.root_key.secret.kem.seed = m.pre.base_key
  BY <1>1, <1>2 DEF MessageFacts
<1>4. m.pre.base_key \notin base_keys_seen[m.to]
  BY DEF ReceivedOnNew, CanMarkKyberPreKey
<1> QED
  BY <1>1, <1>3, <1>4 DEF MessageFacts, s

LEMMA ChainsOnNew ==
    ASSUME Inv, Inv', Known, Chains, NEW m \in net, NEW u \in GoodSession, ReceivedOnNew(m, u)
    PROVE  Chains'
<1>1. PICK s \in GoodSession : s = CreatedSession(m)
  BY NewReceiverFacts
<1>2. s.pq.auth = s.root_key.secret /\ s.receiver_chains = << >> /\ Received(m, s, u)
  <2>1. m.pre # None /\ Received(m, s, u)
    BY <1>1 DEF ReceivedOnNew
  <2>2. s.pq = [auth |-> s.root_key.secret, direction |-> "B2A"] /\ s.receiver_chains = << >>
    BY <1>1, <2>1, CreatedFields DEF Inv
  <2> QED
    BY <2>1, <2>2
<1>3. \A d \in net : (d.from = m.to /\ d.to = m.from)
                        => d.chain_key.secret # s.root_key.secret
  BY <1>1, CreatedUnused
<1> QED
  BY <1>2, <1>3, ChainsReceived

(* What sending does: the session moves on and its ciphertext is released. *)
LEMMA SentFields ==
    ASSUME Inv, Known, NEW p \in Party, NEW q \in Party, Sent(p, q)
    PROVE  \E s \in AllSessions(p, q), u \in GoodSession, m \in CiphertextMessage :
              /\ s = sessions[p][q].current /\ m = Ciphertext(p, q, s)
              /\ s \in GoodSession /\ SessionFacts(p, q, s)
              /\ u.alice_base_key = s.alice_base_key /\ u.root_key = s.root_key
              /\ u.sender_ratchet = s.sender_ratchet
              /\ u.receiver_chains = s.receiver_chains
              /\ u.pq = s.pq /\ u.pending = s.pending
              /\ u.sender_chain.key = s.root_key
              /\ u.sender_chain.index = s.sender_chain.index + 1
              /\ m.from = p /\ m.to = q /\ m.counter = s.sender_chain.index
              /\ m.chain_key = s.root_key /\ m.sender_ratchet = s.sender_ratchet
              /\ m.pq = s.pq /\ m.pre = PreKeyPartsOf(s)
              /\ m.sender_identity = s.local_identity
              /\ m.receiver_identity = s.remote_identity
              /\ net' = net \cup {m}
              /\ KeepsOthers(p, q, u) /\ CurrentAfter(p, q, u)
<1>1. PICK s : s = sessions[p][q].current
  OBVIOUS
<1>2. s \in AllSessions(p, q) /\ s \in GoodSession /\ SessionFacts(p, q, s)
  <2>1. sessions[p][q] \in GoodRecord /\ sessions[p][q].current # None
    BY DEF Sent, HasCurrentSession, GoodSessions, Inv
  <2>2. 0 \in Places(sessions[p][q]) /\ SessionAt(sessions[p][q], 0) = s
    BY <1>1, <2>1, PlacesOf
  <2>3. s \in AllSessions(p, q)
    BY <2>2 DEF Sent, HasCurrentSession, AllSessions, SessionsOf
  <2> QED
    BY <2>3, AllSessionsType DEF SessionsKnown, Known, Inv
<1>3. PICK u \in GoodSession : u = Moved(s)
  BY <1>2, MovedType
<1>4. PICK m : m = Ciphertext(p, q, s)
  OBVIOUS
<1>5. m \in CiphertextMessage
  BY <1>2, <1>4, CiphertextType DEF Inv
<1>6. /\ u.alice_base_key = s.alice_base_key /\ u.root_key = s.root_key
      /\ u.sender_ratchet = s.sender_ratchet /\ u.receiver_chains = s.receiver_chains
      /\ u.pq = s.pq /\ u.pending = s.pending
      /\ u.sender_chain.key = s.sender_chain.key
      /\ u.sender_chain.index = s.sender_chain.index + 1
  <2> DEFINE c == [s.sender_chain EXCEPT !.index = s.sender_chain.index + 1]
  <2>1. c.key = s.sender_chain.key /\ c.index = s.sender_chain.index + 1
    BY <1>2 DEF GoodSession, SessionStructure, ChainKey
  <2>2. u = [s EXCEPT !.sender_chain = c]
    BY <1>3 DEF Moved
  <2> HIDE DEF c
  <2> QED
    BY <1>2, <2>1, <2>2 DEF GoodSession, SessionStructure
<1>7. /\ m.from = p /\ m.to = q /\ m.counter = s.sender_chain.index
      /\ m.chain_key = s.sender_chain.key /\ m.sender_ratchet = s.sender_ratchet
      /\ m.pq = s.pq /\ m.pre = PreKeyPartsOf(s)
      /\ m.sender_identity = s.local_identity /\ m.receiver_identity = s.remote_identity
  BY <1>4 DEF Ciphertext
<1>8. s.sender_chain.key = s.root_key
  BY <1>2 DEF SessionFacts
<1>9. net' = net \cup {m} /\ KeepsOthers(p, q, u) /\ CurrentAfter(p, q, u)
  BY <1>1, <1>3, <1>4 DEF Sent
<1> QED
  BY <1>1, <1>2, <1>3, <1>4, <1>5, <1>6, <1>7, <1>8, <1>9
LEMMA ChainsSent ==
    ASSUME Inv, Inv', Known, Chains, NEW p \in Party, NEW q \in Party, Sent(p, q)
    PROVE  Chains'
<1>1. PICK s \in AllSessions(p, q), u \in GoodSession, m \in CiphertextMessage :
              /\ s \in GoodSession /\ SessionFacts(p, q, s)
              /\ u.alice_base_key = s.alice_base_key /\ u.root_key = s.root_key
              /\ u.sender_ratchet = s.sender_ratchet
              /\ u.receiver_chains = s.receiver_chains
              /\ u.sender_chain.index = s.sender_chain.index + 1
              /\ m.from = p /\ m.to = q /\ m.counter = s.sender_chain.index
              /\ m.chain_key = s.root_key /\ m.sender_ratchet = s.sender_ratchet
              /\ net' = net \cup {m}
              /\ KeepsOthers(p, q, u)
  BY SentFields
<1>2. /\ RootsUnique /\ SendersAhead /\ ChainsOwned /\ NoKeyReuse
      /\ ChainsSeen /\ SendersPast /\ OneSecret
  BY DEF Chains
<1>3. s.sender_chain.index \in Nat /\ SentOn(p, q, s)
  BY <1>1, <1>2, SessionType DEF SendersAhead
(* A session after the step is u, or one from before with another secret   *)
(* if it is one of p for q.                                                *)
<1>4. ASSUME NEW x \in Party, NEW y \in Party, NEW v \in AllSessions(x, y)',
             ~(x = p /\ y = q /\ v = u)
      PROVE  \E t \in AllSessions(x, y) :
                SameSession(v, t) /\ t.root_key # s.root_key
                /\ (x = p /\ y = q => t.root_key.secret # s.root_key.secret)
  <2>1. PICK t \in AllSessions(x, y) :
               /\ SameSession(v, t)
               /\ (x = p /\ y = q) => t.alice_base_key # s.alice_base_key
    BY <1>1, <1>4 DEF KeepsOthers
  <2>2. t.root_key.secret.kem.seed = t.alice_base_key
    BY DEF Known, SessionsKnown, SessionFacts
  <2>3. s.root_key.secret.kem.seed = s.alice_base_key
    BY <1>1 DEF SessionFacts
  <2>4. t.root_key = s.root_key => x = p /\ y = q
    BY <1>2 DEF RootsUnique
  <2> QED
    BY <2>1, <2>2, <2>3, <2>4
<1>5. \A x, y \in Party : \A v \in AllSessions(x, y)' :
          \E t \in AllSessions(x, y) : v.root_key = t.root_key
  BY <1>1, <1>4 DEF SameSession
<1>6. RootsUnique'
  <2> SUFFICES ASSUME NEW a \in Party, NEW b \in Party, NEW x \in Party, NEW y \in Party,
                      NEW v \in AllSessions(a, b)', NEW t \in AllSessions(x, y)',
                      v.root_key = t.root_key
               PROVE  a = x /\ b = y
    BY DEF RootsUnique
  <2> QED
    BY <1>2, <1>5 DEF RootsUnique
<1>7. SendersAhead'
  <2> SUFFICES ASSUME NEW x \in Party, NEW y \in Party, NEW v \in AllSessions(x, y)'
               PROVE  SentOn(x, y, v)'
    BY DEF SendersAhead
  <2> SUFFICES ASSUME NEW d \in net', d.chain_key = v.root_key
               PROVE  /\ d.from = x /\ d.to = y /\ d.sender_ratchet = v.sender_ratchet
                      /\ d.counter < v.sender_chain.index
    BY DEF SentOn
  <2>1. d.counter \in Nat
    BY MessageType, <1>1, <1>3
  <2>2. CASE x = p /\ y = q /\ v = u
    <3>1. CASE d \in net
      BY <1>1, <1>3, <2>1, <2>2, <3>1 DEF SentOn
    <3>2. CASE d = m
      BY <1>1, <1>3, <2>2, <3>2
    <3> QED
      BY <1>1, <3>1, <3>2
  <2>3. CASE ~(x = p /\ y = q /\ v = u)
    <3>1. PICK t \in AllSessions(x, y) : SameSession(v, t) /\ t.root_key # s.root_key
      BY <1>4, <2>3
    <3>2. d \in net
      BY <1>1, <3>1 DEF SameSession
    <3> QED
      BY <1>2, <3>1, <3>2 DEF SendersAhead, SentOn, SameSession
  <2> QED
    BY <2>2, <2>3
<1>8. ChainsOwned' /\ NoKeyReuse'
  <2>1. \A d \in net : d.chain_key = m.chain_key =>
            d.from = m.from /\ d.sender_ratchet = m.sender_ratchet /\ d.counter < m.counter
    BY <1>1, <1>3 DEF SentOn
  <2>2. \A d \in net : d.counter \in Nat
    BY MessageType
  <2>3. m.counter \in Nat
    BY <1>1, <1>3
  <2>4. \A d \in net : d.chain_key = m.chain_key => d.counter # m.counter
    BY <2>1, <2>2, <2>3
  <2> QED
    BY <1>1, <1>2, <2>1, <2>4 DEF ChainsOwned, NoKeyReuse
<1>9. ChainsSeen'
  <2>1. \A i \in DOMAIN u.receiver_chains : ChainSeen(p, q, u.receiver_chains[i])
    BY <1>1, <1>2 DEF ChainsSeen
  <2>2. \A i \in DOMAIN u.receiver_chains : ChainSeen(p, q, u.receiver_chains[i])'
    BY <1>1, <2>1 DEF ChainSeen
  <2> QED
    BY <1>1, <1>2, <2>2, SeenWith
<1>10. SendersPast'
  <2> SUFFICES ASSUME NEW d \in net', NEW v \in AllSessions(d.from, d.to)'
               PROVE  PastSent(v, d)
    BY DEF SendersPast
  <2>1. d.from \in Party /\ d.to \in Party
    BY <1>1, MessageType
  <2>2. CASE d.from = p /\ d.to = q /\ v = u
    <3>1. CASE d \in net
      <4>1. PastSent(s, d)
        BY <1>2, <2>2, <3>1 DEF SendersPast
      <4> QED
        BY <1>1, <2>2, <4>1 DEF PastSent
    <3>2. CASE d = m
      BY <1>1, <2>2, <3>2 DEF PastSent
    <3> QED
      BY <1>1, <3>1, <3>2
  <2>3. CASE ~(d.from = p /\ d.to = q /\ v = u)
    <3>1. PICK t \in AllSessions(d.from, d.to) :
               /\ SameSession(v, t)
               /\ (d.from = p /\ d.to = q) => t.root_key.secret # s.root_key.secret
      BY <1>4, <2>1, <2>3
    <3>2. CASE d \in net
      <4>1. PastSent(t, d)
        BY <1>2, <3>1, <3>2 DEF SendersPast
      <4> QED
        BY <3>1, <4>1 DEF PastSent, SameSession
    <3>3. CASE d = m
      BY <1>1, <3>1, <3>3 DEF PastSent, SameSession
    <3> QED
      BY <1>1, <3>2, <3>3
  <2> QED
    BY <2>2, <2>3
<1>11. OneSecret'
  <2> SUFFICES ASSUME NEW x \in Secret, NEW y \in Secret, InUse(x)', InUse(y)',
                      x.kem.seed = y.kem.seed
               PROVE  x = y
    BY DEF OneSecret
  <2>1. \A z \in {x, y} : InUse(z)
    <3> SUFFICES ASSUME NEW z \in {x, y} PROVE InUse(z)
      OBVIOUS
    <3>1. InUse(z)'
      OBVIOUS
    <3>2. CASE \E d \in net' : z = d.chain_key.secret
      BY <1>1, <3>2 DEF InUse
    <3>3. CASE \E a, b \in Party : \E v \in AllSessions(a, b)' : z = v.root_key.secret
      BY <1>5, <3>3 DEF InUse
    <3> QED
      BY <3>1, <3>2, <3>3 DEF InUse
  <2> QED
    BY <1>2, <2>1 DEF OneSecret
<1> QED
  BY <1>6, <1>7, <1>8, <1>9, <1>10, <1>11 DEF Chains

LEMMA InitChains == Init => Chains
<1> SUFFICES ASSUME Init PROVE Chains
  OBVIOUS
<1>1. net = {} /\ \A p, q \in Party : AllSessions(p, q) = {}
  BY DEF Init, AllSessions
<1> QED
  BY <1>1 DEF Chains, RootsUnique, SendersAhead, ChainsOwned, NoKeyReuse, ChainsSeen,
              SendersPast, OneSecret, InUse

LEMMA ChainsStep == Inv /\ Inv' /\ Known /\ Step /\ Chains => Chains'
<1> SUFFICES ASSUME Inv, Inv', Known, Step, Chains PROVE Chains'
  OBVIOUS
<1>1. ASSUME NEW p \in Party, NEW q \in Party, p # q, NEW b \in ServedBundles(q), Started(p, q, b)
      PROVE  Chains'
  BY <1>1, ChainsStarted
<1>2. ASSUME NEW p \in Party, NEW q \in Party, Sent(p, q) PROVE Chains'
  BY <1>2, ChainsSent
<1>3. ASSUME NEW m \in net, NEW s \in GoodSession, NEW u \in GoodSession,
             ReceivedOnOld(m, s, u)
      PROVE  Chains'
  BY <1>3, ChainsOnOld
<1>4. ASSUME NEW m \in net, NEW u \in GoodSession, ReceivedOnNew(m, u) PROVE Chains'
  BY <1>4, ChainsOnNew
<1>5. ASSUME NEW p \in Party, Reinstall(p) PROVE Chains'
  BY <1>5, ChainsReinstalled
<1>6. CASE Quiet
  BY <1>6, ChainsQuiet
<1> QED
  BY <1>1, <1>2, <1>3, <1>4, <1>5, <1>6 DEF Step

-----------------------------------------------------------------------------
(* The third part of the invariant: what was delivered.                    *)

(* No chain is ahead of the session that keeps it.                         *)
Behind(s) ==
    \A i \in DOMAIN s.receiver_chains :
        /\ s.receiver_chains[i].chain.key.secret = s.root_key.secret
        /\ Len(s.receiver_chains[i].chain.key.path) <= Len(s.root_key.path)

ChainsBehind == \A p, q \in Party : \A s \in AllSessions(p, q) : Behind(s)

(* Session s will not accept m: it has ratcheted past m's chain, or knows  *)
(* that m's key was used.                                                  *)
Taken(s, m) ==
    s.root_key.secret = m.chain_key.secret =>
        /\ Len(m.chain_key.path) <= Len(s.root_key.path)
        /\ \A i \in DOMAIN s.receiver_chains :
              s.receiver_chains[i].chain.key = m.chain_key =>
                  IsDuplicate(s.receiver_chains[i], m.counter)

ReceiversPast == \A m \in delivered : \A s \in AllSessions(m.to, m.from) : Taken(s, m)

(* The base key of an initiator whose message was delivered is marked,     *)
(* until the device starts over.                                           *)
DeliveredSeen ==
    \A m \in delivered : m.chain_key.secret.kem.kyber = kyber[m.to] =>
        m.chain_key.secret.kem.seed \in base_keys_seen[m.to]

Delivery == ChainsBehind /\ ReceiversPast /\ DeliveredSeen /\ AtMostOnce

(* Steps that deliver nothing.                                             *)
LEMMA DeliveryKept ==
    ASSUME Inv, Delivery, UNCHANGED << delivered, replayed, kyber >>,
           \A x \in Party : base_keys_seen[x] \subseteq base_keys_seen'[x],
           \A x, y \in Party : \A s \in AllSessions(x, y)' :
              \/ \E t \in AllSessions(x, y) : /\ s.root_key = t.root_key
                                              /\ s.receiver_chains = t.receiver_chains
              \/ Behind(s) /\ \A m \in delivered : s.root_key.secret # m.chain_key.secret
    PROVE  Delivery'
<1>1. ChainsBehind'
  BY DEF Delivery, ChainsBehind, Behind
<1>2. ReceiversPast'
  <2> SUFFICES ASSUME NEW m \in delivered, NEW s \in AllSessions(m.to, m.from)'
               PROVE  Taken(s, m)
    BY DEF ReceiversPast
  <2>1. m.to \in Party /\ m.from \in Party
    BY MessageType DEF Inv, TypeOK
  <2>2. CASE \E t \in AllSessions(m.to, m.from) :
                s.root_key = t.root_key /\ s.receiver_chains = t.receiver_chains
    BY <2>2 DEF Delivery, ReceiversPast, Taken
  <2>3. CASE s.root_key.secret # m.chain_key.secret
    BY <2>3 DEF Taken
  <2> QED
    BY <2>1, <2>2, <2>3
<1>3. DeliveredSeen'
  <2> SUFFICES ASSUME NEW m \in delivered, m.chain_key.secret.kem.kyber = kyber[m.to]
               PROVE  m.chain_key.secret.kem.seed \in base_keys_seen'[m.to]
    BY DEF DeliveredSeen
  <2>1. m.to \in Party
    BY MessageType DEF Inv, TypeOK
  <2> QED
    BY <2>1 DEF Delivery, DeliveredSeen
<1>4. AtMostOnce'
  BY DEF Delivery, AtMostOnce
<1> QED
  BY <1>1, <1>2, <1>3, <1>4 DEF Delivery

LEMMA DeliveryReinstalled ==
    ASSUME Inv, Known, Delivery, NEW p \in Party, Reinstall(p)
    PROVE  Delivery'
<1>1. /\ UNCHANGED << delivered, replayed >>
      /\ \A x, y \in Party : \A s \in AllSessions(x, y)' : s \in AllSessions(x, y)
      /\ \A x \in Party : x # p => Remains(x)
      /\ kyber'[p] = << p, fresh[p] + 2 >> /\ fresh[p] \in Nat
  BY ReinstalledFields DEF Inv, TypeOK
<1>2. ChainsBehind' /\ AtMostOnce'
  BY <1>1 DEF Delivery, ChainsBehind, AtMostOnce
<1>3. ReceiversPast'
  <2> SUFFICES ASSUME NEW m \in delivered, NEW s \in AllSessions(m.to, m.from)'
               PROVE  Taken(s, m)
    BY <1>1 DEF ReceiversPast
  <2>1. m.to \in Party /\ m.from \in Party
    BY MessageType DEF Inv, TypeOK
  <2> QED
    BY <1>1, <2>1 DEF Delivery, ReceiversPast
<1>4. DeliveredSeen'
  <2> SUFFICES ASSUME NEW m \in delivered, m.chain_key.secret.kem.kyber = kyber'[m.to]
               PROVE  m.chain_key.secret.kem.seed \in base_keys_seen'[m.to]
    BY <1>1 DEF DeliveredSeen
  <2>1. m.to \in Party /\ m \in net
    BY MessageType DEF Inv, TypeOK
  <2>2. m.to # p
    <3>1. Old(fresh, m.chain_key.secret.kem.kyber)
      BY <2>1 DEF Known, MessagesKnown, MessageFacts, OldRoot
    <3>2. ~Old(fresh, << p, fresh[p] + 2 >>)
      BY <1>1 DEF Old
    <3> QED
      BY <1>1, <3>1, <3>2
  <2> QED
    BY <1>1, <2>1, <2>2 DEF Delivery, DeliveredSeen, Remains
<1> QED
  BY <1>2, <1>3, <1>4 DEF Delivery

(* A chain of the session that accepted m, and another message of it.      *)
LEMMA TakenStays ==
    ASSUME Inv, Known, Chains, NEW m \in net, NEW s \in GoodSession, NEW u \in GoodSession,
           Received(m, s, u), s.pq.auth = s.root_key.secret,
           \A i \in DOMAIN s.receiver_chains : ChainSeen(m.to, m.from, s.receiver_chains[i]),
           NEW d \in net, Taken(s, d)
    PROVE  Taken(u, d)
<1> SUFFICES ASSUME u.root_key.secret = d.chain_key.secret
             PROVE  /\ Len(d.chain_key.path) <= Len(u.root_key.path)
                    /\ \A j \in DOMAIN u.receiver_chains :
                          u.receiver_chains[j].chain.key = d.chain_key =>
                              IsDuplicate(u.receiver_chains[j], d.counter)
  BY DEF Taken
<1>1. /\ m.chain_key.secret = s.root_key.secret
      /\ u.root_key.secret = s.root_key.secret
      /\ Len(s.root_key.path) \in Nat /\ Len(m.chain_key.path) \in Nat
      /\ OnNewChain(s, m, NewKey(m.to, 0), u) =>
           /\ Len(m.chain_key.path) = Len(s.root_key.path) + 1
           /\ Len(u.root_key.path) = Len(s.root_key.path) + 2
  BY ReceivedRoots
<1>2. /\ Len(d.chain_key.path) <= Len(s.root_key.path)
      /\ \A i \in DOMAIN s.receiver_chains :
            s.receiver_chains[i].chain.key = d.chain_key =>
                IsDuplicate(s.receiver_chains[i], d.counter)
  BY <1>1 DEF Taken
<1>3. Len(d.chain_key.path) \in Nat /\ d.counter \in Nat
  BY MessageType
<1>4. OnOldChain(s, m, u) \/ OnNewChain(s, m, NewKey(m.to, 0), u)
  BY DEF Received, Accepts
<1>5. Len(d.chain_key.path) <= Len(u.root_key.path)
  <2>1. CASE OnOldChain(s, m, u)
    BY <1>2, <2>1 DEF OnOldChain
  <2>2. CASE OnNewChain(s, m, NewKey(m.to, 0), u)
    BY <1>1, <1>2, <1>3, <2>2
  <2> QED
    BY <1>4, <2>1, <2>2
<1>6. ASSUME NEW j \in DOMAIN u.receiver_chains,
             u.receiver_chains[j].chain.key = d.chain_key
      PROVE  IsDuplicate(u.receiver_chains[j], d.counter)
  <2>1. ChainAfter(s, m, u.receiver_chains[j])
    BY DEF Received, Accepts
  <2>2. CASE \E i \in DOMAIN s.receiver_chains : u.receiver_chains[j] = s.receiver_chains[i]
    BY <1>2, <1>6, <2>2
  <2>3. CASE ~\E i \in DOMAIN s.receiver_chains : u.receiver_chains[j] = s.receiver_chains[i]
    <3>1. m.chain_key = d.chain_key
      BY <1>6, <2>1, <2>3 DEF ChainAfter
    <3>2. OnOldChain(s, m, u)
      BY <1>1, <1>2, <1>3, <1>4, <3>1
    <3>3. PICK i \in DOMAIN s.receiver_chains : s.receiver_chains[i].chain.key = m.chain_key
      BY <3>2 DEF OnOldChain
    <3>4. m.chain_key.path # << >>
      BY DEF Known, MessagesKnown, MessageFacts, OldRoot
    <3>5. PICK e \in net : e.chain_key = m.chain_key
                           /\ e.sender_ratchet = s.receiver_chains[i].sender
      BY <3>3, <3>4 DEF ChainSeen
    <3>6. s.receiver_chains[i].sender = m.sender_ratchet
      BY <3>5 DEF Chains, ChainsOwned
    <3>7. IsDuplicate(s.receiver_chains[i], d.counter)
      BY <1>2, <3>1, <3>3
    <3> QED
      BY <1>3, <2>1, <2>3, <3>6, <3>7 DEF ChainAfter
  <2> QED
    BY <2>2, <2>3
<1> QED
  BY <1>5, <1>6
(* A session that has taken a message does not accept it.                  *)
LEMMA NotTaken ==
    ASSUME Inv, Known, NEW m \in net, NEW s \in GoodSession, NEW u \in GoodSession,
           Received(m, s, u), s.pq.auth = s.root_key.secret
    PROVE  ~Taken(s, m)
<1> SUFFICES ASSUME Taken(s, m) PROVE FALSE
  OBVIOUS
<1>1. /\ m.chain_key.secret = s.root_key.secret
      /\ Len(s.root_key.path) \in Nat /\ Len(m.chain_key.path) \in Nat
      /\ OnNewChain(s, m, NewKey(m.to, 0), u) =>
           Len(m.chain_key.path) = Len(s.root_key.path) + 1
  BY ReceivedRoots
<1>2. /\ Len(m.chain_key.path) <= Len(s.root_key.path)
      /\ \A i \in DOMAIN s.receiver_chains :
            s.receiver_chains[i].chain.key = m.chain_key =>
                IsDuplicate(s.receiver_chains[i], m.counter)
  BY <1>1 DEF Taken
<1>3. CASE OnOldChain(s, m, u)
  BY <1>2, <1>3 DEF OnOldChain
<1>4. CASE OnNewChain(s, m, NewKey(m.to, 0), u)
  BY <1>1, <1>2, <1>4
<1> QED
  BY <1>3, <1>4 DEF Received, Accepts

(* The session that accepted m has taken it, and is ahead of its chains.   *)
LEMMA TakesIt ==
    ASSUME Inv, Known, NEW m \in net, NEW s \in GoodSession, NEW u \in GoodSession,
           Received(m, s, u), s.pq.auth = s.root_key.secret, Behind(s)
    PROVE  Behind(u) /\ Len(m.chain_key.path) <= Len(u.root_key.path)
<1>1. /\ m.chain_key.secret = s.root_key.secret
      /\ u.root_key.secret = s.root_key.secret
      /\ Len(s.root_key.path) \in Nat /\ Len(m.chain_key.path) \in Nat
      /\ OnNewChain(s, m, NewKey(m.to, 0), u) =>
           /\ Len(m.chain_key.path) = Len(s.root_key.path) + 1
           /\ Len(u.root_key.path) = Len(s.root_key.path) + 2
  BY ReceivedRoots
<1>2. /\ Len(m.chain_key.path) <= Len(u.root_key.path)
      /\ Len(s.root_key.path) <= Len(u.root_key.path)
      /\ Len(u.root_key.path) \in Nat
  <2>1. CASE OnOldChain(s, m, u)
    <3>1. u.root_key = s.root_key
          /\ \E i \in DOMAIN s.receiver_chains : s.receiver_chains[i].chain.key = m.chain_key
      BY <2>1 DEF OnOldChain
    <3> QED
      BY <1>1, <3>1 DEF Behind
  <2>2. CASE OnNewChain(s, m, NewKey(m.to, 0), u)
    BY <1>1, <2>2
  <2> QED
    BY <2>1, <2>2 DEF Received, Accepts
<1>3. ASSUME NEW j \in DOMAIN u.receiver_chains
      PROVE  /\ u.receiver_chains[j].chain.key.secret = u.root_key.secret
             /\ Len(u.receiver_chains[j].chain.key.path) <= Len(u.root_key.path)
  <2>1. ChainAfter(s, m, u.receiver_chains[j])
    BY DEF Received, Accepts
  <2>2. CASE \E i \in DOMAIN s.receiver_chains : u.receiver_chains[j] = s.receiver_chains[i]
    <3>1. PICK i \in DOMAIN s.receiver_chains : u.receiver_chains[j] = s.receiver_chains[i]
      BY <2>2
    <3>2. Len(s.receiver_chains[i].chain.key.path) \in Nat
      <4>1. s.receiver_chains \in Seq(GoodChain)
        BY DEF GoodSession, GoodChains
      <4>2. s.receiver_chains[i] \in GoodChain
        BY <4>1
      <4>3. s.receiver_chains[i].chain.key \in RootKey
        BY <4>2 DEF GoodChain, ReceiverChain, ChainKey
      <4> QED
        BY <4>3 DEF RootKey
    <3>3. /\ s.receiver_chains[i].chain.key.secret = s.root_key.secret
          /\ Len(s.receiver_chains[i].chain.key.path) <= Len(s.root_key.path)
      BY DEF Behind
    <3>4. \A a, b, c \in Nat : (a <= b /\ b <= c) => a <= c
      OBVIOUS
    <3>5. Len(s.receiver_chains[i].chain.key.path) <= Len(u.root_key.path)
      BY <1>1, <1>2, <3>2, <3>3, <3>4
    <3> QED
      BY <1>1, <3>1, <3>3, <3>5
  <2>3. CASE u.receiver_chains[j].chain.key = m.chain_key
    BY <1>1, <1>2, <2>3
  <2> QED
    BY <2>1, <2>2, <2>3 DEF ChainAfter
<1> QED
  BY <1>2, <1>3 DEF Behind

LEMMA DeliveryReceived ==
    ASSUME Inv, Known, Chains, Delivery, NEW m \in net, NEW s \in GoodSession,
           NEW u \in GoodSession, Received(m, s, u), ReceiverFacts(m, s), Behind(s),
           \A i \in DOMAIN s.receiver_chains : ChainSeen(m.to, m.from, s.receiver_chains[i]),
           \A d \in delivered : (d.to = m.to /\ d.from = m.from) => Taken(s, d),
           \A x \in Party : base_keys_seen[x] \subseteq base_keys_seen'[x]
    PROVE  Delivery'
<1>1. PICK p \in Party, q \in Party : p = m.to /\ q = m.from
  BY MessageType
<1>2. KeepsOthers(p, q, u) /\ UNCHANGED kyber /\ Deliver(m)
  BY <1>1 DEF Received
<1>3. /\ s.pq.auth = s.root_key.secret
      /\ s.root_key.secret.kem.seed = s.alice_base_key
      /\ s.root_key.secret.kem.kyber = kyber[m.to]
           => s.alice_base_key \in base_keys_seen'[m.to]
  BY DEF ReceiverFacts
<1>4. /\ delivered \subseteq net
      /\ m \notin delivered
      /\ delivered' = delivered \cup {m} /\ replayed' = replayed
  <2>1. m \notin delivered
    BY <1>3, NotTaken
  <2> QED
    BY <1>2, <2>1 DEF Deliver, Inv, TypeOK
<1>5. /\ m.chain_key.secret = s.root_key.secret
      /\ u.root_key.secret = s.root_key.secret
  BY <1>3, ReceivedRoots
<1>6. Behind(u) /\ Len(m.chain_key.path) <= Len(u.root_key.path)
  BY <1>3, TakesIt
<1>7. ChainsBehind' /\ AtMostOnce'
  <2>1. ChainsBehind'
    <3> SUFFICES ASSUME NEW x \in Party, NEW y \in Party, NEW v \in AllSessions(x, y)'
                 PROVE  Behind(v)
      BY DEF ChainsBehind
    <3>1. v = u \/ \E t \in AllSessions(x, y) : SameSession(v, t)
      BY <1>2 DEF KeepsOthers
    <3> QED
      BY <1>6, <3>1 DEF Delivery, ChainsBehind, Behind, SameSession
  <2> QED
    BY <1>4, <2>1 DEF Delivery, AtMostOnce
<1>8. Taken(u, m)
  <2>1. ASSUME NEW j \in DOMAIN u.receiver_chains,
               u.receiver_chains[j].chain.key = m.chain_key,
               ~IsDuplicate(u.receiver_chains[j], m.counter)
        PROVE  FALSE
    <3>1. ChainAfter(s, m, u.receiver_chains[j])
      BY DEF Received, Accepts
    <3>2. PICK i \in DOMAIN s.receiver_chains : u.receiver_chains[j] = s.receiver_chains[i]
      BY <2>1, <3>1 DEF ChainAfter
    <3>3. m.chain_key.path # << >>
      BY DEF Known, MessagesKnown, MessageFacts, OldRoot
    <3>4. PICK e \in net : e.chain_key = m.chain_key
                           /\ e.sender_ratchet = s.receiver_chains[i].sender
      BY <2>1, <3>2, <3>3 DEF ChainSeen
    <3>5. s.receiver_chains[i].sender = m.sender_ratchet
      BY <3>4 DEF Chains, ChainsOwned
    <3> QED
      BY <2>1, <3>1, <3>2, <3>5 DEF ChainAfter
  <2> QED
    BY <1>6, <2>1 DEF Taken
<1>9. ReceiversPast'
  <2> SUFFICES ASSUME NEW d \in delivered', NEW v \in AllSessions(d.to, d.from)'
               PROVE  Taken(v, d)
    BY DEF ReceiversPast
  <2>1. d \in net /\ d.to \in Party /\ d.from \in Party
    BY <1>4, MessageType
  <2>2. CASE d.to = p /\ d.from = q /\ v = u
    <3>1. CASE d = m
      BY <1>8, <2>2, <3>1
    <3>2. CASE d # m
      <4>1. Taken(s, d)
        BY <1>1, <1>4, <2>2, <3>2
      <4> QED
        BY <1>3, <2>1, <2>2, <4>1, TakenStays
    <3> QED
      BY <3>1, <3>2
  <2>3. CASE ~(d.to = p /\ d.from = q /\ v = u)
    <3>1. PICK t \in AllSessions(d.to, d.from) :
               /\ SameSession(v, t)
               /\ (d.to = p /\ d.from = q) => t.alice_base_key # u.alice_base_key
      BY <1>2, <2>1, <2>3 DEF KeepsOthers
    <3>2. CASE d = m
      <4>1. t.root_key.secret.kem.seed = t.alice_base_key
        BY <2>1 DEF Known, SessionsKnown, SessionFacts
      <4>2. u.alice_base_key = s.alice_base_key
        BY DEF Received, Accepts
      <4>3. v.root_key.secret # m.chain_key.secret
        BY <1>1, <1>3, <1>5, <3>1, <3>2, <4>1, <4>2 DEF SameSession
      <4> QED
        BY <3>2, <4>3 DEF Taken
    <3>3. CASE d # m
      <4>1. Taken(t, d)
        BY <1>4, <3>3 DEF Delivery, ReceiversPast
      <4> QED
        BY <3>1, <4>1 DEF Taken, SameSession
    <3> QED
      BY <3>2, <3>3
  <2> QED
    BY <2>2, <2>3
<1>10. DeliveredSeen'
  <2> SUFFICES ASSUME NEW d \in delivered', d.chain_key.secret.kem.kyber = kyber[d.to]
               PROVE  d.chain_key.secret.kem.seed \in base_keys_seen'[d.to]
    BY <1>2 DEF DeliveredSeen
  <2>1. d.to \in Party
    BY <1>4, MessageType
  <2>2. CASE d = m
    BY <1>3, <1>5, <2>2
  <2>3. CASE d # m
    BY <1>4, <2>1, <2>3 DEF Delivery, DeliveredSeen
  <2> QED
    BY <2>2, <2>3
<1> QED
  BY <1>7, <1>9, <1>10 DEF Delivery
LEMMA DeliveryOnOld ==
    ASSUME Inv, Known, Chains, Delivery, NEW m \in net, NEW s \in GoodSession,
           NEW u \in GoodSession, ReceivedOnOld(m, s, u)
    PROVE  Delivery'
<1>1. /\ ReceiverFacts(m, s) /\ m.to \in Party /\ m.from \in Party
      /\ \A x \in Party : base_keys_seen[x] \subseteq base_keys_seen'[x]
  BY OldReceiverFacts
<1>2. s \in AllSessions(m.to, m.from) /\ Received(m, s, u)
  BY DEF ReceivedOnOld
<1>3. Behind(s) /\ \A d \in delivered : (d.to = m.to /\ d.from = m.from) => Taken(s, d)
  BY <1>1, <1>2 DEF Delivery, ChainsBehind, ReceiversPast
<1>4. \A i \in DOMAIN s.receiver_chains : ChainSeen(m.to, m.from, s.receiver_chains[i])
  BY <1>1, <1>2 DEF Chains, ChainsSeen
<1> QED
  BY <1>1, <1>2, <1>3, <1>4, DeliveryReceived

LEMMA DeliveryOnNew ==
    ASSUME Inv, Known, Chains, Delivery, NEW m \in net, NEW u \in GoodSession,
           ReceivedOnNew(m, u)
    PROVE  Delivery'
<1>1. PICK s \in GoodSession : s = CreatedSession(m)
  BY NewReceiverFacts
<1>2. /\ ReceiverFacts(m, s)
      /\ \A x \in Party : base_keys_seen[x] \subseteq base_keys_seen'[x]
  BY <1>1, NewReceiverFacts
<1>3. Received(m, s, u) /\ m.pre # None /\ MessageFacts(m)
      /\ m.pre.base_key \notin base_keys_seen[m.to]
  BY <1>1 DEF ReceivedOnNew, CanMarkKyberPreKey, Known, MessagesKnown
<1>4. /\ s.receiver_chains = << >>
      /\ s.root_key.secret.kem =
           [kyber |-> kyber[m.to], seed |-> m.pre.kyber_ciphertext.seed]
  BY <1>1, <1>3, CreatedFields DEF Inv
<1>5. Behind(s) /\ \A i \in DOMAIN s.receiver_chains :
                      ChainSeen(m.to, m.from, s.receiver_chains[i])
  BY <1>4 DEF Behind
<1>6. ASSUME NEW d \in delivered, d.to = m.to
      PROVE  Taken(s, d)
  <2>1. /\ s.root_key.secret.kem.kyber = kyber[m.to]
        /\ s.root_key.secret.kem.seed = m.pre.base_key
    BY <1>3, <1>4 DEF MessageFacts
  <2>2. d.chain_key.secret.kem.kyber = kyber[m.to] =>
           d.chain_key.secret.kem.seed \in base_keys_seen[m.to]
    BY <1>6 DEF Delivery, DeliveredSeen
  <2> QED
    BY <1>3, <2>1, <2>2 DEF Taken
<1> QED
  BY <1>2, <1>3, <1>5, <1>6, DeliveryReceived

LEMMA DeliveryStarted ==
    ASSUME Inv, Known, Delivery, NEW p \in Party, NEW q \in Party, NEW b \in ServedBundles(q),
           Started(p, q, b)
    PROVE  Delivery'
<1>1. PICK u : u = StartedSession(p, b)
  OBVIOUS
<1>2. PICK base \in Key, ratchet \in Key : base = NewKey(p, 0) /\ ratchet = NewKey(p, 1)
  BY NewKeyType DEF Inv
<1>3. PICK x \in Secret :
         /\ x.kem = [kyber |-> b.kyber, seed |-> base]
         /\ u.root_key = create_chain(derive_keys(x), b.signed, ratchet)
         /\ u.receiver_chains =
              << [sender |-> b.signed, chain |-> [key |-> derive_keys(x), index |-> 0],
                  message_keys |-> {}] >>
  BY <1>1, <1>2, StartedFields DEF Inv
<1>4. /\ KeepsOthers(p, q, u)
      /\ UNCHANGED << kyber, base_keys_seen, delivered, replayed >>
  BY <1>1 DEF Started
<1>5. /\ u.root_key.secret = x /\ Len(u.root_key.path) = 1
  <2> DEFINE d == derive_keys(x)
  <2>1. d \in RootKey /\ d.secret = x /\ d.path = << >>
    BY DeriveKeysType DEF derive_keys
  <2>2. b.signed \in Key
    BY ServedBundlesType DEF BundleType, Inv
  <2> HIDE DEF d
  <2>3. u.root_key = create_chain(d, b.signed, ratchet)
    BY <1>3 DEF d
  <2>4. u.root_key.secret = x /\ Len(u.root_key.path) = Len(d.path) + 1
    <3>1. ratchet \in Key
      BY <1>2
    <3>2. LET k == create_chain(d, b.signed, ratchet) IN
          k.secret = d.secret /\ Len(k.path) = Len(d.path) + 1
      BY <2>1, <2>2, <3>1, CreateChainEffect
    <3> QED
      BY <2>1, <2>3, <3>2
  <2> QED
    BY <2>1, <2>4
<1>6. Behind(u)
  <2>1. \A i \in DOMAIN u.receiver_chains : u.receiver_chains[i].chain.key = derive_keys(x)
    BY <1>3
  <2>2. derive_keys(x).secret = x /\ Len(derive_keys(x).path) = 0
    BY DEF derive_keys
  <2> QED
    BY <1>5, <2>1, <2>2 DEF Behind
<1>7. ASSUME NEW m \in delivered PROVE u.root_key.secret # m.chain_key.secret
  <2>1. m \in net
    BY DEF Inv, TypeOK
  <2>2. Old(fresh, m.chain_key.secret.kem.seed)
    BY <2>1 DEF Known, MessagesKnown, MessageFacts, OldRoot
  <2>3. ~Old(fresh, base)
    BY <1>2 DEF NewKey, Old, Inv, TypeOK
  <2> QED
    BY <1>3, <1>5, <2>2, <2>3
<1>8. ASSUME NEW y \in Party, NEW z \in Party, NEW s \in AllSessions(y, z)'
      PROVE  \/ \E t \in AllSessions(y, z) : /\ s.root_key = t.root_key
                                             /\ s.receiver_chains = t.receiver_chains
             \/ Behind(s) /\ \A m \in delivered : s.root_key.secret # m.chain_key.secret
  <2>1. s = u \/ \E t \in AllSessions(y, z) : SameSession(s, t)
    BY <1>4 DEF KeepsOthers
  <2> QED
    BY <1>6, <1>7, <2>1 DEF SameSession
<1> QED
  BY <1>4, <1>8, DeliveryKept

LEMMA DeliverySent ==
    ASSUME Inv, Known, Delivery, NEW p \in Party, NEW q \in Party, Sent(p, q)
    PROVE  Delivery'
<1>1. PICK s \in AllSessions(p, q), u \in GoodSession :
         /\ u.root_key = s.root_key /\ u.receiver_chains = s.receiver_chains
         /\ KeepsOthers(p, q, u)
  BY SentFields
<1>2. UNCHANGED << kyber, base_keys_seen, delivered, replayed >>
  BY DEF Sent
<1>3. \A x, y \in Party : \A v \in AllSessions(x, y)' :
         \E t \in AllSessions(x, y) : /\ v.root_key = t.root_key
                                      /\ v.receiver_chains = t.receiver_chains
  BY <1>1 DEF KeepsOthers, SameSession
<1> QED
  BY <1>2, <1>3, DeliveryKept

LEMMA InitDelivery == Init => Delivery
<1> SUFFICES ASSUME Init PROVE Delivery
  OBVIOUS
<1>1. delivered = {} /\ replayed = {} /\ \A p, q \in Party : AllSessions(p, q) = {}
  BY DEF Init, AllSessions
<1> QED
  BY <1>1 DEF Delivery, ChainsBehind, ReceiversPast, DeliveredSeen, AtMostOnce

LEMMA DeliveryStep == Inv /\ Known /\ Step /\ Chains /\ Delivery => Delivery'
<1> SUFFICES ASSUME Inv, Known, Step, Chains, Delivery PROVE Delivery'
  OBVIOUS
<1>1. ASSUME NEW p \in Party, NEW q \in Party, NEW b \in ServedBundles(q), Started(p, q, b)
      PROVE  Delivery'
  BY <1>1, DeliveryStarted
<1>2. ASSUME NEW p \in Party, NEW q \in Party, Sent(p, q) PROVE Delivery'
  BY <1>2, DeliverySent
<1>3. ASSUME NEW m \in net, NEW s \in GoodSession, NEW u \in GoodSession,
             ReceivedOnOld(m, s, u)
      PROVE  Delivery'
  BY <1>3, DeliveryOnOld
<1>4. ASSUME NEW m \in net, NEW u \in GoodSession, ReceivedOnNew(m, u) PROVE Delivery'
  BY <1>4, DeliveryOnNew
<1>5. ASSUME NEW p \in Party, Reinstall(p) PROVE Delivery'
  BY <1>5, DeliveryReinstalled
<1>6. CASE Quiet
  BY <1>6, DeliveryKept DEF Quiet, KeepsAll, SameSession
<1> QED
  BY <1>1, <1>2, <1>3, <1>4, <1>5, <1>6 DEF Step
(* All parts of the invariant up to here hold in every reachable state.    *)
THEOREM SessionDelivery == Spec => [](Inv /\ Known /\ Chains /\ Delivery)
<1>1. Init => Chains /\ Delivery
  BY InitChains, InitDelivery
<1>2. Inv /\ Inv' /\ Known /\ Chains /\ Delivery /\ [Next]_vars => Chains' /\ Delivery'
  BY KnownStep, ChainsStep, DeliveryStep
<1> QED
  BY <1>1, <1>2, SessionKnown, PTL DEF Spec

(* No two ciphertexts are encrypted with the same message key, for every   *)
(* set of devices and every order of the calls, those that fail half-way   *)
(* and sessions that come back from the archive included.                  *)
THEOREM SessionNoKeyReuse == Spec => []NoKeyReuse
<1>1. Inv /\ Known /\ Chains /\ Delivery => NoKeyReuse
  BY DEF Chains
<1> QED
  BY <1>1, SessionDelivery, PTL

(* No ciphertext is decrypted twice, whatever the network repeats and      *)
(* whatever became of the session, the chain or the pre-key it was first   *)
(* decrypted with: a session that was dropped from the archive cannot be   *)
(* created again, because its base key stays marked.                       *)
THEOREM SessionAtMostOnce == Spec => []AtMostOnce
<1>1. Inv /\ Known /\ Chains /\ Delivery => AtMostOnce
  BY DEF Delivery
<1> QED
  BY <1>1, SessionDelivery, PTL

LEMMA ReceiverForgets ==
    ASSUME Inv, Known, Chains, Delivery, NEW m \in delivered,
           NEW s \in AllSessions(m.to, m.from)
    PROVE  ~CanDerive(s, m)
<1>1. m \in net /\ m.to \in Party /\ m.from \in Party /\ m.sender_ratchet \in Key
      /\ m.chain_key \in RootKey /\ Len(m.chain_key.path) \in Nat /\ m.counter \in Nat
  BY MessageType DEF Inv, TypeOK
<1>2. s \in GoodSession /\ SessionFacts(m.to, m.from, s) /\ Behind(s) /\ Taken(s, m)
  BY <1>1, AllSessionsType
  DEF Inv, Known, SessionsKnown, Delivery, ChainsBehind, ReceiversPast
<1>3. s.root_key \in RootKey /\ s.sender_ratchet \in Key /\ Len(s.root_key.path) \in Nat
  BY <1>2, SessionType
<1>4. ASSUME NEW i \in DOMAIN s.receiver_chains,
             s.receiver_chains[i].chain.key = m.chain_key
      PROVE  /\ ~(s.receiver_chains[i].chain.index <= m.counter)
             /\ m.counter \notin s.receiver_chains[i].message_keys
  <2>1. IsDuplicate(s.receiver_chains[i], m.counter)
    BY <1>2, <1>4 DEF Behind, Taken
  <2>2. s.receiver_chains \in Seq(GoodChain)
    BY <1>2 DEF GoodSession, GoodChains
  <2>3. s.receiver_chains[i] \in GoodChain
    BY <2>2
  <2>4. s.receiver_chains[i].chain.index \in Nat
    BY <2>3 DEF GoodChain, ReceiverChain, ChainKey
  <2> QED
    BY <1>1, <2>1, <2>4 DEF IsDuplicate
<1>5. create_chain(s.root_key, m.sender_ratchet, s.sender_ratchet) # m.chain_key
  <2> SUFFICES ASSUME create_chain(s.root_key, m.sender_ratchet, s.sender_ratchet) = m.chain_key
               PROVE  FALSE
    OBVIOUS
  <2>1. m.chain_key.secret = s.root_key.secret
        /\ Len(m.chain_key.path) = Len(s.root_key.path) + 1
    BY <1>1, <1>3, CreateChainEffect
  <2> QED
    BY <1>1, <1>2, <1>3, <2>1 DEF Taken
<1>6. s.sender_chain.key # m.chain_key
  <2>1. m.from # m.to
    BY <1>1 DEF Known, MessagesKnown, MessageFacts
  <2>2. SentOn(m.to, m.from, s) /\ s.sender_chain.key = s.root_key
    BY <1>1, <1>2 DEF Chains, SendersAhead, SessionFacts
  <2> QED
    BY <1>1, <2>1, <2>2 DEF SentOn
<1> QED
  BY <1>4, <1>5, <1>6 DEF CanDerive

LEMMA SenderForgets ==
    ASSUME Inv, Known, Chains, NEW m \in net, NEW s \in AllSessions(m.from, m.to)
    PROVE  ~CanDerive(s, m)
<1>1. m.to \in Party /\ m.from \in Party /\ m.sender_ratchet \in Key
      /\ m.chain_key \in RootKey /\ Len(m.chain_key.path) \in Nat /\ m.counter \in Nat
  BY MessageType
<1>2. /\ s \in GoodSession /\ s.sender_chain.key = s.root_key /\ PastSent(s, m)
      /\ m.from # m.to /\ m.chain_key.path # << >> /\ SentOn(m.from, m.to, s)
  BY <1>1, AllSessionsType
  DEF Inv, Known, SessionsKnown, SessionFacts, MessagesKnown, MessageFacts, OldRoot,
      Chains, SendersPast, SendersAhead
<1>3. /\ s.root_key \in RootKey /\ s.sender_ratchet \in Key /\ Len(s.root_key.path) \in Nat
      /\ s.sender_chain.index \in Nat
  BY <1>2, SessionType
<1>4. ASSUME NEW i \in DOMAIN s.receiver_chains
      PROVE  s.receiver_chains[i].chain.key # m.chain_key
  <2>1. ChainSeen(m.from, m.to, s.receiver_chains[i])
    BY <1>1 DEF Chains, ChainsSeen
  <2> QED
    BY <1>2, <2>1 DEF ChainSeen, Chains, ChainsOwned
<1>5. create_chain(s.root_key, m.sender_ratchet, s.sender_ratchet) # m.chain_key
  <2> SUFFICES ASSUME create_chain(s.root_key, m.sender_ratchet, s.sender_ratchet) = m.chain_key
               PROVE  FALSE
    OBVIOUS
  <2>1. m.chain_key.secret = s.root_key.secret
        /\ Len(m.chain_key.path) = Len(s.root_key.path) + 1
    BY <1>1, <1>3, CreateChainEffect
  <2> QED
    BY <1>1, <1>2, <1>3, <2>1 DEF PastSent
<1>6. s.sender_chain.key = m.chain_key => ~(s.sender_chain.index <= m.counter)
  BY <1>1, <1>2, <1>3 DEF SentOn
<1> QED
  BY <1>4, <1>5, <1>6 DEF CanDerive

(* Forward secrecy of the stored state: after a ciphertext was decrypted,  *)
(* neither end keeps a session, current or archived, from which its key    *)
(* could still be derived.                                                 *)
THEOREM SessionForwardSecrecy == Spec => []ForwardSecrecy
<1>1. Inv /\ Known /\ Chains /\ Delivery => ForwardSecrecy
  <2> SUFFICES ASSUME Inv, Known, Chains, Delivery, NEW m \in delivered,
                      NEW s \in AllSessions(m.to, m.from) \cup AllSessions(m.from, m.to)
               PROVE  ~CanDerive(s, m)
    BY DEF ForwardSecrecy
  <2>1. m \in net
    BY DEF Inv, TypeOK
  <2> QED
    BY <2>1, ReceiverForgets, SenderForgets
<1> QED
  BY <1>1, SessionDelivery, PTL

-----------------------------------------------------------------------------
(* The whole invariant of the modules below.                               *)
Safe == Inv /\ Known /\ Chains /\ Delivery

-----------------------------------------------------------------------------
(* The fourth part of the invariant: the two ends of a session.            *)

OwnBases == \A p, q \in Party : \A s \in AllSessions(p, q) : s.alice_base_key[1] \in {p, q}

(* An initiator has only ratcheted when the responder has sent something.  *)
Heard(q, s) == \E m \in net : m.from = q /\ m.chain_key.secret = s.root_key.secret

Answered ==
    \A p, q \in Party : \A s \in AllSessions(p, q) :
        (s.alice_base_key[1] = p /\ Len(s.root_key.path) > 1) => Heard(q, s)

(* When t is not behind s, it is one step ahead.                           *)
OneAhead(s, t) ==
    Len(s.root_key.path) <= Len(t.root_key.path) =>
        t.root_key = create_chain(s.root_key, t.sender_ratchet, s.sender_ratchet)

OneApart ==
    \A p, q \in Party : p # q =>
        \A s \in AllSessions(p, q), t \in AllSessions(q, p) :
            s.alice_base_key = t.alice_base_key => OneAhead(s, t)

Agreement == OwnBases /\ Answered /\ OneApart

(* s is at the place of the ratchet where t was.                           *)
SamePlace(s, t) ==
    /\ s.alice_base_key = t.alice_base_key
    /\ s.root_key = t.root_key /\ s.sender_ratchet = t.sender_ratchet

LEMMA AgreementKept ==
    ASSUME Agreement, net \subseteq net',
           \A x, y \in Party : \A s \in AllSessions(x, y)' :
               \E t \in AllSessions(x, y) : SamePlace(s, t)
    PROVE  Agreement'
<1>1. OwnBases'
  BY DEF Agreement, OwnBases, SamePlace
<1>2. Answered'
  BY DEF Agreement, Answered, Heard, SamePlace
<1>3. OneApart'
  <2> SUFFICES ASSUME NEW p \in Party, NEW q \in Party, p # q,
                      NEW s \in AllSessions(p, q)', NEW t \in AllSessions(q, p)',
                      s.alice_base_key = t.alice_base_key
               PROVE  OneAhead(s, t)
    BY DEF OneApart
  <2>1. PICK v \in AllSessions(p, q) : SamePlace(s, v)
    OBVIOUS
  <2>2. PICK w \in AllSessions(q, p) : SamePlace(t, w)
    OBVIOUS
  <2>3. OneAhead(v, w)
    BY <2>1, <2>2 DEF Agreement, OneApart, SamePlace
  <2> QED
    BY <2>1, <2>2, <2>3 DEF OneAhead, SamePlace
<1> QED
  BY <1>1, <1>2, <1>3 DEF Agreement

LEMMA AgreementWith ==
    ASSUME Agreement, net \subseteq net', NEW p \in Party, NEW q \in Party, p # q, NEW u,
           KeepsOthers(p, q, u), u.alice_base_key[1] \in {p, q},
           (u.alice_base_key[1] = p /\ Len(u.root_key.path) > 1) => Heard(q, u)',
           \A t \in AllSessions(q, p) :
               u.alice_base_key = t.alice_base_key => OneAhead(u, t) /\ OneAhead(t, u)
    PROVE  Agreement'
<1>1. OwnBases'
  BY DEF Agreement, OwnBases, KeepsOthers, SameSession
<1>2. Answered'
  <2> SUFFICES ASSUME NEW x \in Party, NEW y \in Party, NEW s \in AllSessions(x, y)',
                      s.alice_base_key[1] = x, Len(s.root_key.path) > 1
               PROVE  Heard(y, s)'
    BY DEF Answered
  <2>1. CASE x = p /\ y = q /\ s = u
    BY <2>1
  <2>2. CASE ~(x = p /\ y = q /\ s = u)
    <3>1. PICK t \in AllSessions(x, y) : SameSession(s, t)
      BY <2>2 DEF KeepsOthers
    <3> QED
      BY <3>1 DEF Agreement, Answered, Heard, SameSession
  <2> QED
    BY <2>1, <2>2
<1>3. OneApart'
  <2> SUFFICES ASSUME NEW x \in Party, NEW y \in Party, x # y,
                      NEW s \in AllSessions(x, y)', NEW t \in AllSessions(y, x)',
                      s.alice_base_key = t.alice_base_key
               PROVE  OneAhead(s, t)
    BY DEF OneApart
  <2>1. \/ x = p /\ y = q /\ s = u
        \/ \E v \in AllSessions(x, y) : SameSession(s, v)
    BY DEF KeepsOthers
  <2>2. \/ y = p /\ x = q /\ t = u
        \/ \E w \in AllSessions(y, x) : SameSession(t, w)
    BY DEF KeepsOthers
  <2>3. CASE x = p /\ y = q /\ s = u
    <3>1. PICK w \in AllSessions(q, p) : SameSession(t, w)
      BY <2>2, <2>3
    <3> QED
      BY <2>3, <3>1 DEF OneAhead, SameSession
  <2>4. CASE y = p /\ x = q /\ t = u
    <3>1. PICK v \in AllSessions(q, p) : SameSession(s, v)
      BY <2>1, <2>4
    <3> QED
      BY <2>4, <3>1 DEF OneAhead, SameSession
  <2>5. CASE /\ \E v \in AllSessions(x, y) : SameSession(s, v)
             /\ \E w \in AllSessions(y, x) : SameSession(t, w)
    <3>1. PICK v \in AllSessions(x, y) : SameSession(s, v)
      BY <2>5
    <3>2. PICK w \in AllSessions(y, x) : SameSession(t, w)
      BY <2>5
    <3>3. OneAhead(v, w)
      BY <3>1, <3>2 DEF Agreement, OneApart, SameSession
    <3> QED
      BY <3>1, <3>2, <3>3 DEF OneAhead, SameSession
  <2> QED
    BY <2>1, <2>2, <2>3, <2>4, <2>5
<1> QED
  BY <1>1, <1>2, <1>3 DEF Agreement

(* Sessions with one base key have one secret.                             *)
LEMMA SameSecret ==
    ASSUME Safe, NEW p \in Party, NEW q \in Party, NEW s \in AllSessions(p, q),
           NEW x \in Secret, InUse(x), x.kem.seed = s.alice_base_key
    PROVE  s.root_key.secret = x
<1>1. s \in GoodSession /\ s.root_key.secret.kem.seed = s.alice_base_key
  BY AllSessionsType DEF Safe, Inv, Known, SessionsKnown, SessionFacts
<1>2. s.root_key.secret \in Secret
  BY <1>1, SessionType
<1>3. InUse(s.root_key.secret)
  BY DEF InUse
<1> QED
  BY <1>1, <1>2, <1>3 DEF Safe, Chains, OneSecret
(* The sender of a message is where it sent the message, unless it has     *)
(* ratcheted since.                                                        *)
LEMMA PeerIsThere ==
    ASSUME Safe, NEW m \in net, NEW t \in AllSessions(m.from, m.to),
           t.root_key.secret = m.chain_key.secret,
           Len(t.root_key.path) <= Len(m.chain_key.path)
    PROVE  t.root_key = m.chain_key /\ t.sender_ratchet = m.sender_ratchet
<1>1. m.from \in Party /\ m.to \in Party /\ Len(m.chain_key.path) \in Nat
  BY MessageType DEF Safe
<1>2. t \in GoodSession
  BY <1>1, AllSessionsType DEF Safe, Inv
<1>3. Len(t.root_key.path) \in Nat
  BY <1>2, SessionType
<1>4. PastSent(t, m) /\ SentOn(m.from, m.to, t)
  BY <1>1 DEF Safe, Chains, SendersPast, SendersAhead
<1>5. m.chain_key = t.root_key
  BY <1>1, <1>3, <1>4 DEF PastSent
<1> QED
  BY <1>4, <1>5 DEF SentOn

LEMMA AgreementReceived ==
    ASSUME Safe, Agreement, NEW m \in net, NEW s \in GoodSession, NEW u \in GoodSession,
           Received(m, s, u), ReceiverFacts(m, s), s.alice_base_key[1] \in {m.to, m.from},
           OnNewChain(s, m, NewKey(m.to, 0), u),
           \A t \in AllSessions(m.from, m.to) : s.alice_base_key = t.alice_base_key =>
               Len(t.root_key.path) <= Len(s.root_key.path) + 1
    PROVE  Agreement'
<1>1. PICK p \in Party, q \in Party : p = m.to /\ q = m.from
  BY MessageType DEF Safe
<1>2. p # q
  BY <1>1 DEF Safe, Known, MessagesKnown, MessageFacts
<1>3. KeepsOthers(p, q, u) /\ net' = net
  BY <1>1 DEF Received
<1>4. u.alice_base_key = s.alice_base_key
  BY DEF Received, Accepts
<1>5. /\ m.chain_key.secret = s.root_key.secret
      /\ u.root_key.secret = s.root_key.secret
      /\ Len(s.root_key.path) \in Nat
      /\ Len(m.chain_key.path) = Len(s.root_key.path) + 1
      /\ Len(u.root_key.path) = Len(s.root_key.path) + 2
  BY ReceivedRoots DEF Safe, ReceiverFacts
<1>6. Heard(q, u)'
  BY <1>1, <1>3, <1>5 DEF Heard
<1>7. ASSUME NEW t \in AllSessions(q, p), u.alice_base_key = t.alice_base_key
      PROVE  OneAhead(u, t) /\ OneAhead(t, u)
  <2>1. t.root_key.secret = m.chain_key.secret
    <3>1. m.chain_key.secret \in Secret /\ InUse(m.chain_key.secret)
      BY MessageType DEF Safe, InUse
    <3>2. m.chain_key.secret.kem.seed = t.alice_base_key
      BY <1>4, <1>5, <1>7 DEF ReceiverFacts
    <3> QED
      BY <3>1, <3>2, SameSecret
  <2>2. t.root_key = m.chain_key /\ t.sender_ratchet = m.sender_ratchet
    BY <1>1, <1>4, <1>5, <1>7, <2>1, PeerIsThere
  <2>3. ~(Len(u.root_key.path) <= Len(t.root_key.path))
    BY <1>5, <2>2
  <2>4. u.root_key = create_chain(t.root_key, u.sender_ratchet, t.sender_ratchet)
    <3>1. u.root_key = create_chain(t.root_key, t.sender_ratchet, u.sender_ratchet)
      BY <2>2 DEF OnNewChain
    <3>2. DH(t.sender_ratchet, u.sender_ratchet) = DH(u.sender_ratchet, t.sender_ratchet)
      BY DEF DH
    <3> QED
      BY <3>1, <3>2 DEF create_chain
  <2> QED
    BY <2>3, <2>4 DEF OneAhead
<1> QED
  BY <1>1, <1>2, <1>3, <1>4, <1>6, <1>7, AgreementWith

LEMMA AgreementOnOld ==
    ASSUME Safe, Agreement, NEW m \in net, NEW s \in GoodSession, NEW u \in GoodSession,
           ReceivedOnOld(m, s, u)
    PROVE  Agreement'
<1>1. PICK p \in Party, q \in Party : p = m.to /\ q = m.from
  BY MessageType DEF Safe
<1>2. /\ s \in AllSessions(p, q) /\ Received(m, s, u) /\ ReceiverFacts(m, s)
      /\ KeepsOthers(p, q, u) /\ net' = net /\ p # q
  BY <1>1, OldReceiverFacts
  DEF Safe, ReceivedOnOld, Received, Known, MessagesKnown, MessageFacts
<1>3. CASE OnOldChain(s, m, u)
  <2>1. SamePlace(u, s)
    BY <1>2, <1>3 DEF SamePlace, OnOldChain, Received, Accepts
  <2>2. \A x, y \in Party : \A v \in AllSessions(x, y)' :
           \E t \in AllSessions(x, y) : SamePlace(v, t)
    BY <1>2, <2>1 DEF KeepsOthers, SameSession, SamePlace
  <2> QED
    BY <1>2, <2>2, AgreementKept
<1>4. CASE OnNewChain(s, m, NewKey(m.to, 0), u)
  <2>1. ASSUME NEW t \in AllSessions(q, p), s.alice_base_key = t.alice_base_key
        PROVE  Len(t.root_key.path) <= Len(s.root_key.path) + 1
    <3>1. OneAhead(s, t)
      BY <1>2, <2>1 DEF Agreement, OneApart
    <3>2. t \in GoodSession
      BY AllSessionsType DEF Safe, Inv
    <3>3. /\ Len(s.root_key.path) \in Nat /\ Len(t.root_key.path) \in Nat
          /\ s.root_key \in RootKey /\ s.sender_ratchet \in Key /\ t.sender_ratchet \in Key
      BY <3>2, SessionType
    <3>4. CASE Len(s.root_key.path) <= Len(t.root_key.path)
      <4>1. t.root_key = create_chain(s.root_key, t.sender_ratchet, s.sender_ratchet)
        BY <3>1, <3>4 DEF OneAhead
      <4>2. Len(t.root_key.path) = Len(s.root_key.path) + 1
        BY <3>3, <4>1, CreateChainEffect
      <4> QED
        BY <3>3, <4>2
    <3> QED
      BY <3>3, <3>4
  <2>2. s.alice_base_key[1] \in {p, q}
    BY <1>2 DEF Agreement, OwnBases
  <2> QED
    BY <1>1, <1>2, <1>4, <2>1, <2>2, AgreementReceived
<1> QED
  BY <1>2, <1>3, <1>4 DEF Received, Accepts

LEMMA AgreementOnNew ==
    ASSUME Safe, Agreement, NEW m \in net, NEW u \in GoodSession, ReceivedOnNew(m, u)
    PROVE  Agreement'
<1>1. PICK s \in GoodSession : s = CreatedSession(m)
  BY NewReceiverFacts DEF Safe
<1>2. /\ Received(m, s, u) /\ m.pre # None /\ ReceiverFacts(m, s) /\ MessageFacts(m)
      /\ m.from \in Party /\ m.to \in Party
  BY <1>1, NewReceiverFacts DEF ReceivedOnNew, Safe, Known, MessagesKnown
<1>3. /\ s.alice_base_key = m.pre.base_key /\ s.root_key.path = << >>
      /\ s.receiver_chains = << >>
  BY <1>1, <1>2, CreatedFields DEF Safe, Inv
<1>4. OnNewChain(s, m, NewKey(m.to, 0), u)
  BY <1>2, <1>3 DEF Received, Accepts, OnOldChain
<1>5. s.alice_base_key[1] = m.from
  BY <1>2, <1>3 DEF MessageFacts
<1>6. ASSUME NEW t \in AllSessions(m.from, m.to), s.alice_base_key = t.alice_base_key
      PROVE  Len(t.root_key.path) <= Len(s.root_key.path) + 1
  <2>1. t \in GoodSession
    BY <1>2, AllSessionsType DEF Safe, Inv
  <2>2. Len(t.root_key.path) \in Nat
    BY <2>1, SessionType
  <2>3. m.chain_key.secret = s.root_key.secret
    BY <1>2, ReceivedRoots DEF Safe, ReceiverFacts
  <2>4. t.root_key.secret = m.chain_key.secret
    <3>1. m.chain_key.secret \in Secret /\ InUse(m.chain_key.secret)
      BY MessageType DEF Safe, InUse
    <3>2. m.chain_key.secret.kem.seed = t.alice_base_key
      BY <1>2, <1>6, <2>3 DEF ReceiverFacts
    <3> QED
      BY <1>2, <3>1, <3>2, SameSecret
  <2>5. ~Heard(m.to, t)
    BY <1>1, <2>3, <2>4, CreatedUnused DEF Heard, Safe
  <2>6. ~(Len(t.root_key.path) > 1)
    BY <1>2, <1>5, <1>6, <2>5 DEF Agreement, Answered
  <2>7. Len(s.root_key.path) = 0
    BY <1>3
  <2> QED
    BY <2>2, <2>6, <2>7
<1> QED
  BY <1>2, <1>4, <1>5, <1>6, AgreementReceived
LEMMA AgreementStarted ==
    ASSUME Safe, Agreement, NEW p \in Party, NEW q \in Party, p # q,
           NEW b \in ServedBundles(q), Started(p, q, b)
    PROVE  Agreement'
<1>1. PICK u : u = StartedSession(p, b)
  OBVIOUS
<1>2. PICK base \in Key, ratchet \in Key : base = NewKey(p, 0) /\ ratchet = NewKey(p, 1)
  BY NewKeyType DEF Safe, Inv
<1>3. u.alice_base_key = base
  BY <1>1, <1>2, StartedFields DEF Safe, Inv
<1>4. PICK x \in Secret :
         u.root_key = create_chain(derive_keys(x), b.signed, ratchet)
  BY <1>1, <1>2, StartedFields DEF Safe, Inv
<1>5. Len(u.root_key.path) = 1
  <2>1. PICK d \in RootKey : d = derive_keys(x) /\ d.path = << >>
    BY DeriveKeysType DEF derive_keys
  <2>2. b.signed \in Key
    BY ServedBundlesType DEF BundleType, Safe, Inv
  <2>3. ratchet \in Key /\ u.root_key = create_chain(d, b.signed, ratchet)
    BY <1>2, <1>4, <2>1
  <2>4. LET k == create_chain(d, b.signed, ratchet) IN Len(k.path) = Len(d.path) + 1
    BY <2>2, <2>3, CreateChainEffect
  <2> QED
    BY <2>1, <2>3, <2>4
<1>6. KeepsOthers(p, q, u) /\ net' = net
  BY <1>1 DEF Started
<1>7. ~Old(fresh, base) /\ base[1] = p
  BY <1>2 DEF NewKey, Old, Safe, Inv, TypeOK
<1>8. ASSUME NEW t \in AllSessions(q, p) PROVE u.alice_base_key # t.alice_base_key
  BY <1>3, <1>7 DEF Safe, Known, SessionsKnown, SessionFacts, OldRoot
<1>9. u.alice_base_key[1] \in {p, q} /\ ~(Len(u.root_key.path) > 1)
  BY <1>3, <1>5, <1>7
<1> QED
  BY <1>6, <1>8, <1>9, AgreementWith

LEMMA AgreementSent ==
    ASSUME Safe, Agreement, NEW p \in Party, NEW q \in Party, Sent(p, q)
    PROVE  Agreement'
<1>1. PICK s \in AllSessions(p, q), u \in GoodSession, m \in CiphertextMessage :
         /\ u.alice_base_key = s.alice_base_key /\ u.root_key = s.root_key
         /\ u.sender_ratchet = s.sender_ratchet
         /\ net' = net \cup {m} /\ KeepsOthers(p, q, u)
  BY SentFields DEF Safe
<1>2. \A x, y \in Party : \A v \in AllSessions(x, y)' :
         \E t \in AllSessions(x, y) : SamePlace(v, t)
  BY <1>1 DEF KeepsOthers, SameSession, SamePlace
<1> QED
  BY <1>1, <1>2, AgreementKept

LEMMA InitAgreement == Init => Agreement
<1> SUFFICES ASSUME Init PROVE Agreement
  OBVIOUS
<1>1. \A p, q \in Party : AllSessions(p, q) = {}
  BY DEF Init, AllSessions
<1> QED
  BY <1>1 DEF Agreement, OwnBases, Answered, OneApart

LEMMA AgreementStep == Safe /\ Step /\ Agreement => Agreement'
<1> SUFFICES ASSUME Safe, Step, Agreement PROVE Agreement'
  OBVIOUS
<1>1. ASSUME NEW p \in Party, NEW q \in Party, p # q, NEW b \in ServedBundles(q),
             Started(p, q, b)
      PROVE  Agreement'
  BY <1>1, AgreementStarted
<1>2. ASSUME NEW p \in Party, NEW q \in Party, Sent(p, q) PROVE Agreement'
  BY <1>2, AgreementSent
<1>3. ASSUME NEW m \in net, NEW s \in GoodSession, NEW u \in GoodSession,
             ReceivedOnOld(m, s, u)
      PROVE  Agreement'
  BY <1>3, AgreementOnOld
<1>4. ASSUME NEW m \in net, NEW u \in GoodSession, ReceivedOnNew(m, u) PROVE Agreement'
  BY <1>4, AgreementOnNew
<1>5. ASSUME NEW p \in Party, Reinstall(p) PROVE Agreement'
  <2>1. /\ net' = net
        /\ \A x, y \in Party : \A s \in AllSessions(x, y)' : s \in AllSessions(x, y)
    BY <1>5, ReinstalledFields DEF Safe
  <2>2. \A x, y \in Party : \A s \in AllSessions(x, y)' :
           \E t \in AllSessions(x, y) : SamePlace(s, t)
    BY <2>1 DEF SamePlace
  <2> QED
    BY <2>1, <2>2, AgreementKept
<1>6. CASE Quiet
  BY <1>6, AgreementKept DEF Quiet, KeepsAll, SameSession, SamePlace
<1> QED
  BY <1>1, <1>2, <1>3, <1>4, <1>5, <1>6 DEF Step

LEMMA AgreementMeans == Safe /\ Agreement => RatchetAgreement
<1> SUFFICES ASSUME Safe, Agreement, NEW p \in Party, NEW q \in Peers(p),
                    NEW s \in AllSessions(p, q), NEW t \in AllSessions(q, p),
                    s.alice_base_key = t.alice_base_key,
                    Len(s.root_key.path) <= Len(t.root_key.path)
             PROVE  /\ s.pq.auth = t.pq.auth /\ s.pq.direction # t.pq.direction
                    /\ t.root_key = create_chain(s.root_key, t.sender_ratchet, s.sender_ratchet)
  BY DEF RatchetAgreement
<1>1. q \in Party /\ p # q
  BY DEF Peers
<1>2. SessionFacts(p, q, s) /\ SessionFacts(q, p, t) /\ t \in GoodSession
  BY <1>1, AllSessionsType DEF Safe, Inv, Known, SessionsKnown
<1>3. s.root_key.secret = t.root_key.secret
  <2>1. t.root_key.secret \in Secret /\ InUse(t.root_key.secret)
    BY <1>1, <1>2, SessionType DEF InUse
  <2> QED
    BY <1>1, <1>2, <2>1, SameSecret DEF SessionFacts
<1>4. s.alice_base_key[1] \in {p, q}
  BY <1>1 DEF Agreement, OwnBases
<1>5. s.pq.auth = t.pq.auth /\ s.pq.direction # t.pq.direction
  BY <1>1, <1>2, <1>3, <1>4 DEF SessionFacts
<1>6. OneAhead(s, t)
  BY <1>1 DEF Agreement, OneApart
<1> QED
  BY <1>5, <1>6 DEF OneAhead

(* The invariant of this module and of those it extends.                   *)
THEOREM SessionAgreement == Spec => [](Safe /\ Agreement)
<1>1. Init => Agreement
  BY InitAgreement
<1>2. Safe /\ Agreement /\ [Next]_vars => Agreement'
  <2>1. Safe /\ [Next]_vars => Step
    BY NextIsStep DEF Safe
  <2> QED
    BY <2>1, AgreementStep
<1>3. Spec => []Safe
  BY SessionDelivery DEF Safe
<1> QED
  BY <1>1, <1>2, <1>3, PTL DEF Spec

(* The two ends of a session agree on its secret and are always exactly    *)
(* one ratchet step apart, however messages are lost, repeated and         *)
(* reordered and whichever sessions were archived, dropped or lost with a  *)
(* device that started over.                                               *)
THEOREM SessionRatchetAgreement == Spec => []RatchetAgreement
  BY SessionAgreement, AgreementMeans, PTL
-----------------------------------------------------------------------------
(* What a step does as the application sees it.                            *)

(* p deals with q under this identity, pinned already or on first use.     *)
Pins(p, q, id) ==
    /\ id \in Key /\ is_trusted_identity(p, q, id)
    /\ known_keys' = save_identity(p, q, id)

Sends(p, q) ==
    LET s == sessions[p][q].current IN
    /\ HasCurrentSession(p, q) /\ ~IsStale(s, now)
    /\ Pins(p, q, s.remote_identity)
    /\ net' = net \cup {Ciphertext(p, q, s)}
    /\ UNCHANGED << delivered, replayed >>

Receives(m) ==
    /\ Pins(m.to, m.from, m.sender_identity)
    /\ Deliver(m) /\ UNCHANGED net

Silent == UNCHANGED << net, delivered, replayed >>

Visible ==
    \/ \E p, q \in Party : Sends(p, q)
    \/ \E m \in net : Receives(m)
    \/ \E p, q \in Party : \E id \in Key : Pins(p, q, id) /\ Silent
    \/ \E p, q \in Party : AcceptIdentity(p, q)
    \/ \E p \in Party : Reinstall(p)
    \/ UNCHANGED known_keys /\ Silent

LEMMA CurrentIsHeld ==
    ASSUME Safe, NEW p \in Party, NEW q \in Party, HasCurrentSession(p, q)
    PROVE  LET s == sessions[p][q].current IN
           s \in AllSessions(p, q) /\ s \in GoodSession /\ SessionFacts(p, q, s)
<1>1. sessions[p][q] \in GoodRecord /\ sessions[p][q].current # None
  BY DEF HasCurrentSession, GoodSessions, Safe, Inv
<1>2. 0 \in Places(sessions[p][q]) /\ SessionAt(sessions[p][q], 0) = sessions[p][q].current
  BY <1>1, PlacesOf
<1>3. sessions[p][q].current \in AllSessions(p, q)
  BY <1>2 DEF HasCurrentSession, AllSessions, SessionsOf
<1> QED
  BY <1>3, AllSessionsType DEF SessionsKnown, Known, Inv, Safe

LEMMA EncryptVisible ==
    ASSUME Safe, NEW p \in Party, NEW q \in Party, NEW w \in 1 .. 2, message_encrypt(p, q, w)
    PROVE  Visible
<1>1. /\ HasCurrentSession(p, q) /\ ~IsStale(sessions[p][q].current, now)
      /\ is_trusted_identity(p, q, sessions[p][q].current.remote_identity)
      /\ known_keys' = save_identity(p, q, sessions[p][q].current.remote_identity)
      /\ UNCHANGED << delivered, replayed >>
      /\ net' = IF w = 2 THEN net \cup {Ciphertext(p, q, sessions[p][q].current)} ELSE net
  BY DEF message_encrypt, ReturnsOk
<1>2. sessions[p][q].current.remote_identity \in Key
  BY <1>1, CurrentIsHeld DEF GoodSession, SessionStructure
<1>3. Pins(p, q, sessions[p][q].current.remote_identity)
  BY <1>1, <1>2 DEF Pins
<1>4. CASE w = 2
  BY <1>1, <1>3, <1>4 DEF Visible, Sends
<1>5. CASE w # 2
  BY <1>1, <1>2, <1>3, <1>5 DEF Visible, Silent
<1> QED
  BY <1>4, <1>5

LEMMA StartVisible ==
    ASSUME Safe, NEW p \in Party, NEW q \in Party, NEW b \in ServedBundles(q),
           NEW w \in 1 .. 2, process_prekey_bundle(p, q, b, w)
    PROVE  Visible
<1>1. b.identity \in Key
  BY ServedBundlesType DEF Safe, Inv, BundleType
<1>2. Pins(p, q, b.identity) /\ Silent
  BY <1>1 DEF process_prekey_bundle, Pins, Silent
<1> QED
  BY <1>1, <1>2 DEF Visible

LEMMA DecryptSignalVisible ==
    ASSUME Safe, NEW m \in net, NEW w \in 1 .. 2, message_decrypt_signal(m.to, m.from, m, w)
    PROVE  Visible
<1> DEFINE r == sessions[m.to][m.from]
           d == decrypt_message_with_record(r, m, NewKey(m.to, 0), Places(r))
           n == d.record
           u == n.current
<1>1. /\ m \in CiphertextMessage /\ m.to \in Party /\ m.from \in Party
      /\ m.sender_identity \in Key /\ NewKey(m.to, 0) \in Key
  BY MessageType, NewKeyType DEF Safe, Inv, CiphertextMessage
<1>2. /\ r # None /\ d.outcome = "ok"
      /\ is_trusted_identity(m.to, m.from, u.remote_identity)
      /\ known_keys' = save_identity(m.to, m.from, u.remote_identity)
      /\ IF w = 2 THEN Deliver(m) ELSE UNCHANGED << delivered, replayed >>
      /\ UNCHANGED net
  BY Zenon DEF message_decrypt_signal, ReturnsOk
<1>3. r \in GoodRecord /\ UniqueBase(r)
  <2>1. r \in GoodRecord
    BY Zenon, <1>1, <1>2 DEF Safe, Inv, GoodSessions
  <2>2. r = load_or_fresh(m.to, m.from)
    BY Zenon, <1>2 DEF load_or_fresh
  <2> QED
    BY <1>1, <2>1, <2>2, LoadUnique DEF Safe, Known
<1> HIDE DEF r
<1>4. \E k \in Places(r) : Accepts(SessionAt(r, k), m, NewKey(m.to, 0), u)
  BY <1>1, <1>2, <1>3, DecryptRecordEffect
<1> HIDE DEF u, n, d
<1>5. u.remote_identity = m.sender_identity
  BY <1>4 DEF Accepts
<1>6. Pins(m.to, m.from, m.sender_identity)
  BY <1>1, <1>2, <1>5 DEF Pins
<1>7. CASE w = 2
  BY <1>2, <1>6, <1>7 DEF Visible, Receives
<1>8. CASE w # 2
  BY <1>1, <1>2, <1>6, <1>8 DEF Visible, Silent
<1> QED
  BY <1>7, <1>8

LEMMA DecryptPreKeyVisible ==
    ASSUME Safe, NEW m \in net, NEW w \in 1 .. 4, message_decrypt_prekey(m.to, m.from, m, w)
    PROVE  Visible
<1>1. m.to \in Party /\ m.from \in Party /\ m.sender_identity \in Key
  BY MessageType DEF Safe, Inv, CiphertextMessage
<1>2. /\ m.pre # None
      /\ is_trusted_identity(m.to, m.from, m.pre.identity_key)
      /\ known_keys' = save_identity(m.to, m.from, m.pre.identity_key)
      /\ IF w = 4 THEN Deliver(m) ELSE UNCHANGED << delivered, replayed >>
      /\ UNCHANGED net
  BY DEF message_decrypt_prekey, ReturnsOk
<1>3. m.pre.identity_key = m.sender_identity
  BY <1>2 DEF Safe, Known, MessagesKnown, MessageFacts
<1>4. Pins(m.to, m.from, m.sender_identity)
  BY <1>1, <1>2, <1>3 DEF Pins
<1>5. CASE w = 4
  BY <1>2, <1>4, <1>5 DEF Visible, Receives
<1>6. CASE w # 4
  BY <1>1, <1>2, <1>4, <1>6 DEF Visible, Silent
<1> QED
  BY <1>5, <1>6

LEMMA NextVisible == Safe /\ [Next]_vars => Visible
<1> SUFFICES ASSUME Safe, [Next]_vars PROVE Visible
  OBVIOUS
<1>1. ASSUME NEW p \in Party, NEW q \in Peers(p), StartSession(p, q) PROVE Visible
  BY <1>1, StartVisible DEF StartSession, Peers
<1>2. ASSUME NEW p \in Party, NEW q \in Peers(p), Encrypt(p, q) PROVE Visible
  BY <1>2, EncryptVisible DEF Encrypt, Peers
<1>3. ASSUME NEW p \in Party, NEW q \in Peers(p), archive_session(p, q) PROVE Visible
  BY <1>3 DEF archive_session, Visible, Silent
<1>4. ASSUME NEW p \in Party, NEW q \in Peers(p), AcceptIdentity(p, q) PROVE Visible
  BY <1>4 DEF Visible, Peers
<1>5. ASSUME NEW m \in net, DecryptSignal(m) PROVE Visible
  BY <1>5, DecryptSignalVisible DEF DecryptSignal
<1>6. ASSUME NEW m \in net, DecryptPreKey(m) PROVE Visible
  BY <1>6, DecryptPreKeyVisible DEF DecryptPreKey
<1>7. ASSUME NEW p \in Party, Reinstall(p) PROVE Visible
  BY <1>7 DEF Visible
<1>8. CASE Tick
  BY <1>8 DEF Tick, stores, Visible, Silent
<1>9. CASE UNCHANGED vars
  BY <1>9 DEF vars, stores, Visible, Silent
<1> QED
  BY <1>1, <1>2, <1>3, <1>4, <1>5, <1>6, <1>7, <1>8, <1>9 DEF Next
LEMMA PinsEffect ==
    ASSUME Safe, NEW p \in Party, NEW q \in Party, NEW id, Pins(p, q, id)
    PROVE  /\ known_keys'[p][q] = id /\ known_keys[p][q] \in {None, id}
           /\ \A x, y \in Party : known_keys[x][y] # None => known_keys'[x][y] = known_keys[x][y]
<1>1. known_keys \in [Party -> [Party -> Key \cup {None}]]
  BY DEF Safe, Inv, TypeOK
<1>2. \A x, y \in Party : known_keys'[x][y] = IF x = p /\ y = q THEN id ELSE known_keys[x][y]
  BY <1>1 DEF Pins, save_identity
<1>3. known_keys[p][q] \in {None, id}
  BY DEF Pins, is_trusted_identity
<1> QED
  BY <1>2, <1>3

(* A pinned identity only changes when the user accepts another or the     *)
(* device starts over; every ciphertext released is for the identity       *)
(* pinned, and every plaintext handed out was sent by it.                  *)
THEOREM SessionIdentityPinned == Spec => IdentityPinned
<1> DEFINE Pinned ==
       /\ \A p, q \in Party :
             (known_keys[p][q] # None /\ known_keys'[p][q] # known_keys[p][q])
             => AcceptIdentity(p, q) \/ Reinstall(p)
       /\ \A m \in net' \ net : m.receiver_identity = known_keys'[m.from][m.to]
       /\ \A m \in delivered' \ delivered :
             m.sender_identity = known_keys'[m.to][m.from]
<1>1. Safe /\ [Next]_vars => Pinned
  <2> SUFFICES ASSUME Safe, [Next]_vars PROVE Pinned
    OBVIOUS
  <2>1. ASSUME NEW p \in Party, NEW q \in Party, Sends(p, q) PROVE Pinned
    <3>1. PICK s : s = sessions[p][q].current
      OBVIOUS
    <3>2. PICK m : m = Ciphertext(p, q, s)
      OBVIOUS
    <3>3. Pins(p, q, s.remote_identity) /\ net' = net \cup {m} /\ delivered' = delivered
      BY <2>1, <3>1, <3>2 DEF Sends
    <3>4. m.from = p /\ m.to = q /\ m.receiver_identity = s.remote_identity
      BY <3>2 DEF Ciphertext
    <3> QED
      BY <3>3, <3>4, PinsEffect
  <2>2. ASSUME NEW m \in net, Receives(m) PROVE Pinned
    <3>1. m.to \in Party /\ m.from \in Party
      BY MessageType DEF Safe
    <3>2. Pins(m.to, m.from, m.sender_identity) /\ net' = net /\ delivered' = delivered \cup {m}
      BY <2>2 DEF Receives, Deliver
    <3> QED
      BY <3>1, <3>2, PinsEffect
  <2>3. ASSUME NEW p \in Party, NEW q \in Party, NEW id \in Key, Pins(p, q, id), Silent
        PROVE  Pinned
    BY <2>3, PinsEffect DEF Silent
  <2>4. ASSUME NEW p \in Party, NEW q \in Party, AcceptIdentity(p, q) PROVE Pinned
    <3>1. known_keys' = [known_keys EXCEPT ![p][q] = identity[q]]
          /\ UNCHANGED << net, delivered >>
      BY <2>4 DEF AcceptIdentity, save_identity
    <3>2. \A x, y \in Party : ~(x = p /\ y = q) => known_keys'[x][y] = known_keys[x][y]
      BY <3>1 DEF Safe, Inv, TypeOK
    <3> QED
      BY <2>4, <3>1, <3>2
  <2>5. ASSUME NEW p \in Party, Reinstall(p) PROVE Pinned
    <3>1. known_keys' = [known_keys EXCEPT ![p] = [q \in Party |-> None]]
          /\ UNCHANGED << net, delivered >>
      BY <2>5 DEF Reinstall
    <3>2. \A x, y \in Party : x # p => known_keys'[x][y] = known_keys[x][y]
      BY <3>1 DEF Safe, Inv, TypeOK
    <3> QED
      BY <2>5, <3>1, <3>2
  <2>6. CASE UNCHANGED known_keys /\ Silent
    BY <2>6 DEF Silent
  <2>7. Visible
    BY NextVisible
  <2> QED
    BY <2>1, <2>2, <2>3, <2>4, <2>5, <2>6, <2>7 DEF Visible
<1>2. Safe /\ [Next]_vars => [Pinned]_vars
  BY <1>1
<1> QED
  BY <1>2, SessionAgreement, PTL DEF Spec, IdentityPinned

-----------------------------------------------------------------------------
(* The refinement of Channel.                                              *)

(* A ciphertext that was just made is a new one.                           *)
LEMMA CiphertextIsNew ==
    ASSUME Safe, NEW p \in Party, NEW q \in Party, HasCurrentSession(p, q)
    PROVE  Ciphertext(p, q, sessions[p][q].current) \notin net
<1>1. PICK s : s = sessions[p][q].current
  OBVIOUS
<1>2. s \in AllSessions(p, q) /\ s \in GoodSession /\ SessionFacts(p, q, s)
  BY <1>1, CurrentIsHeld
<1>3. PICK m : m = Ciphertext(p, q, s)
  OBVIOUS
<1>4. m.counter = s.sender_chain.index /\ m.chain_key = s.sender_chain.key
  BY <1>3 DEF Ciphertext
<1>5. s.sender_chain.key = s.root_key /\ s.sender_chain.index \in Nat /\ SentOn(p, q, s)
  BY <1>2, SessionType DEF SessionFacts, Safe, Chains, SendersAhead
<1>6. m \notin net
  BY <1>4, <1>5 DEF SentOn
<1> QED
  BY <1>1, <1>3, <1>6

LEMMA ChannelSend ==
    ASSUME Safe, NEW p \in Party, NEW q \in Party, Sends(p, q)
    PROVE  AbstractChannel!Next
<1>1. PICK m : m = Ciphertext(p, q, sessions[p][q].current)
  OBVIOUS
<1>2. /\ net' = net \cup {m} /\ UNCHANGED << delivered, replayed >>
      /\ Pins(p, q, sessions[p][q].current.remote_identity) /\ m \notin net
  BY <1>1, CiphertextIsNew DEF Sends
<1>3. m.from = p /\ m.to = q /\ m.receiver_identity = sessions[p][q].current.remote_identity
  BY <1>1 DEF Ciphertext
<1>4. AbstractChannel!Use(m.from, m.to, m.receiver_identity)
  BY <1>2, <1>3, PinsEffect DEF AbstractChannel!Use, Pins, save_identity
<1>5. m \in net' \ net
  BY <1>2
<1>6. AbstractChannel!Send
  BY <1>2, <1>4, <1>5 DEF AbstractChannel!Send
<1> QED
  BY <1>6 DEF AbstractChannel!Next

LEMMA ChannelReceive ==
    ASSUME Safe, AtMostOnce', NEW m \in net, Receives(m)
    PROVE  AbstractChannel!Next
<1>1. m.to \in Party /\ m.from \in Party
  BY MessageType DEF Safe
<1>2. m \notin delivered /\ delivered' = delivered \cup {m} /\ replayed = {} /\ replayed' = {}
      /\ net' = net
  BY DEF Receives, Deliver, AtMostOnce, Safe, Delivery
<1>3. AbstractChannel!Use(m.to, m.from, m.sender_identity)
  BY <1>1, PinsEffect DEF Receives, AbstractChannel!Use, Pins, save_identity
<1> DEFINE f == [n \in delivered |-> IF n \in replayed THEN 2 ELSE 1]
           g == [n \in delivered' |-> IF n \in replayed' THEN 2 ELSE 1]
<1>4. DOMAIN f = delivered
  OBVIOUS
<1>5. g = [n \in (DOMAIN f) \cup {m} |-> IF n = m THEN 1 ELSE f[n]]
  BY <1>2
<1>6. AbstractChannel!Receive
  BY <1>2, <1>3, <1>4, <1>5 DEF AbstractChannel!Receive
<1> QED
  BY <1>6 DEF AbstractChannel!Next
(* Pinning an identity, on first use or by the user's decision.            *)
LEMMA ChannelPin ==
    ASSUME Safe, NEW p \in Party, NEW q \in Party, NEW id \in Key,
           known_keys' = [known_keys EXCEPT ![p][q] = id], Silent
    PROVE  AbstractChannel!Next
<1>1. known_keys'[p][q] = id
  BY DEF Safe, Inv, TypeOK
<1>2. id # None
  BY NoneAssumption DEF Key
<1>3. AbstractChannel!Pin(p, q)
  BY <1>1, <1>2 DEF AbstractChannel!Pin, Silent
<1> QED
  BY <1>3 DEF AbstractChannel!Next

LEMMA ChannelStep == Safe /\ AtMostOnce' /\ [Next]_vars => [AbstractChannel!Next]_(AbstractChannel!vars)
<1> SUFFICES ASSUME Safe, AtMostOnce', [Next]_vars
             PROVE  AbstractChannel!Next \/ UNCHANGED AbstractChannel!vars
  OBVIOUS
<1>1. ASSUME NEW p \in Party, NEW q \in Party, Sends(p, q) PROVE AbstractChannel!Next
  BY <1>1, ChannelSend
<1>2. ASSUME NEW m \in net, Receives(m) PROVE AbstractChannel!Next
  BY <1>2, ChannelReceive
<1>3. ASSUME NEW p \in Party, NEW q \in Party, NEW id \in Key, Pins(p, q, id), Silent
      PROVE  AbstractChannel!Next
  BY <1>3, ChannelPin DEF Pins, save_identity
<1>4. ASSUME NEW p \in Party, NEW q \in Party, AcceptIdentity(p, q)
      PROVE  AbstractChannel!Next
  <2>1. known_keys' = [known_keys EXCEPT ![p][q] = identity[q]] /\ Silent
    BY <1>4 DEF AcceptIdentity, save_identity, Silent
  <2>2. identity[q] \in Key
    BY DEF Safe, Inv, TypeOK
  <2> QED
    BY <2>1, <2>2, ChannelPin
<1>5. ASSUME NEW p \in Party, Reinstall(p) PROVE AbstractChannel!Next
  <2>1. AbstractChannel!StartOver(p)
    BY <1>5 DEF Reinstall, AbstractChannel!StartOver
  <2> QED
    BY <2>1 DEF AbstractChannel!Next
<1>6. CASE UNCHANGED known_keys /\ Silent
  BY <1>6 DEF Silent, AbstractChannel!vars
<1>7. Visible
  BY NextVisible
<1> QED
  BY <1>1, <1>2, <1>3, <1>4, <1>5, <1>6, <1>7 DEF Visible

LEMMA ChannelInit == Init => AbstractChannel!Init
  BY DEF Init, AbstractChannel!Init

(* The sessions implement the abstract channel: each call of the library   *)
(* sends one new message, receives one message for the first time, pins an *)
(* identity, starts over, or is not visible at all.                        *)
THEOREM SessionImplementsChannel == Spec => ImplementsChannel
<1>1. Safe => AtMostOnce
  BY DEF Safe, Delivery
<1> QED
  BY <1>1, SessionAgreement, ChannelInit, ChannelStep, PTL
  DEF Spec, ImplementsChannel, AbstractChannel!Spec
-----------------------------------------------------------------------------
(* Current sessions and the answers to them.                               *)

(* Something was received on a session before it stops carrying the        *)
(* pending pre-key message, as long as it is current.                      *)
AnswerSeen(p, s) == \E d \in delivered : d.to = p /\ d.chain_key.secret = s.root_key.secret

CurrentAnswered ==
    \A p, q \in Party :
        (HasCurrentSession(p, q) /\ sessions[p][q].current.pending = None)
            => AnswerSeen(p, sessions[p][q].current)

LEMMA AnsweredWith ==
    ASSUME CurrentAnswered, delivered \subseteq delivered', NEW p \in Party, NEW q \in Party,
           NEW u, CurrentAfter(p, q, u), u.pending = None => AnswerSeen(p, u)'
    PROVE  CurrentAnswered'
<1> SUFFICES ASSUME NEW x \in Party, NEW y \in Party, HasCurrentSession(x, y)',
                    sessions'[x][y].current.pending = None
             PROVE  AnswerSeen(x, sessions[x][y].current)'
  BY DEF CurrentAnswered
<1>1. PICK v : v = sessions'[x][y].current
  OBVIOUS
<1>2. CASE x = p /\ y = q /\ v = u
  BY <1>1, <1>2 DEF AnswerSeen
<1>3. CASE HasCurrentSession(x, y) /\ v = sessions[x][y].current
  <2>1. AnswerSeen(x, v)
    BY <1>1, <1>3 DEF CurrentAnswered
  <2> QED
    BY <1>1, <2>1 DEF AnswerSeen
<1> QED
  BY <1>1, <1>2, <1>3 DEF CurrentAfter

LEMMA AnsweredReceived ==
    ASSUME Safe, CurrentAnswered, NEW m \in net, NEW s \in GoodSession, NEW u \in GoodSession,
           Received(m, s, u), ReceiverFacts(m, s)
    PROVE  CurrentAnswered'
<1>1. PICK p \in Party, q \in Party : p = m.to /\ q = m.from
  BY MessageType DEF Safe
<1>2. CurrentAfter(p, q, u) /\ delivered' = delivered \cup {m}
  BY <1>1 DEF Received, Deliver
<1>3. m.chain_key.secret = u.root_key.secret
  BY ReceivedRoots DEF Safe, ReceiverFacts
<1>4. AnswerSeen(p, u)'
  BY <1>1, <1>2, <1>3 DEF AnswerSeen
<1> QED
  BY <1>2, <1>4, AnsweredWith

LEMMA AnsweredStep == Safe /\ Step /\ CurrentAnswered => CurrentAnswered'
<1> SUFFICES ASSUME Safe, Step, CurrentAnswered PROVE CurrentAnswered'
  OBVIOUS
<1>1. ASSUME NEW p \in Party, NEW q \in Party, NEW b \in ServedBundles(q), Started(p, q, b)
      PROVE  CurrentAnswered'
  <2>1. PICK u : u = StartedSession(p, b)
    OBVIOUS
  <2>2. PICK base \in Key : base = NewKey(p, 0)
    BY NewKeyType DEF Safe, Inv
  <2>3. u.pending = [pre_key_id |-> b.pre_key_id, base_key |-> base,
                     kyber_ciphertext |-> [kyber |-> b.kyber, seed |-> base],
                     timestamp |-> now]
    BY <2>1, <2>2, StartedFields DEF Safe, Inv
  <2>4. b.pre_key_id \in PreKeyId \cup {None} /\ b.kyber \in Key /\ now \in Nat
    BY ServedBundlesType DEF Safe, Inv, TypeOK, BundleType
  <2>5. u.pending \in PendingPreKey
    BY <2>2, <2>3, <2>4 DEF PendingPreKey, Kem
  <2>6. u.pending # None
    BY <2>5, NoSessionAssumption
  <2>7. CurrentAfter(p, q, u) /\ delivered' = delivered
    BY <1>1, <2>1 DEF Started
  <2> QED
    BY <2>6, <2>7, AnsweredWith
<1>2. ASSUME NEW p \in Party, NEW q \in Party, Sent(p, q) PROVE CurrentAnswered'
  <2>1. PICK s \in AllSessions(p, q), u \in GoodSession :
           /\ s = sessions[p][q].current /\ u.root_key = s.root_key /\ u.pending = s.pending
           /\ CurrentAfter(p, q, u)
    BY <1>2, SentFields DEF Safe
  <2>2. HasCurrentSession(p, q) /\ delivered' = delivered
    BY <1>2 DEF Sent
  <2>3. ASSUME u.pending = None PROVE AnswerSeen(p, u)'
    <3>1. AnswerSeen(p, s)
      BY <2>1, <2>2, <2>3 DEF CurrentAnswered
    <3> QED
      BY <2>1, <2>2, <3>1 DEF AnswerSeen
  <2> QED
    BY <2>1, <2>2, <2>3, AnsweredWith
<1>3. ASSUME NEW m \in net, NEW s \in GoodSession, NEW u \in GoodSession,
             ReceivedOnOld(m, s, u)
      PROVE  CurrentAnswered'
  BY <1>3, OldReceiverFacts, AnsweredReceived DEF Safe, ReceivedOnOld
<1>4. ASSUME NEW m \in net, NEW u \in GoodSession, ReceivedOnNew(m, u)
      PROVE  CurrentAnswered'
  BY <1>4, NewReceiverFacts, AnsweredReceived DEF Safe, ReceivedOnNew
<1>5. ASSUME NEW p \in Party, Reinstall(p) PROVE CurrentAnswered'
  <2>1. /\ \A x, y \in Party : sessions'[x][y] = IF x = p THEN None ELSE sessions[x][y]
        /\ delivered' = delivered
    BY <1>5 DEF Reinstall, Safe, Inv, GoodSessions
  <2> QED
    BY <2>1 DEF CurrentAnswered, AnswerSeen, HasCurrentSession
<1>6. CASE Quiet
  BY <1>6 DEF Quiet, CurrentKept, CurrentAnswered, AnswerSeen
<1> QED
  BY <1>1, <1>2, <1>3, <1>4, <1>5, <1>6 DEF Step

(* A session that was let go stale is never sent on: what message_encrypt  *)
(* checks, the pending pre-key message, is there on every current session  *)
(* on which nothing was received, also after it came back from the archive. *)
THEOREM SessionNoStaleSend == Spec => NoStaleSend
<1> DEFINE NotStale ==
       \A m \in net' \ net : m.pq.direction = "A2B" =>
          \/ \E d \in delivered : /\ d.to = m.from
                                  /\ d.chain_key.secret = m.chain_key.secret
          \/ LET s == sessions[m.from][m.to].current IN
             /\ s.pending # None
             /\ s.pending.timestamp + MAX_UNACKNOWLEDGED_SESSION_AGE >= now
<1>1. Safe /\ CurrentAnswered /\ [Next]_vars => NotStale
  <2> SUFFICES ASSUME Safe, CurrentAnswered, [Next]_vars, NEW m \in net' \ net
               PROVE  \/ \E d \in delivered : /\ d.to = m.from
                                              /\ d.chain_key.secret = m.chain_key.secret
                      \/ LET s == sessions[m.from][m.to].current IN
                         /\ s.pending # None
                         /\ s.pending.timestamp + MAX_UNACKNOWLEDGED_SESSION_AGE >= now
    OBVIOUS
  <2>1. PICK p \in Party, q \in Party : Sends(p, q)
    BY NextVisible DEF Visible, Receives, Silent, AcceptIdentity, Reinstall
  <2>2. PICK s : s = sessions[p][q].current
    OBVIOUS
  <2>3. m = Ciphertext(p, q, s) /\ HasCurrentSession(p, q) /\ ~IsStale(s, now)
    BY <2>1, <2>2 DEF Sends
  <2>4. s \in GoodSession /\ s.sender_chain.key = s.root_key
    BY <2>2, <2>3, CurrentIsHeld DEF SessionFacts
  <2>5. m.from = p /\ m.to = q /\ m.chain_key = s.root_key
    BY <2>3, <2>4 DEF Ciphertext
  <2>6. CASE s.pending = None
    BY <2>2, <2>3, <2>5, <2>6 DEF CurrentAnswered, AnswerSeen
  <2>7. CASE s.pending # None
    <3>1. s.pending \in PendingPreKey
      BY <2>4, <2>7 DEF GoodSession, SessionStructure
    <3>2. s.pending.timestamp \in Nat /\ now \in Nat
      BY <3>1 DEF PendingPreKey, Safe, Inv, TypeOK
    <3>3. s.pending.timestamp + MAX_UNACKNOWLEDGED_SESSION_AGE >= now
      BY <2>3, <2>7, <3>2, LimitsAssumption DEF IsStale
    <3> QED
      BY <2>2, <2>5, <2>7, <3>3
  <2> QED
    BY <2>6, <2>7
<1>2. Safe /\ CurrentAnswered /\ [Next]_vars => [NotStale]_vars
  BY <1>1
<1>3. Init => CurrentAnswered
  BY DEF Init, CurrentAnswered, HasCurrentSession
<1>4. Safe /\ CurrentAnswered /\ [Next]_vars => CurrentAnswered'
  <2>1. Safe /\ [Next]_vars => Step
    BY NextIsStep DEF Safe
  <2> QED
    BY <2>1, AnsweredStep
<1> QED
  BY <1>2, <1>3, <1>4, SessionAgreement, PTL DEF Spec, NoStaleSend
-----------------------------------------------------------------------------
(* The last part of the invariant: one-time pre-keys.                      *)

IsPreKey(m, base) == m.pre # None /\ m.pre.base_key = base

(* The pre-key messages of a session name one pre-key and go to one peer.  *)
OnePreKey ==
    \A m, d \in net : (m.pre # None /\ IsPreKey(d, m.pre.base_key)) =>
        d.pre.pre_key_id = m.pre.pre_key_id /\ d.to = m.to

PendingPreKeys ==
    \A p, q \in Party : \A s \in AllSessions(p, q) : \A m \in net :
        (s.pending # None /\ IsPreKey(m, s.alice_base_key)) =>
            m.pre.pre_key_id = s.pending.pre_key_id /\ m.to = q

OnePeer ==
    \A p, q, y \in Party : \A s \in AllSessions(p, q), t \in AllSessions(p, y) :
        (s.alice_base_key = t.alice_base_key /\ s.alice_base_key[1] = p) => q = y

(* A responder's session was created from a pre-key message.               *)
CreatedFrom(p, q, base) == \E m \in net : m.from = q /\ m.to = p /\ IsPreKey(m, base)

Responders ==
    \A p, q \in Party : \A s \in AllSessions(p, q) :
        s.alice_base_key[1] # p => CreatedFrom(p, q, s.alice_base_key)

(* The receiver's installation has used the one-time pre-key that m names, *)
(* for the session of m.                                                   *)
Uses(m) ==
    /\ m.pre # None /\ m.pre.pre_key_id # None
    /\ \/ \E s \in AllSessions(m.to, m.from) : s.alice_base_key = m.pre.base_key
       \/ m \in delivered /\ m.receiver_identity = identity[m.to]

PreKeyGone == \A m \in net : Uses(m) => pre_keys[m.to][m.pre.pre_key_id] = None

(* m and d are for one session, and name the same one-time pre-key.        *)
SameUse(m, d) ==
    /\ d.to = m.to /\ d.pre.pre_key_id = m.pre.pre_key_id
    /\ d.pre.base_key = m.pre.base_key

PreKeyOwner ==
    \A m, d \in net :
        (/\ Uses(m) /\ Uses(d)
         /\ m.to = d.to /\ m.pre.pre_key_id = d.pre.pre_key_id)
        => m.pre.base_key = d.pre.base_key

PreKeyNames == OnePreKey /\ PendingPreKeys /\ OnePeer /\ Responders
PreKeyUses  == PreKeyGone /\ PreKeyOwner /\ OneTimePreKeyOnce

(* s is of the base key of t, with its pre-key or none.                    *)
SameBase(s, t) == s.alice_base_key = t.alice_base_key /\ s.pending \in {t.pending, None}

LEMMA NamesKept ==
    ASSUME PreKeyNames, net' = net,
           \A x, y \in Party : \A s \in AllSessions(x, y)' :
               \E t \in AllSessions(x, y) : SameBase(s, t)
    PROVE  PreKeyNames'
<1>1. OnePreKey'
  BY DEF PreKeyNames, OnePreKey, IsPreKey
<1>2. PendingPreKeys'
  BY DEF PreKeyNames, PendingPreKeys, SameBase, IsPreKey
<1>3. OnePeer'
  <2> SUFFICES ASSUME NEW p \in Party, NEW q \in Party, NEW y \in Party,
                      NEW s \in AllSessions(p, q)', NEW t \in AllSessions(p, y)',
                      s.alice_base_key = t.alice_base_key, s.alice_base_key[1] = p
               PROVE  q = y
    BY DEF OnePeer
  <2>1. PICK v \in AllSessions(p, q) : SameBase(s, v)
    OBVIOUS
  <2>2. PICK w \in AllSessions(p, y) : SameBase(t, w)
    OBVIOUS
  <2>3. v.alice_base_key = w.alice_base_key /\ v.alice_base_key[1] = p
    BY <2>1, <2>2 DEF SameBase
  <2> QED
    BY <2>3 DEF PreKeyNames, OnePeer
<1>4. Responders'
  BY DEF PreKeyNames, Responders, CreatedFrom, SameBase, IsPreKey
<1> QED
  BY <1>1, <1>2, <1>3, <1>4 DEF PreKeyNames

(* The step puts u among the sessions of p for q.                          *)
LEMMA NamesWith ==
    ASSUME PreKeyNames, net' = net, NEW p \in Party, NEW q \in Party, NEW u,
           KeepsOthers(p, q, u),
           \A m \in net : (u.pending # None /\ IsPreKey(m, u.alice_base_key)) =>
               m.pre.pre_key_id = u.pending.pre_key_id /\ m.to = q,
           u.alice_base_key[1] = p =>
               \A y \in Party : \A t \in AllSessions(p, y) :
                   t.alice_base_key = u.alice_base_key => y = q,
           u.alice_base_key[1] # p => CreatedFrom(p, q, u.alice_base_key)
    PROVE  PreKeyNames'
<1>1. \A x, y \in Party : \A s \in AllSessions(x, y)' :
          \/ x = p /\ y = q /\ s = u
          \/ \E t \in AllSessions(x, y) : SameBase(s, t)
  BY DEF KeepsOthers, SameSession, SameBase
<1>2. OnePreKey'
  BY DEF PreKeyNames, OnePreKey, IsPreKey
<1>3. PendingPreKeys'
  BY <1>1 DEF PreKeyNames, PendingPreKeys, SameBase, IsPreKey
<1>4. OnePeer'
  <2> SUFFICES ASSUME NEW x \in Party, NEW y \in Party, NEW z \in Party,
                      NEW s \in AllSessions(x, y)', NEW t \in AllSessions(x, z)',
                      s.alice_base_key = t.alice_base_key, s.alice_base_key[1] = x
               PROVE  y = z
    BY DEF OnePeer
  <2>1. (x = p /\ y = q /\ s = u) \/ \E v \in AllSessions(x, y) : SameBase(s, v)
    BY <1>1
  <2>2. (x = p /\ z = q /\ t = u) \/ \E v \in AllSessions(x, z) : SameBase(t, v)
    BY <1>1
  <2>3. CASE s = u /\ x = p /\ y = q
    BY <2>2, <2>3 DEF SameBase
  <2>4. CASE t = u /\ x = p /\ z = q
    BY <2>1, <2>4 DEF SameBase
  <2>5. CASE ~(s = u /\ x = p /\ y = q) /\ ~(t = u /\ x = p /\ z = q)
    <3>1. PICK v \in AllSessions(x, y) : SameBase(s, v)
      BY <2>1, <2>5
    <3>2. PICK w \in AllSessions(x, z) : SameBase(t, w)
      BY <2>2, <2>5
    <3>3. v.alice_base_key = w.alice_base_key /\ v.alice_base_key[1] = x
      BY <3>1, <3>2 DEF SameBase
    <3> QED
      BY <3>3 DEF PreKeyNames, OnePeer
  <2> QED
    BY <2>3, <2>4, <2>5
<1>5. Responders'
  BY <1>1 DEF PreKeyNames, Responders, CreatedFrom, SameBase, IsPreKey
<1> QED
  BY <1>2, <1>3, <1>4, <1>5 DEF PreKeyNames

(* A base key that was just generated is in no message and no session.     *)
LEMMA NewBaseUnused ==
    ASSUME Safe, NEW p \in Party
    PROVE  /\ \A m \in net : ~IsPreKey(m, NewKey(p, 0))
           /\ \A x, y \in Party : \A t \in AllSessions(x, y) :
                 t.alice_base_key # NewKey(p, 0)
<1>1. ~Old(fresh, NewKey(p, 0))
  BY DEF Old, NewKey, Safe, Inv, TypeOK
<1>2. \A m \in net : m.pre # None => Old(fresh, m.pre.base_key)
  BY DEF Safe, Known, MessagesKnown, MessageFacts, OldRoot
<1>3. \A x, y \in Party : \A t \in AllSessions(x, y) : Old(fresh, t.alice_base_key)
  BY DEF Safe, Known, SessionsKnown, SessionFacts, OldRoot
<1> QED
  BY <1>1, <1>2, <1>3 DEF IsPreKey

LEMMA NamesSent ==
    ASSUME Safe, PreKeyNames, NEW p \in Party, NEW q \in Party, Sent(p, q)
    PROVE  PreKeyNames'
<1>1. PICK s \in AllSessions(p, q), u \in GoodSession, m \in CiphertextMessage :
          /\ s \in GoodSession /\ SessionFacts(p, q, s)
          /\ u.alice_base_key = s.alice_base_key /\ u.pending = s.pending
          /\ m.from = p /\ m.to = q /\ m.pre = PreKeyPartsOf(s)
          /\ net' = net \cup {m} /\ KeepsOthers(p, q, u)
  BY SentFields DEF Safe
<1>2. m.pre # None =>
          /\ s.pending # None /\ s.alice_base_key[1] = p
          /\ m.pre.base_key = s.alice_base_key
          /\ m.pre.pre_key_id = s.pending.pre_key_id
  BY <1>1 DEF PreKeyPartsOf, SessionFacts
<1>3. \A x, y \in Party : \A t \in AllSessions(x, y)' :
          \/ x = p /\ y = q /\ t = u
          \/ \E v \in AllSessions(x, y) :
                SameBase(t, v) /\ ((x = p /\ y = q) => v.alice_base_key # u.alice_base_key)
  BY <1>1 DEF KeepsOthers, SameSession, SameBase
<1>4. OnePreKey'
  <2> SUFFICES ASSUME NEW d \in net', NEW e \in net', d.pre # None, e.pre # None,
                      e.pre.base_key = d.pre.base_key
               PROVE  e.pre.pre_key_id = d.pre.pre_key_id /\ e.to = d.to
    BY DEF OnePreKey, IsPreKey
  <2>1. \A c \in net : (m.pre # None /\ IsPreKey(c, m.pre.base_key)) =>
            c.pre.pre_key_id = m.pre.pre_key_id /\ c.to = m.to
    BY <1>1, <1>2 DEF PreKeyNames, PendingPreKeys
  <2>2. d \in net \/ d = m
    BY <1>1
  <2>3. e \in net \/ e = m
    BY <1>1
  <2> QED
    BY <2>1, <2>2, <2>3 DEF PreKeyNames, OnePreKey, IsPreKey
<1>5. PendingPreKeys'
  <2> SUFFICES ASSUME NEW x \in Party, NEW y \in Party, NEW t \in AllSessions(x, y)',
                      NEW d \in net', t.pending # None, IsPreKey(d, t.alice_base_key)
               PROVE  d.pre.pre_key_id = t.pending.pre_key_id /\ d.to = y
    BY DEF PendingPreKeys, IsPreKey
  <2>1. PICK v \in AllSessions(x, y) :
            /\ v.alice_base_key = t.alice_base_key /\ v.pending = t.pending
            /\ (x = p /\ y = q /\ v = s) \/ ((x = p /\ y = q) => v.alice_base_key # s.alice_base_key)
    BY <1>1, <1>3 DEF SameBase
  <2>2. CASE d \in net
    BY <2>1, <2>2 DEF PreKeyNames, PendingPreKeys
  <2>3. CASE d = m
    <3>1. v.alice_base_key = s.alice_base_key /\ s.alice_base_key[1] = p
      BY <1>2, <2>1, <2>3 DEF IsPreKey
    <3>2. v.alice_base_key[1] = x
      BY <2>1 DEF Safe, Known, SessionsKnown, SessionFacts
    <3>3. x = p /\ y = q
      BY <3>1, <3>2 DEF PreKeyNames, OnePeer
    <3> QED
      BY <1>1, <1>2, <2>1, <2>3, <3>1, <3>3 DEF IsPreKey
  <2> QED
    BY <1>1, <2>2, <2>3
<1>6. OnePeer'
  <2> SUFFICES ASSUME NEW x \in Party, NEW y \in Party, NEW z \in Party,
                      NEW v \in AllSessions(x, y)', NEW w \in AllSessions(x, z)',
                      v.alice_base_key = w.alice_base_key, v.alice_base_key[1] = x
               PROVE  y = z
    BY DEF OnePeer
  <2>1. PICK t \in AllSessions(x, y) : t.alice_base_key = v.alice_base_key
    BY <1>1, <1>3 DEF SameBase
  <2>2. PICK t2 \in AllSessions(x, z) : t2.alice_base_key = w.alice_base_key
    BY <1>1, <1>3 DEF SameBase
  <2> QED
    BY <2>1, <2>2 DEF PreKeyNames, OnePeer
<1>7. Responders'
  <2> SUFFICES ASSUME NEW x \in Party, NEW y \in Party, NEW t \in AllSessions(x, y)',
                      t.alice_base_key[1] # x
               PROVE  CreatedFrom(x, y, t.alice_base_key)'
    BY DEF Responders
  <2>1. PICK v \in AllSessions(x, y) : v.alice_base_key = t.alice_base_key
    BY <1>1, <1>3 DEF SameBase
  <2>2. CreatedFrom(x, y, t.alice_base_key)
    BY <2>1 DEF PreKeyNames, Responders
  <2> QED
    BY <1>1, <2>2 DEF CreatedFrom, IsPreKey
<1> QED
  BY <1>4, <1>5, <1>6, <1>7 DEF PreKeyNames

LEMMA NamesStep == Safe /\ Step /\ PreKeyNames => PreKeyNames'
<1> SUFFICES ASSUME Safe, Step, PreKeyNames PROVE PreKeyNames'
  OBVIOUS
<1>1. ASSUME NEW p \in Party, NEW q \in Party, NEW b \in ServedBundles(q), Started(p, q, b)
      PROVE  PreKeyNames'
  <2>1. PICK u : u = StartedSession(p, b)
    OBVIOUS
  <2>2. PICK base \in Key : base = NewKey(p, 0)
    BY NewKeyType DEF Safe, Inv
  <2>3. u.alice_base_key = base /\ base[1] = p
    BY <2>1, <2>2, StartedFields DEF Safe, Inv, NewKey
  <2>4. KeepsOthers(p, q, u) /\ net' = net
    BY <1>1, <2>1 DEF Started
  <2>5. /\ \A m \in net : ~IsPreKey(m, base)
        /\ \A x, y \in Party : \A t \in AllSessions(x, y) : t.alice_base_key # base
    BY <2>2, NewBaseUnused
  <2> QED
    BY <2>3, <2>4, <2>5, NamesWith
<1>2. ASSUME NEW p \in Party, NEW q \in Party, Sent(p, q) PROVE PreKeyNames'
  BY <1>2, NamesSent
<1>3. ASSUME NEW m \in net, NEW s \in GoodSession, NEW u \in GoodSession,
             ReceivedOnOld(m, s, u)
      PROVE  PreKeyNames'
  <2>1. PICK p \in Party, q \in Party : p = m.to /\ q = m.from
    BY MessageType DEF Safe
  <2>2. /\ s \in AllSessions(p, q) /\ u.alice_base_key = s.alice_base_key /\ u.pending = None
        /\ KeepsOthers(p, q, u) /\ net' = net
    BY <1>3, <2>1 DEF ReceivedOnOld, Received, Accepts
  <2> QED
    BY <2>2, NamesWith DEF PreKeyNames, OnePeer, Responders
<1>4. ASSUME NEW m \in net, NEW u \in GoodSession, ReceivedOnNew(m, u)
      PROVE  PreKeyNames'
  <2>1. PICK p \in Party, q \in Party : p = m.to /\ q = m.from
    BY MessageType DEF Safe
  <2>2. PICK s \in GoodSession : s = CreatedSession(m)
    BY <1>4, NewReceiverFacts DEF Safe
  <2>3. s.alice_base_key = m.pre.base_key /\ m.pre # None
    BY <1>4, <2>2, CreatedFields DEF Safe, Inv, ReceivedOnNew
  <2>4. /\ u.alice_base_key = s.alice_base_key /\ u.pending = None
        /\ KeepsOthers(p, q, u) /\ net' = net
    BY <1>4, <2>1, <2>2 DEF ReceivedOnNew, Received, Accepts
  <2>5. m.pre.base_key[1] # p
    BY <2>1, <2>3 DEF Safe, Known, MessagesKnown, MessageFacts
  <2>6. CreatedFrom(p, q, u.alice_base_key)
    BY <2>1, <2>3, <2>4 DEF CreatedFrom, IsPreKey
  <2> QED
    BY <2>3, <2>4, <2>5, <2>6, NamesWith
<1>5. ASSUME NEW p \in Party, Reinstall(p) PROVE PreKeyNames'
  <2>1. /\ \A x, y \in Party : AllSessions(x, y)' = IF x = p THEN {} ELSE AllSessions(x, y)
        /\ net' = net
    BY <1>5, ReinstalledFields DEF Safe
  <2> QED
    BY <2>1, NamesKept DEF SameBase
<1>6. CASE Quiet
  <2>1. net' = net /\ \A x, y \in Party : \A s \in AllSessions(x, y)' :
                         \E t \in AllSessions(x, y) : SameBase(s, t)
    BY <1>6 DEF Quiet, KeepsAll, SameSession, SameBase
  <2> QED
    BY <2>1, NamesKept
<1> QED
  BY <1>1, <1>2, <1>3, <1>4, <1>5, <1>6 DEF Step
(* Every use after the step was one before it, of a key that stays used.   *)
LEMMA UsesKept ==
    ASSUME PreKeyUses, UNCHANGED delivered,
           \A m \in net' : Uses(m)' =>
               \E d \in net : /\ Uses(d) /\ SameUse(m, d)
                              /\ pre_keys[d.to][d.pre.pre_key_id] = None =>
                                    pre_keys'[d.to][d.pre.pre_key_id] = None
    PROVE  PreKeyUses'
<1>1. PreKeyGone'
  BY DEF PreKeyUses, PreKeyGone, SameUse
<1>2. PreKeyOwner'
  <2> SUFFICES ASSUME NEW m \in net', NEW d \in net', Uses(m)', Uses(d)', m.to = d.to,
                      m.pre.pre_key_id = d.pre.pre_key_id
               PROVE  m.pre.base_key = d.pre.base_key
    BY DEF PreKeyOwner
  <2>1. PICK m0 \in net : Uses(m0) /\ SameUse(m, m0)
    OBVIOUS
  <2>2. PICK d0 \in net : Uses(d0) /\ SameUse(d, d0)
    OBVIOUS
  <2> QED
    BY <2>1, <2>2 DEF PreKeyUses, PreKeyOwner, SameUse
<1>3. OneTimePreKeyOnce'
  BY DEF PreKeyUses, OneTimePreKeyOnce
<1> QED
  BY <1>1, <1>2, <1>3 DEF PreKeyUses

(* A message is received by an installation it was made for.               *)
LEMMA OnceReceived ==
    ASSUME Safe, PreKeyUses, PreKeyOwner', NEW m \in net, NEW s, NEW u, Received(m, s, u),
           ReceiverFacts(m, s)
    PROVE  OneTimePreKeyOnce'
<1>1. /\ delivered' = delivered \cup {m} /\ net' = net /\ identity' = identity
      /\ m.receiver_identity = identity[m.to]
  BY DEF Received, Deliver, Accepts, ReceiverFacts
<1>2. delivered' \subseteq net'
  BY <1>1 DEF Safe, Inv, TypeOK
<1> SUFFICES ASSUME NEW d \in delivered', NEW e \in delivered', d.pre # None, e.pre # None,
                    d.to = e.to, d.receiver_identity = e.receiver_identity,
                    d.pre.pre_key_id # None, d.pre.pre_key_id = e.pre.pre_key_id
             PROVE  d.pre.base_key = e.pre.base_key
  BY DEF OneTimePreKeyOnce
<1>3. CASE d \in delivered /\ e \in delivered
  BY <1>3 DEF PreKeyUses, OneTimePreKeyOnce
<1>4. CASE d = m \/ e = m
  <2>1. d.receiver_identity = identity'[d.to] /\ e.receiver_identity = identity'[e.to]
    BY <1>1, <1>4
  <2>2. Uses(d)' /\ Uses(e)'
    BY <2>1 DEF Uses
  <2> QED
    BY <1>2, <2>2 DEF PreKeyOwner
<1> QED
  BY <1>1, <1>3, <1>4

LEMMA UsesStarted ==
    ASSUME Safe, PreKeyUses, NEW p \in Party, NEW q \in Party, NEW b \in ServedBundles(q),
           Started(p, q, b)
    PROVE  PreKeyUses'
<1>1. PICK u : u = StartedSession(p, b)
  OBVIOUS
<1>2. PICK base \in Key : base = NewKey(p, 0)
  BY NewKeyType DEF Safe, Inv
<1>3. u.alice_base_key = base
  BY <1>1, <1>2, StartedFields DEF Safe, Inv
<1>4. KeepsOthers(p, q, u) /\ UNCHANGED << identity, pre_keys, net, delivered >>
  BY <1>1 DEF Started
<1>5. \A m \in net : ~IsPreKey(m, base)
  BY <1>2, NewBaseUnused
<1>6. ASSUME NEW m \in net, Uses(m)' PROVE Uses(m)
  <2>1. PICK x \in Party, y \in Party : x = m.to /\ y = m.from
    BY MessageType DEF Safe
  <2>2. CASE \E t \in AllSessions(x, y)' : t.alice_base_key = m.pre.base_key
    <3>1. PICK t \in AllSessions(x, y)' : t.alice_base_key = m.pre.base_key
      BY <2>2
    <3>2. t # u
      BY <1>3, <1>5, <1>6, <3>1 DEF Uses, IsPreKey
    <3>3. \E v \in AllSessions(x, y) : v.alice_base_key = m.pre.base_key
      BY <1>4, <3>1, <3>2 DEF KeepsOthers, SameSession
    <3> QED
      BY <1>6, <2>1, <3>3 DEF Uses
  <2>3. CASE m \in delivered /\ m.receiver_identity = identity[m.to]
    BY <1>6, <2>3 DEF Uses
  <2> QED
    BY <1>4, <1>6, <2>1, <2>2, <2>3 DEF Uses
<1> QED
  BY <1>4, <1>6, UsesKept DEF SameUse

LEMMA UsesSent ==
    ASSUME Safe, PreKeyNames, PreKeyUses, NEW p \in Party, NEW q \in Party, Sent(p, q)
    PROVE  PreKeyUses'
<1>1. PICK s \in AllSessions(p, q), u \in GoodSession, m \in CiphertextMessage :
          /\ SessionFacts(p, q, s)
          /\ u.alice_base_key = s.alice_base_key
          /\ m.from = p /\ m.to = q /\ m.pre = PreKeyPartsOf(s)
          /\ net' = net \cup {m} /\ KeepsOthers(p, q, u)
  BY SentFields DEF Safe
<1>2. UNCHANGED << identity, pre_keys, delivered >>
  BY DEF Sent
<1>3. \A x, y \in Party : \A t \in AllSessions(x, y)' :
          \E v \in AllSessions(x, y) : v.alice_base_key = t.alice_base_key
  BY <1>1 DEF KeepsOthers, SameSession
<1>4. ASSUME NEW d \in net, Uses(d)' PROVE Uses(d)
  <2>1. d.to \in Party /\ d.from \in Party
    BY MessageType DEF Safe
  <2>2. (\E t \in AllSessions(d.to, d.from)' : t.alice_base_key = d.pre.base_key) =>
            \E v \in AllSessions(d.to, d.from) : v.alice_base_key = d.pre.base_key
    BY <1>3, <2>1
  <2> QED
    BY <1>2, <1>4, <2>2 DEF Uses
<1>5. ASSUME Uses(m)', m \notin net
      PROVE  \E d \in net : Uses(d) /\ SameUse(m, d)
  <2>1. /\ m.pre # None /\ s.pending # None /\ s.alice_base_key[1] = p /\ p # q
        /\ m.pre.base_key = s.alice_base_key
        /\ m.pre.pre_key_id = s.pending.pre_key_id
    BY <1>1, <1>5 DEF Uses, PreKeyPartsOf, SessionFacts
  <2>2. m \notin delivered
    BY <1>5 DEF Safe, Inv, TypeOK
  <2>3. PICK t \in AllSessions(q, p)' : t.alice_base_key = m.pre.base_key
    BY <1>1, <1>2, <1>5, <2>2 DEF Uses
  <2>4. PICK v \in AllSessions(q, p) : v.alice_base_key = s.alice_base_key
    BY <1>3, <2>1, <2>3
  <2>5. CreatedFrom(q, p, s.alice_base_key)
    BY <2>1, <2>4 DEF PreKeyNames, Responders
  <2>6. PICK d \in net : d.from = p /\ d.to = q /\ IsPreKey(d, s.alice_base_key)
    BY <2>5 DEF CreatedFrom
  <2>7. d.pre.pre_key_id = s.pending.pre_key_id
    BY <1>1, <2>1, <2>6 DEF PreKeyNames, PendingPreKeys
  <2>8. m.pre.pre_key_id # None
    BY <1>5 DEF Uses
  <2>9. Uses(d) /\ SameUse(m, d)
    BY <1>1, <2>1, <2>4, <2>6, <2>7, <2>8 DEF Uses, SameUse, IsPreKey
  <2> QED
    BY <2>9
<1>6. ASSUME NEW d \in net', Uses(d)' PROVE \E e \in net : Uses(e) /\ SameUse(d, e)
  BY <1>1, <1>4, <1>5, <1>6 DEF SameUse
<1> QED
  BY <1>2, <1>6, UsesKept

LEMMA UsesOnOld ==
    ASSUME Safe, PreKeyUses, NEW m \in net, NEW s \in GoodSession, NEW u \in GoodSession,
           ReceivedOnOld(m, s, u)
    PROVE  PreKeyUses'
<1>1. PICK p \in Party, q \in Party : p = m.to /\ q = m.from
  BY MessageType DEF Safe
<1>2. /\ s \in AllSessions(p, q) /\ u.alice_base_key = s.alice_base_key
      /\ m.pre # None => s.alice_base_key = m.pre.base_key
      /\ KeepsOthers(p, q, u) /\ Received(m, s, u)
      /\ delivered' = delivered \cup {m}
      /\ UNCHANGED << identity, pre_keys, net >>
  BY <1>1 DEF ReceivedOnOld, Received, Accepts, Deliver
<1>3. ASSUME NEW d \in net, Uses(d)' PROVE Uses(d)
  <2>1. d.to \in Party /\ d.from \in Party
    BY MessageType DEF Safe
  <2>2. (\E t \in AllSessions(d.to, d.from)' : t.alice_base_key = d.pre.base_key) =>
            \E v \in AllSessions(d.to, d.from) : v.alice_base_key = d.pre.base_key
    BY <1>2, <2>1 DEF KeepsOthers, SameSession
  <2>3. d = m => Uses(d)
    BY <1>1, <1>2, <1>3 DEF Uses
  <2> QED
    BY <1>2, <1>3, <2>2, <2>3 DEF Uses
<1>4. PreKeyGone' /\ PreKeyOwner'
  BY <1>2, <1>3 DEF PreKeyUses, PreKeyGone, PreKeyOwner
<1>5. OneTimePreKeyOnce'
  BY <1>2, <1>4, OldReceiverFacts, OnceReceived DEF Safe
<1> QED
  BY <1>4, <1>5 DEF PreKeyUses

LEMMA UsesOnNew ==
    ASSUME Safe, PreKeyNames, PreKeyUses, NEW m \in net, NEW u \in GoodSession,
           ReceivedOnNew(m, u)
    PROVE  PreKeyUses'
<1>1. PICK p \in Party, q \in Party : p = m.to /\ q = m.from
  BY MessageType DEF Safe
<1>2. PICK s \in GoodSession : s = CreatedSession(m) /\ ReceiverFacts(m, s)
  BY NewReceiverFacts DEF Safe
<1>3. s.alice_base_key = m.pre.base_key /\ m.pre # None
  BY <1>2, CreatedFields DEF Safe, Inv, ReceivedOnNew
<1>4. /\ u.alice_base_key = m.pre.base_key
      /\ KeepsOthers(p, q, u) /\ Received(m, s, u)
      /\ delivered' = delivered \cup {m} /\ UNCHANGED << identity, net >>
      /\ CanGetPreKey(p, m) /\ pre_keys' = remove_pre_key(p, m)
  BY <1>1, <1>2, <1>3 DEF ReceivedOnNew, Received, Accepts, Deliver
<1>5. ASSUME NEW d \in net, Uses(d)' PROVE Uses(d) \/ SameUse(m, d)
  <2>1. d.to \in Party /\ d.from \in Party
    BY MessageType DEF Safe
  <2>2. d.pre # None /\ d.pre.pre_key_id # None
    BY <1>5 DEF Uses
  <2>3. d = m => SameUse(m, d)
    BY DEF SameUse
  <2>4. CASE \E t \in AllSessions(d.to, d.from)' : t.alice_base_key = d.pre.base_key
    <3>1. \/ d.to = p /\ d.pre.base_key = m.pre.base_key
          \/ \E v \in AllSessions(d.to, d.from) : v.alice_base_key = d.pre.base_key
      BY <1>4, <2>1, <2>4 DEF KeepsOthers, SameSession
    <3>2. d.pre.base_key = m.pre.base_key => d.pre.pre_key_id = m.pre.pre_key_id
      BY <1>3, <2>2 DEF PreKeyNames, OnePreKey, IsPreKey
    <3> QED
      BY <1>1, <2>2, <3>1, <3>2 DEF Uses, SameUse
  <2>5. CASE d \in delivered /\ d.receiver_identity = identity[d.to]
    BY <2>2, <2>5 DEF Uses
  <2> QED
    BY <1>4, <1>5, <2>3, <2>4, <2>5 DEF Uses
<1>6. pre_keys \in [Party -> [PreKeyId -> Key \cup {None}]]
      /\ m.pre.pre_key_id \in PreKeyId \cup {None}
  BY <1>3 DEF Safe, Inv, TypeOK, CiphertextMessage, PreKeyParts
<1>7. PreKeyGone'
  <2> SUFFICES ASSUME NEW d \in net, Uses(d)'
               PROVE  pre_keys'[d.to][d.pre.pre_key_id] = None
    BY <1>4 DEF PreKeyGone
  <2>1. d.to \in Party /\ d.pre.pre_key_id \in PreKeyId
    <3>1. d \in CiphertextMessage /\ d.pre # None /\ d.pre.pre_key_id # None
      BY MessageType DEF Safe, Uses
    <3> QED
      BY <3>1 DEF CiphertextMessage, PreKeyParts
  <2>2. CASE Uses(d)
    <3>1. pre_keys[d.to][d.pre.pre_key_id] = None
      BY <2>2 DEF PreKeyUses, PreKeyGone
    <3> QED
      BY <1>4, <1>6, <2>1, <3>1 DEF remove_pre_key
  <2>3. CASE SameUse(m, d)
    <3>1. d.to = p /\ d.pre.pre_key_id = m.pre.pre_key_id /\ m.pre.pre_key_id # None
      BY <1>1, <2>3 DEF SameUse, Uses
    <3> QED
      BY <1>4, <1>6, <2>1, <3>1 DEF remove_pre_key
  <2> QED
    BY <1>5, <2>2, <2>3
<1>8. PreKeyOwner'
  <2> SUFFICES ASSUME NEW d \in net, NEW e \in net, Uses(d)', Uses(e)', d.to = e.to,
                      d.pre.pre_key_id = e.pre.pre_key_id
               PROVE  d.pre.base_key = e.pre.base_key
    BY <1>4 DEF PreKeyOwner
  <2>1. d.pre.pre_key_id # None
    BY DEF Uses
  <2>2. \A c \in net : Uses(c) /\ c.to = p /\ c.pre.pre_key_id # None =>
            c.pre.pre_key_id # m.pre.pre_key_id
    BY <1>4 DEF PreKeyUses, PreKeyGone, CanGetPreKey
  <2>3. CASE Uses(d) /\ Uses(e)
    BY <2>3 DEF PreKeyUses, PreKeyOwner
  <2>4. CASE SameUse(m, d) /\ SameUse(m, e)
    BY <2>4 DEF SameUse
  <2>5. ~(Uses(d) /\ SameUse(m, e)) /\ ~(Uses(e) /\ SameUse(m, d))
    BY <1>1, <2>1, <2>2 DEF SameUse
  <2> QED
    BY <1>5, <2>3, <2>4, <2>5
<1>9. OneTimePreKeyOnce'
  BY <1>2, <1>4, <1>8, OnceReceived
<1> QED
  BY <1>7, <1>8, <1>9 DEF PreKeyUses

LEMMA UsesReinstalled ==
    ASSUME Safe, PreKeyUses, NEW p \in Party, Reinstall(p)
    PROVE  PreKeyUses'
<1>1. /\ \A x, y \in Party : AllSessions(x, y)' = IF x = p THEN {} ELSE AllSessions(x, y)
      /\ \A x \in Party : x # p => identity'[x] = identity[x] /\ pre_keys'[x] = pre_keys[x]
      /\ identity'[p] = << p, fresh[p] >> /\ UNCHANGED << net, delivered >>
  BY ReinstalledFields DEF Safe, Remains
<1>2. ~Old(fresh, << p, fresh[p] >>)
  BY DEF Old, Safe, Inv, TypeOK
<1>3. ASSUME NEW m \in net, Uses(m)' PROVE m.to # p /\ Uses(m)
  <2>1. m.to \in Party /\ m.from \in Party
    BY MessageType DEF Safe
  <2>2. Old(fresh, m.receiver_identity)
    BY DEF Safe, Known, MessagesKnown, MessageFacts
  <2>3. m.receiver_identity # << p, fresh[p] >>
    BY <1>2, <2>2
  <2>4. m.to # p
    BY <1>1, <1>3, <2>1, <2>3 DEF Uses
  <2> QED
    BY <1>1, <1>3, <2>1, <2>4 DEF Uses
<1>4. ASSUME NEW m \in net', Uses(m)'
      PROVE  \E d \in net : /\ Uses(d) /\ SameUse(m, d)
                            /\ pre_keys[d.to][d.pre.pre_key_id] = None =>
                                  pre_keys'[d.to][d.pre.pre_key_id] = None
  BY <1>1, <1>3, <1>4, MessageType DEF SameUse, Safe
<1> QED
  BY <1>1, <1>4, UsesKept

LEMMA UsesQuiet ==
    ASSUME Safe, PreKeyUses, Quiet
    PROVE  PreKeyUses'
<1>1. ASSUME NEW m \in net, Uses(m)'
      PROVE  /\ Uses(m)
             /\ pre_keys[m.to][m.pre.pre_key_id] = None =>
                   pre_keys'[m.to][m.pre.pre_key_id] = None
  <2>1. m \in CiphertextMessage /\ m.to \in Party /\ m.from \in Party /\ m.pre # None
        /\ m.pre.pre_key_id # None
    BY <1>1, MessageType DEF Safe, Uses
  <2>2. m.pre.pre_key_id \in PreKeyId
    BY <2>1 DEF CiphertextMessage, PreKeyParts
  <2>3. (\E t \in AllSessions(m.to, m.from)' : t.alice_base_key = m.pre.base_key) =>
            \E v \in AllSessions(m.to, m.from) : v.alice_base_key = m.pre.base_key
    BY <2>1 DEF Quiet, KeepsAll, SameSession
  <2> QED
    BY <1>1, <2>1, <2>2, <2>3 DEF Uses, Quiet
<1>2. UNCHANGED << net, delivered >>
  BY DEF Quiet
<1>3. ASSUME NEW m \in net', Uses(m)'
      PROVE  \E d \in net : /\ Uses(d) /\ SameUse(m, d)
                            /\ pre_keys[d.to][d.pre.pre_key_id] = None =>
                                  pre_keys'[d.to][d.pre.pre_key_id] = None
  BY <1>1, <1>2, <1>3 DEF SameUse
<1> QED
  BY <1>2, <1>3, UsesKept

LEMMA UsesStep == Safe /\ Step /\ PreKeyNames /\ PreKeyUses => PreKeyUses'
BY UsesStarted, UsesSent, UsesOnOld, UsesOnNew, UsesReinstalled, UsesQuiet DEF Step

LEMMA InitPreKeys == Init => PreKeyNames /\ PreKeyUses
<1> SUFFICES ASSUME Init PROVE PreKeyNames /\ PreKeyUses
  OBVIOUS
<1>1. /\ net = {} /\ delivered = {}
      /\ \A p, q \in Party : AllSessions(p, q) = {}
  BY DEF Init, AllSessions
<1> QED
  BY <1>1 DEF PreKeyNames, OnePreKey, PendingPreKeys, OnePeer, Responders,
              PreKeyUses, PreKeyGone, PreKeyOwner, OneTimePreKeyOnce

(* A one-time pre-key serves one session: message_decrypt_prekey removes   *)
(* it when it creates a session, and what it accepts later under that id   *)
(* is for the session that is there already, also when a store call failed *)
(* in between and when pre-key messages were repeated or reordered.        *)
THEOREM SessionOneTimePreKeyOnce == Spec => []OneTimePreKeyOnce
<1>1. Safe /\ PreKeyNames /\ PreKeyUses /\ [Next]_vars => PreKeyNames' /\ PreKeyUses'
  <2>1. Safe /\ [Next]_vars => Step
    BY NextIsStep DEF Safe
  <2> QED
    BY <2>1, NamesStep, UsesStep
<1>2. PreKeyUses => OneTimePreKeyOnce
  BY DEF PreKeyUses
<1> QED
  BY <1>1, <1>2, InitPreKeys, SessionAgreement, PTL DEF Spec
=============================================================================
