------------------------------- MODULE Session -------------------------------
(***************************************************************************)
(* One-to-one sessions between devices: the key agreement, the Double      *)
(* Ratchet and the stores each device keeps, over a network that may       *)
(* lose, reorder and duplicate messages.                                   *)
(*                                                                         *)
(* One action stands for one call of the library's API, from loading the   *)
(* session to the last store call: message_encrypt, message_decrypt_signal *)
(* and message_decrypt_prekey (session_cipher.rs), process_prekey_bundle   *)
(* (session.rs) and SessionRecord::archive_current_state.  The stores are  *)
(* the in-memory ones (storage/inmem.rs), except that a store call may     *)
(* fail: `writes` counts the store calls that succeed before the first     *)
(* failure.  A call that returns an error before its first store call      *)
(* changes nothing and is a stuttering step.                               *)
(***************************************************************************)
EXTENDS SessionState

CONSTANTS
    Linked,         \* TRUE: the devices belong to one account and share its identity
    MaxMessages,    \* bound: ciphertexts released
    MaxBundles,     \* bound: sessions initiated with process_prekey_bundle
    MaxArchives,    \* bound: calls of archive_current_state
    MaxReinstalls,  \* bound: devices that start over with new stores
    MaxFaults,      \* bound: store calls that fail
    MaxTime         \* bound: the clock

ASSUME BoundsAssumption ==
    /\ Linked \in BOOLEAN
    /\ {MaxMessages, MaxBundles, MaxArchives, MaxReinstalls, MaxFaults, MaxTime}
         \subseteq Nat

VARIABLES
    identity,    \* p -> identity key pair of p's current installation
    signed,      \* p -> signed pre-key       (InMemSignedPreKeyStore, one id)
    kyber,       \* p -> kyber pre-key        (InMemKyberPreKeyStore, one id)
    pre_keys,    \* p -> id -> one-time pre-key or None        (InMemPreKeyStore)
    base_keys_seen, \* p -> base keys used with p's kyber pre-key (InMemKyberPreKeyStore)
    known_keys,  \* p -> q -> identity pinned for q or None (InMemIdentityKeyStore)
    sessions,    \* p -> q -> session record or None           (InMemSessionStore)
    published,   \* p -> public keys p has uploaded, one entry per installation
    fresh,       \* p -> number of the next key p generates
    now,         \* the clock
    net,         \* every ciphertext ever released; delivery removes nothing
    delivered,   \* ciphertexts whose plaintext was returned to the application
    replayed,    \* those whose plaintext was returned more than once
    count        \* the bounded operations performed so far

stores == << identity, signed, kyber, pre_keys, base_keys_seen, known_keys,
             sessions >>
vars == << stores, published, fresh, now, net, delivered, replayed, count >>

-----------------------------------------------------------------------------
(* Types.                                                                  *)

PreKeyParts == [pre_key_id : PreKeyId \cup {None}, base_key : Key,
                kyber_ciphertext : Kem, identity_key : Key]

(* A SignalMessage, inside a PreKeySignalMessage when pre is not None.     *)
(* chain_key and counter name the message key it is encrypted and          *)
(* authenticated with; number tells apart the ciphertexts of a sender.     *)
CiphertextMessage ==
    [from : Party, to : Party, number : Nat,
     sender_ratchet : Key, counter : Nat, chain_key : RootKey, pq : PqRatchet,
     sender_identity : Key, receiver_identity : Key,
     pre : PreKeyParts \cup {None}]

Installation == [identity : Key, signed : Key, kyber : Key,
                 pre_keys : [PreKeyId -> Key]]

Counts == [bundles : Nat, archives : Nat, reinstalls : Nat, faults : Nat]

TypeOK ==
    /\ identity \in [Party -> Key]
    /\ signed \in [Party -> Key]
    /\ kyber \in [Party -> Key]
    /\ pre_keys \in [Party -> [PreKeyId -> Key \cup {None}]]
    /\ base_keys_seen \in [Party -> SUBSET Key]
    /\ known_keys \in [Party -> [Party -> Key \cup {None}]]
    /\ sessions \in [Party -> [Party -> SessionRecord \cup {None}]]
    /\ published \in [Party -> Seq(Installation)]
    /\ fresh \in [Party -> Nat]
    /\ now \in Nat
    /\ net \subseteq CiphertextMessage
    /\ delivered \subseteq net
    /\ replayed \subseteq delivered
    /\ count \in Counts

-----------------------------------------------------------------------------
(* The stores (storage/inmem.rs).                                          *)

Peers(p) == Party \ {p}

(* Trust on first use.                                                     *)
is_trusted_identity_always(p, q, key) == TRUE
is_trusted_identity(p, q, key) ==
    known_keys[p][q] = None \/ known_keys[p][q] = key

save_identity(p, q, key) == [known_keys EXCEPT ![p][q] = key]

store_session(p, q, r) == [sessions EXCEPT ![p][q] = r]

(* load_session followed by unwrap_or_else(SessionRecord::new_fresh).      *)
load_or_fresh(p, q) ==
    IF sessions[p][q] = None THEN new_fresh ELSE sessions[p][q]

(* A store call fails: the call returns the error and does not go on.      *)
Fault(writes, all) ==
    \/ writes = all /\ UNCHANGED count
    \/ /\ writes < all
       /\ count.faults < MaxFaults
       /\ count' = [count EXCEPT !.faults = @ + 1]

(* The call returns Ok: its last store call succeeded.                     *)
ReturnsOkUnchecked(writes, all) == writes >= all - 1
ReturnsOk(writes, all) == writes = all

(* The n-th key pair that p generates in this call.  A call that fails     *)
(* drops what it generated, so its names are free again.                   *)
NewKey(p, n) == << p, fresh[p] + n >>

-----------------------------------------------------------------------------
(* A new InMemSignalProtocolStore with the pre-keys that the application   *)
(* generates for it, numbered from n on.                                   *)

(* Linked devices have the identity key of their account.                  *)
Account == CHOOSE p \in Party : TRUE

NewInstallation(p, id, n) ==
    [identity |-> id, signed |-> << p, n + 1 >>, kyber |-> << p, n + 2 >>,
     pre_keys |-> [i \in PreKeyId |-> << p, n + 2 + i >>]]

KeysPerInstallation == 3 + NumPreKeys

FirstInstallation(p) ==
    NewInstallation(p, IF Linked THEN << Account, 0 >> ELSE << p, 0 >>, 0)

Init ==
    /\ identity = [p \in Party |-> FirstInstallation(p).identity]
    /\ signed = [p \in Party |-> FirstInstallation(p).signed]
    /\ kyber = [p \in Party |-> FirstInstallation(p).kyber]
    /\ pre_keys = [p \in Party |-> FirstInstallation(p).pre_keys]
    /\ base_keys_seen = [p \in Party |-> {}]
    /\ known_keys = [p \in Party |-> [q \in Party |-> None]]
    /\ sessions = [p \in Party |-> [q \in Party |-> None]]
    /\ published = [p \in Party |-> << FirstInstallation(p) >>]
    /\ fresh = [p \in Party |-> KeysPerInstallation]
    /\ now = 0
    /\ net = {}
    /\ delivered = {}
    /\ replayed = {}
    /\ count = [bundles |-> 0, archives |-> 0, reinstalls |-> 0, faults |-> 0]

-----------------------------------------------------------------------------
(* process_prekey_bundle.  The bundle comes from a server outside the      *)
(* library; it may be the one of an earlier installation, hand out the     *)
(* same one-time pre-key again, and mix the identity of one installation   *)
(* with the pre-keys of another, whose signature then does not verify.     *)

Bundle(i, j, id) ==
    [identity |-> i.identity, signature |-> j.identity,
     signed |-> j.signed, kyber |-> j.kyber,
     pre_key_id |-> id, pre_key |-> IF id = None THEN None ELSE j.pre_keys[id]]

ServedBundles(q) ==
    {Bundle(published[q][i], published[q][j], id) :
        i \in DOMAIN published[q], j \in DOMAIN published[q],
        id \in PreKeyId \cup {None}}

(* One signature for the two that the code checks, of the signed pre-key   *)
(* and of the Kyber pre-key: the identity key verifies both.               *)
verify_signature(bundle) == bundle.signature = bundle.identity

process_prekey_bundle(p, q, bundle, writes) ==
    LET base    == NewKey(p, 0)
        alice   == initialize_alice_session(identity[p], base, NewKey(p, 1), bundle)
        session == set_unacknowledged_pre_key_message(alice, bundle.pre_key_id,
                        encapsulate(bundle.kyber, base), now)
    IN  /\ count.bundles < MaxBundles
        /\ is_trusted_identity(p, q, bundle.identity)
        /\ verify_signature(bundle)
        /\ writes \in 1 .. 2
        /\ \/ writes = 2 /\ count' = [count EXCEPT !.bundles = @ + 1]
           \/ writes < 2 /\ Fault(writes, 2)
        /\ known_keys' = save_identity(p, q, bundle.identity)
        /\ sessions' = IF writes = 2
                         THEN store_session(p, q, promote_state(load_or_fresh(p, q), session))
                         ELSE sessions
        /\ fresh' = IF writes = 2 THEN [fresh EXCEPT ![p] = @ + 2] ELSE fresh
        /\ UNCHANGED << identity, signed, kyber, pre_keys, base_keys_seen,
                        published, now, net, delivered, replayed >>

-----------------------------------------------------------------------------
(* message_encrypt.                                                        *)

PreKeyPartsOf(s) ==
    IF s.pending = None THEN None
    ELSE [pre_key_id       |-> s.pending.pre_key_id,
          base_key         |-> s.pending.base_key,
          kyber_ciphertext |-> s.pending.kyber_ciphertext,
          identity_key     |-> s.local_identity]

Ciphertext(p, q, s) ==
    [from |-> p, to |-> q, number |-> Cardinality({m \in net : m.from = p}),
     sender_ratchet |-> s.sender_ratchet, counter |-> s.sender_chain.index,
     chain_key |-> s.sender_chain.key, pq |-> s.pq,
     sender_identity |-> s.local_identity, receiver_identity |-> s.remote_identity,
     pre |-> PreKeyPartsOf(s)]

HasCurrentSession(p, q) ==
    sessions[p][q] # None /\ sessions[p][q].current # None

(* The sender chain moves past the key just used.                          *)
set_sender_chain_key(r) == [r EXCEPT !.current.sender_chain.index = @ + 1]

message_encrypt(p, q, writes) ==
    LET r == sessions[p][q]
        s == r.current
    IN  /\ Cardinality(net) < MaxMessages
        /\ HasCurrentSession(p, q)
        /\ ~IsStale(s, now)
        /\ is_trusted_identity(p, q, s.remote_identity)
        /\ writes \in 1 .. 2
        /\ Fault(writes, 2)
        /\ known_keys' = save_identity(p, q, s.remote_identity)
        /\ sessions' = IF writes = 2
                         THEN store_session(p, q, set_sender_chain_key(r))
                         ELSE sessions
        /\ net' = IF ReturnsOk(writes, 2)
                    THEN net \cup {Ciphertext(p, q, s)} ELSE net
        /\ UNCHANGED << identity, signed, kyber, pre_keys, base_keys_seen,
                        published, fresh, now, delivered, replayed >>

-----------------------------------------------------------------------------
(* message_decrypt_signal.                                                 *)

(* The plaintext of m is handed to the application.                        *)
Deliver(m) ==
    /\ delivered' = delivered \cup {m}
    /\ replayed' = IF m \in delivered THEN replayed \cup {m} ELSE replayed

message_decrypt_signal(p, q, m, writes) ==
    LET d == decrypt_message_with_record(sessions[p][q], m, NewKey(p, 0),
                                         Places(sessions[p][q]))
        their_identity == d.record.current.remote_identity
    IN  /\ m.pre = None
        /\ sessions[p][q] # None
        /\ d.outcome = "ok"
        /\ is_trusted_identity(p, q, their_identity)
        /\ writes \in 1 .. 2
        /\ Fault(writes, 2)
        /\ known_keys' = save_identity(p, q, their_identity)
        /\ \/ /\ writes = 2
              /\ sessions' = store_session(p, q, d.record)
              /\ fresh' = [fresh EXCEPT ![p] = @ + 1]
           \/ writes < 2 /\ UNCHANGED << sessions, fresh >>
        /\ IF ReturnsOk(writes, 2) THEN Deliver(m)
                                   ELSE UNCHANGED << delivered, replayed >>
        /\ UNCHANGED << identity, signed, kyber, pre_keys, base_keys_seen,
                        published, now, net >>

-----------------------------------------------------------------------------
(* process_prekey and message_decrypt_prekey.                              *)

(* Has the record a session for this pre-key message already?              *)
HasMatching(p, q, m) ==
    MatchingSessions(load_or_fresh(p, q), m.pre.base_key) # {}

(* The one-time pre-key that the message names is still in the store.      *)
CanGetPreKey(p, m) ==
    m.pre.pre_key_id # None => pre_keys[p][m.pre.pre_key_id] # None

GetPreKey(p, m) ==
    IF m.pre.pre_key_id = None THEN None ELSE pre_keys[p][m.pre.pre_key_id]

process_prekey(p, q, m) ==
    IF HasMatching(p, q, m)
      THEN promote_matching_session(load_or_fresh(p, q), m.pre.base_key)
      ELSE promote_state(load_or_fresh(p, q),
             initialize_bob_session(identity[p], signed[p], kyber[p],
                                    GetPreKey(p, m), m.pre))

decrypt_prekey(p, q, m) ==
    decrypt_message_with_record(process_prekey(p, q, m), m, NewKey(p, 0), {0})

(* mark_kyber_pre_key_used refuses a base key it has seen.                 *)
CanMarkKyberPreKeyAlways(p, m) == TRUE
CanMarkKyberPreKey(p, m) == m.pre.base_key \notin base_keys_seen[p]

mark_kyber_pre_key_used(p, m) ==
    [base_keys_seen EXCEPT ![p] = @ \cup {m.pre.base_key}]

remove_pre_key_skipped(p, m) == pre_keys
remove_pre_key(p, m) ==
    IF m.pre.pre_key_id = None THEN pre_keys
    ELSE [pre_keys EXCEPT ![p][m.pre.pre_key_id] = None]

(* The order of the store calls: identity, kyber pre-key, one-time         *)
(* pre-key, session.  The middle two only when a session was created.      *)
message_decrypt_prekey(p, q, m, writes) ==
    LET d       == decrypt_prekey(p, q, m)
        created == ~HasMatching(p, q, m)
    IN  /\ m.pre # None
        /\ is_trusted_identity(p, q, m.pre.identity_key)
        /\ created => CanGetPreKey(p, m)
        /\ d.outcome = "ok"
        /\ writes \in 1 .. 4
        /\ created \/ writes \notin 2 .. 3
        /\ \/ Fault(writes, 4)
           \/ created /\ writes = 1 /\ ~CanMarkKyberPreKey(p, m) /\ UNCHANGED count
        /\ (created /\ writes > 1) => CanMarkKyberPreKey(p, m)
        /\ known_keys' = save_identity(p, q, m.pre.identity_key)
        /\ base_keys_seen' = IF created /\ writes >= 2
                               THEN mark_kyber_pre_key_used(p, m) ELSE base_keys_seen
        /\ pre_keys' = IF created /\ writes >= 3
                         THEN remove_pre_key(p, m) ELSE pre_keys
        /\ \/ /\ writes = 4
              /\ sessions' = store_session(p, q, d.record)
              /\ fresh' = [fresh EXCEPT ![p] = @ + 1]
           \/ writes < 4 /\ UNCHANGED << sessions, fresh >>
        /\ IF ReturnsOk(writes, 4) THEN Deliver(m)
                                   ELSE UNCHANGED << delivered, replayed >>
        /\ UNCHANGED << identity, signed, kyber, published, now, net >>

-----------------------------------------------------------------------------
(* The application's own calls and the environment.                        *)

(* The application archives the current session and stores the record.     *)
archive_session(p, q) ==
    /\ count.archives < MaxArchives
    /\ HasCurrentSession(p, q)
    /\ sessions' = store_session(p, q, archive_current_state(sessions[p][q]))
    /\ count' = [count EXCEPT !.archives = @ + 1]
    /\ UNCHANGED << identity, signed, kyber, pre_keys, base_keys_seen, known_keys,
                    published, fresh, now, net, delivered, replayed >>

(* The user accepts the identity of the peer's new installation.           *)
AcceptIdentity(p, q) ==
    /\ known_keys[p][q] # None
    /\ known_keys[p][q] # identity[q]
    /\ known_keys' = save_identity(p, q, identity[q])
    /\ UNCHANGED << identity, signed, kyber, pre_keys, base_keys_seen, sessions,
                    published, fresh, now, net, delivered, replayed, count >>

(* The device starts over: InMemSignalProtocolStore::new, new pre-keys     *)
(* under the ids of the old ones, uploaded to the server.                  *)
Reinstall(p) ==
    LET i == NewInstallation(p, NewKey(p, 0), fresh[p])
    IN  /\ count.reinstalls < MaxReinstalls
        /\ identity' = [identity EXCEPT ![p] = i.identity]
        /\ signed' = [signed EXCEPT ![p] = i.signed]
        /\ kyber' = [kyber EXCEPT ![p] = i.kyber]
        /\ pre_keys' = [pre_keys EXCEPT ![p] = i.pre_keys]
        /\ base_keys_seen' = [base_keys_seen EXCEPT ![p] = {}]
        /\ known_keys' = [known_keys EXCEPT ![p] = [q \in Party |-> None]]
        /\ sessions' = [sessions EXCEPT ![p] = [q \in Party |-> None]]
        /\ published' = [published EXCEPT ![p] = Append(@, i)]
        /\ fresh' = [fresh EXCEPT ![p] = @ + KeysPerInstallation]
        /\ count' = [count EXCEPT !.reinstalls = @ + 1]
        /\ UNCHANGED << now, net, delivered, replayed >>

Tick ==
    /\ now < MaxTime
    /\ now' = now + 1
    /\ UNCHANGED << stores, published, fresh, net, delivered, replayed, count >>

-----------------------------------------------------------------------------
StartSession(p, q) ==
    \E b \in ServedBundles(q), w \in 1 .. 2 : process_prekey_bundle(p, q, b, w)

Encrypt(p, q) == \E w \in 1 .. 2 : message_encrypt(p, q, w)

DecryptSignal(m) ==
    \E w \in 1 .. 2 : message_decrypt_signal(m.to, m.from, m, w)

DecryptPreKey(m) ==
    \E w \in 1 .. 4 : message_decrypt_prekey(m.to, m.from, m, w)

Next ==
    \/ \E p \in Party : \E q \in Peers(p) :
          \/ StartSession(p, q)
          \/ Encrypt(p, q)
          \/ archive_session(p, q)
          \/ AcceptIdentity(p, q)
    \/ \E m \in net : DecryptSignal(m) \/ DecryptPreKey(m)
    \/ \E p \in Party : Reinstall(p)
    \/ Tick

Spec == Init /\ [][Next]_vars

-----------------------------------------------------------------------------
(* Properties.                                                             *)

(* The sessions of a record, the current one included.                     *)
SessionsOf(r) == {SessionAt(r, i) : i \in Places(r)}

AllSessions(p, q) ==
    IF sessions[p][q] = None THEN {} ELSE SessionsOf(sessions[p][q])

(* The limits of consts.rs: however a record was reached, its archive, the *)
(* receiver chains of each session and the skipped keys of each chain stay *)
(* within their bounds, a skipped key is always older than its chain, and  *)
(* no two chains of a session have the same ratchet key.                   *)
WithinLimits(s) ==
    /\ Len(s.receiver_chains) <= MAX_RECEIVER_CHAINS
    /\ \A i \in DOMAIN s.receiver_chains :
          LET c == s.receiver_chains[i] IN
          /\ IsFiniteSet(c.message_keys)
          /\ Cardinality(c.message_keys) <= MAX_MESSAGE_KEYS
          /\ \A n \in c.message_keys : n < c.chain.index
          /\ \A j \in DOMAIN s.receiver_chains :
                s.receiver_chains[j].sender = c.sender => i = j

LimitsRespected ==
    \A p, q \in Party : sessions[p][q] # None =>
        /\ Len(sessions[p][q].previous) <= ARCHIVED_STATES_MAX_LENGTH
        /\ \A s \in SessionsOf(sessions[p][q]) : WithinLimits(s)

(* promote_matching_session finds a session by its base key alone, so a    *)
(* record never holds two sessions with one base key, current or archived. *)
BaseKeysUnique ==
    \A p, q \in Party : sessions[p][q] # None =>
        LET r == sessions[p][q] IN
        \A i, j \in Places(r) :
            SessionAt(r, i).alice_base_key = SessionAt(r, j).alice_base_key => i = j

(* No ciphertext is decrypted twice, whatever the network repeats: not     *)
(* after the session was archived or pushed out of the archive, and not    *)
(* when the one-time pre-key it named is still there.                      *)
AtMostOnce == replayed = {}

(* Two ciphertexts never use the same message key: not after an encryption *)
(* that failed half-way, nor when an old session becomes current again.    *)
NoKeyReuse ==
    \A m1, m2 \in net :
        (m1.chain_key = m2.chain_key /\ m1.counter = m2.counter) => m1 = m2

(* Forward secrecy of the stored state: once a ciphertext was decrypted,   *)
(* no session kept by the receiver holds its key or a chain or root key it *)
(* can still be derived from, and the sender's chain has moved past it.    *)
CanDerive(s, m) ==
    \/ \E i \in DOMAIN s.receiver_chains :
          LET c == s.receiver_chains[i] IN
          /\ c.chain.key = m.chain_key
          /\ c.chain.index <= m.counter \/ m.counter \in c.message_keys
    \/ create_chain(s.root_key, m.sender_ratchet, s.sender_ratchet) = m.chain_key
    \/ s.sender_chain.key = m.chain_key /\ s.sender_chain.index <= m.counter

ForwardSecrecy ==
    \A m \in delivered :
        \A s \in AllSessions(m.to, m.from) \cup AllSessions(m.from, m.to) :
            ~CanDerive(s, m)

(* A one-time pre-key serves one session: of the pre-key messages naming   *)
(* it that an installation accepts, all are of one initiator's base key.   *)
OneTimePreKeyOnce ==
    \A m1, m2 \in delivered :
        (/\ m1.pre # None /\ m2.pre # None
         /\ m1.to = m2.to /\ m1.receiver_identity = m2.receiver_identity
         /\ m1.pre.pre_key_id # None /\ m1.pre.pre_key_id = m2.pre.pre_key_id)
        => m1.pre.base_key = m2.pre.base_key

(* The two ends of a session agree on its secret, their root keys are      *)
(* exactly one ratchet step apart, and the one behind can take that step   *)
(* from the ratchet key of the one ahead.                                  *)
RatchetAgreement ==
    \A p \in Party : \A q \in Peers(p) :
        \A s \in AllSessions(p, q), t \in AllSessions(q, p) :
            (/\ s.alice_base_key = t.alice_base_key
             /\ Len(s.root_key.path) <= Len(t.root_key.path))
            => /\ s.pq.auth = t.pq.auth /\ s.pq.direction # t.pq.direction
               /\ t.root_key = create_chain(s.root_key, t.sender_ratchet, s.sender_ratchet)

(* A pinned identity is only ever replaced by the user's decision, and no  *)
(* ciphertext is released to, nor a plaintext accepted from, another       *)
(* identity than the pinned one, although message_encrypt and              *)
(* message_decrypt_signal make that check last.                            *)
IdentityPinned ==
    [][/\ \A p, q \in Party :
             (known_keys[p][q] # None /\ known_keys'[p][q] # known_keys[p][q])
             => AcceptIdentity(p, q) \/ Reinstall(p)
       /\ \A m \in net' \ net : m.receiver_identity = known_keys'[m.from][m.to]
       /\ \A m \in delivered' \ delivered :
             m.sender_identity = known_keys'[m.to][m.from]]_vars

(* A session that its initiator has let go stale is not used to send: each *)
(* ciphertext of an initiator follows an answer received on its session,   *)
(* or is sent within the maximum age, also when the session was archived   *)
(* and came back.                                                          *)
NoStaleSend ==
    [][\A m \in net' \ net : m.pq.direction = "A2B" =>
          \/ \E d \in delivered : /\ d.to = m.from
                                  /\ d.chain_key.secret = m.chain_key.secret
          \/ LET s == sessions[m.from][m.to].current IN
             /\ s.pending # None
             /\ s.pending.timestamp + MAX_UNACKNOWLEDGED_SESSION_AGE >= now]_vars

(* The sessions implement the abstract channel: behind every plaintext     *)
(* handed out, whatever session, chain and pre-keys it took, is the first  *)
(* receipt of a message that was sent, under the pinned identity, and a    *)
(* call that fails half-way is a step that sends and receives nothing.     *)
AbstractChannel == INSTANCE Channel WITH
    sent     <- net,
    received <- [m \in delivered |-> IF m \in replayed THEN 2 ELSE 1],
    pins     <- known_keys

ImplementsChannel == AbstractChannel!Spec

(* Decryption of m would succeed now.                                      *)
Decryptable(m) ==
    IF m.pre = None
      THEN /\ sessions[m.to][m.from] # None
           /\ decrypt_message_with_record(sessions[m.to][m.from], m,
                  NewKey(m.to, 0), Places(sessions[m.to][m.from])).outcome = "ok"
      ELSE /\ HasMatching(m.to, m.from, m) \/
                (CanGetPreKey(m.to, m) /\ CanMarkKyberPreKey(m.to, m))
           /\ decrypt_prekey(m.to, m.from, m).outcome = "ok"

(* Another session of the same receiver consumed the one-time pre-key.     *)
PreKeyTaken(m) ==
    /\ m.pre # None /\ m.pre.pre_key_id # None
    /\ \E d \in delivered : /\ d.pre # None /\ d.to = m.to
                            /\ d.pre.pre_key_id = m.pre.pre_key_id
                            /\ d.pre.base_key # m.pre.base_key

(* Within the limits, every ciphertext can be decrypted in whatever order  *)
(* messages arrive, across simultaneous initiations, re-initiations and    *)
(* archived sessions, unless its one-time pre-key went to another session. *)
AlwaysDecryptable ==
    \A m \in net \ delivered : PreKeyTaken(m) \/ Decryptable(m)

-----------------------------------------------------------------------------
(* Liveness.  The transport offers every ciphertext to its receiver again  *)
(* until the receiver has decrypted it (the server's queue keeps a message *)
(* until it is acknowledged); nobody has to send or to start a session.    *)

Numbered(M, p, n) == {m \in M : m.from = p /\ m.number = n}

(* The n-th ciphertext of p is waiting and its decryption would succeed.   *)
Receivable(p, n) ==
    \E m \in Numbered(net \ delivered, p, n) :
        Decryptable(m) /\ is_trusted_identity(m.to, m.from, m.sender_identity)

(* Weak fairness of receiving each ciphertext.  Receiving it disables      *)
(* receiving it again, so weak fairness says just this: no ciphertext is   *)
(* receivable from some point on for ever.                                 *)
FairSpec ==
    Spec /\ \A p \in Party, n \in 0 .. MaxMessages - 1 : []<>~Receivable(p, n)

(* Every ciphertext released is eventually decrypted, unless another       *)
(* session took the one-time pre-key it needs.                             *)
EventuallyDelivered ==
    \A p \in Party, n \in 0 .. MaxMessages - 1 :
        Numbered(net, p, n) # {} ~>
            \A m \in Numbered(net, p, n) : m \in delivered \/ PreKeyTaken(m)
=============================================================================
