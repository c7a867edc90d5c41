---------------------------- MODULE SessionState ----------------------------
(***************************************************************************)
(* The Double Ratchet data of one session and of one session record, as    *)
(* pure operators.  They translate, with the names of the source,          *)
(*   rust/protocol/src/ratchet.rs, ratchet/keys.rs   (key derivation)      *)
(*   rust/protocol/src/state/session.rs              (state and record)    *)
(*   rust/protocol/src/session_cipher.rs             (decryption)          *)
(*                                                                         *)
(* Cryptography is symbolic.  A key is a name <<owner, n>>; the agreement  *)
(* of two keys is the set of the two; a derived key is the list of what it *)
(* was derived from, so two keys are equal exactly when they were derived  *)
(* from the same inputs in the same order.                                 *)
(***************************************************************************)
EXTENDS Naturals, Sequences, FiniteSets, MessageKeys

CONSTANTS
    Party,                        \* protocol addresses (devices)
    None,                         \* Rust's Option::None
    NumPreKeys,                   \* one-time pre-keys of an installation
    MAX_FORWARD_JUMPS,            \* consts.rs, as are the next four
    MAX_MESSAGE_KEYS,
    MAX_RECEIVER_CHAINS,
    ARCHIVED_STATES_MAX_LENGTH,
    MAX_UNACKNOWLEDGED_SESSION_AGE

(* The limits of consts.rs are positive; the others may be zero.           *)
ASSUME LimitsAssumption ==
    /\ MAX_FORWARD_JUMPS \in Nat
    /\ MAX_MESSAGE_KEYS \in Nat
    /\ MAX_RECEIVER_CHAINS \in Nat \ {0}
    /\ ARCHIVED_STATES_MAX_LENGTH \in Nat \ {0}
    /\ MAX_UNACKNOWLEDGED_SESSION_AGE \in Nat
    /\ NumPreKeys \in Nat

(* Identifiers of one-time pre-keys.                                       *)
PreKeyId == 1 .. NumPreKeys

(* None is none of the values it stands beside.                            *)
ASSUME NoneAssumption ==
    /\ None \notin PreKeyId
    /\ None \notin Party \X Nat

-----------------------------------------------------------------------------
(* Keys and what is derived from them.                                     *)

Key == Party \X Nat

(* An X25519 agreement: both sides compute the same value.                 *)
DH(a, b) == {a, b}

(* The KEM: a shared secret is named by the encapsulation key and the      *)
(* sender's randomness, and so is its ciphertext.  Decapsulation with      *)
(* another key yields another secret and no error (implicit rejection).    *)
Kem == [kyber : Key, seed : Key]
encapsulate(kyber, seed) == [kyber |-> kyber, seed |-> seed]
decapsulate(kyber, ct)   == [ct EXCEPT !.kyber = kyber]

(* The input of derive_keys: the three or four agreements and the KEM      *)
(* secret.  dh4 is empty when no one-time pre-key took part.               *)
Secret == [dh1 : SUBSET Key, dh2 : SUBSET Key, dh3 : SUBSET Key,
           dh4 : SUBSET Key, kem : Kem]

(* A root key, or the chain key derived along with it: the secret of the   *)
(* session and the agreements mixed in since.                              *)
RootKey == [secret : Secret, path : Seq(SUBSET Key)]
derive_keys(secret) == [secret |-> secret, path |-> << >>]
create_chain(root, their, our) ==
    [root EXCEPT !.path = Append(root.path, DH(their, our))]

(* The post-quantum ratchet (crate spqr): both ends hold the same          *)
(* authentication key and opposite directions; a message of any other      *)
(* ratchet, or one's own, is an error.                                     *)
Direction == {"A2B", "B2A"}
PqRatchet == [auth : Secret, direction : Direction]
pq_ratchet_recv(state, msg) ==
    state.auth = msg.auth /\ state.direction # msg.direction

-----------------------------------------------------------------------------
(* SessionStructure.  The previous counter, the registration ids and the   *)
(* version are left out: no decision of the modelled code reads them.      *)
(* pending stands for pending_pre_key and pending_kyber_pre_key, which are *)
(* set together and cleared together.  message_keys holds the indices of   *)
(* the skipped keys: the list in the code is ordered by index.             *)

ChainKey == [key : RootKey, index : Nat]

ReceiverChain == [sender : Key, chain : ChainKey, message_keys : SUBSET Nat]

PendingPreKey == [pre_key_id : PreKeyId \cup {None}, base_key : Key,
                  kyber_ciphertext : Kem, timestamp : Nat]

SessionStructure ==
    [local_identity  : Key,
     remote_identity : Key,
     alice_base_key  : Key,
     root_key        : RootKey,
     sender_ratchet  : Key,
     sender_chain    : ChainKey,
     receiver_chains : Seq(ReceiverChain),
     pending         : PendingPreKey \cup {None},
     pq              : PqRatchet]

(* The current session of a record is a session or None, and so is the     *)
(* pending pre-key message of a session, never both.                       *)
ASSUME NoSessionAssumption ==
    /\ None \notin SessionStructure
    /\ None \notin PendingPreKey

SessionRecord == [current  : SessionStructure \cup {None},
                  previous : Seq(SessionStructure)]

-----------------------------------------------------------------------------
(* ratchet.rs.                                                             *)

initialize_alice_session(our_identity, base, ratchet, bundle) ==
    LET ct     == encapsulate(bundle.kyber, base)
        secret == [dh1 |-> DH(our_identity, bundle.signed),
                   dh2 |-> DH(base, bundle.identity),
                   dh3 |-> DH(base, bundle.signed),
                   dh4 |-> IF bundle.pre_key = None
                             THEN {} ELSE DH(base, bundle.pre_key),
                   kem |-> ct]
        root    == derive_keys(secret)
        sending == create_chain(root, bundle.signed, ratchet)
    IN  [local_identity  |-> our_identity,
         remote_identity |-> bundle.identity,
         alice_base_key  |-> base,
         root_key        |-> sending,
         sender_ratchet  |-> ratchet,
         sender_chain    |-> [key |-> sending, index |-> 0],
         receiver_chains |-> << [sender |-> bundle.signed,
                                 chain  |-> [key |-> root, index |-> 0],
                                 message_keys |-> {}] >>,
         pending         |-> None,
         pq              |-> [auth |-> secret, direction |-> "A2B"]]

initialize_bob_session(our_identity, signed, kyber, pre_key, pre) ==
    LET secret == [dh1 |-> DH(signed, pre.identity_key),
                   dh2 |-> DH(our_identity, pre.base_key),
                   dh3 |-> DH(signed, pre.base_key),
                   dh4 |-> IF pre_key = None
                             THEN {} ELSE DH(pre_key, pre.base_key),
                   kem |-> decapsulate(kyber, pre.kyber_ciphertext)]
        root   == derive_keys(secret)
    IN  [local_identity  |-> our_identity,
         remote_identity |-> pre.identity_key,
         alice_base_key  |-> pre.base_key,
         root_key        |-> root,
         sender_ratchet  |-> signed,
         sender_chain    |-> [key |-> root, index |-> 0],
         receiver_chains |-> << >>,
         pending         |-> None,
         pq              |-> [auth |-> secret, direction |-> "B2A"]]

-----------------------------------------------------------------------------
(* state/session.rs: one session.                                          *)

session_with_self_never(s) == FALSE
session_with_self(s) == s.local_identity = s.remote_identity

clear_unacknowledged_pre_key_message(s) == [s EXCEPT !.pending = None]

set_unacknowledged_pre_key_message(s, pre_key_id, ct, now) ==
    [s EXCEPT !.pending = [pre_key_id       |-> pre_key_id,
                           base_key         |-> s.alice_base_key,
                           kyber_ciphertext |-> ct,
                           timestamp        |-> now]]

(* A session started locally that nobody has answered for too long.        *)
IsStaleNever(s, now) == FALSE
IsStale(s, now) ==
    /\ s.pending # None
    /\ s.pending.timestamp + MAX_UNACKNOWLEDGED_SESSION_AGE < now

HasReceiverChain(s, sender) ==
    \E i \in DOMAIN s.receiver_chains : s.receiver_chains[i].sender = sender

get_receiver_chain(s, sender) ==
    CHOOSE i \in DOMAIN s.receiver_chains : s.receiver_chains[i].sender = sender

(* The oldest chain goes when there are too many.                          *)
add_receiver_chain_untrimmed(chains, sender, key) ==
    Append(chains, [sender |-> sender, chain |-> [key |-> key, index |-> 0],
                    message_keys |-> {}])
add_receiver_chain(chains, sender, key) ==
    LET c == [sender |-> sender, chain |-> [key |-> key, index |-> 0],
              message_keys |-> {}]
    IN  IF Len(chains) + 1 > MAX_RECEIVER_CHAINS
          THEN Append(Tail(chains), c)
          ELSE Append(chains, c)

-----------------------------------------------------------------------------
(* state/session.rs: the record, one current session and the archive.      *)

new_fresh == [current |-> None, previous |-> << >>]

archive_current_state_unguarded(r) ==
    [current |-> None, previous |-> << r.current >> \o r.previous]
archive_current_state(r) ==
    IF r.current = None THEN r
    ELSE [current  |-> None,
          previous |-> << clear_unacknowledged_pre_key_message(r.current) >>
                       \o SubSeq(r.previous, 1,
                            IF Len(r.previous) >= ARCHIVED_STATES_MAX_LENGTH
                              THEN Len(r.previous) - 1 ELSE Len(r.previous))]

promote_state_dropping(r, s) == [r EXCEPT !.current = s]
promote_state(r, s) == [archive_current_state(r) EXCEPT !.current = s]

promote_old_session_keeping(r, i, s) == promote_state(r, s)
promote_old_session(r, i, s) ==
    promote_state([r EXCEPT !.previous = SubSeq(@, 1, i - 1)
                                         \o SubSeq(@, i + 1, Len(@))], s)

(* The places a session for a base key can be: 0 is the current one.       *)
MatchingSessions(r, base) ==
    {i \in 0 .. Len(r.previous) :
        IF i = 0 THEN r.current # None /\ r.current.alice_base_key = base
                 ELSE r.previous[i].alice_base_key = base}

First(S) == CHOOSE i \in S : \A j \in S : i <= j

promote_matching_session(r, base) ==
    LET i == First(MatchingSessions(r, base))
    IN  IF i = 0 THEN r ELSE promote_old_session(r, i, r.previous[i])

-----------------------------------------------------------------------------
(* session_cipher.rs: decryption.  A failing attempt works on a copy of    *)
(* the state, which the caller drops.                                      *)

get_or_create_chain_key_receive_only(s, their, fresh) ==
    IF HasReceiverChain(s, their) THEN s
    ELSE [s EXCEPT !.receiver_chains =
            add_receiver_chain(@, their, create_chain(s.root_key, their, s.sender_ratchet))]

get_or_create_chain_key_receiving_root(s, their, fresh) ==
    IF HasReceiverChain(s, their) THEN s
    ELSE LET receiving == create_chain(s.root_key, their, s.sender_ratchet)
         IN  [s EXCEPT
                !.root_key = receiving,
                !.receiver_chains = add_receiver_chain(@, their, receiving),
                !.sender_ratchet = fresh,
                !.sender_chain = [key |-> create_chain(receiving, their, fresh),
                                  index |-> 0]]

get_or_create_chain_key(s, their, fresh) ==
    IF HasReceiverChain(s, their) THEN s
    ELSE LET receiving == create_chain(s.root_key, their, s.sender_ratchet)
             sending   == create_chain(receiving, their, fresh)
         IN  [s EXCEPT
                !.root_key = sending,
                !.receiver_chains = add_receiver_chain(@, their, receiving),
                !.sender_ratchet = fresh,
                !.sender_chain = [key |-> sending, index |-> 0]]

(* The message's key was used, or was dropped with the oldest skipped keys. *)
IsDuplicate(c, counter) ==
    c.chain.index > counter /\ counter \notin c.message_keys

IsTooFar(s, c, counter) ==
    /\ counter > c.chain.index + MAX_FORWARD_JUMPS
    /\ ~session_with_self(s)

(* A receiver chain after the key of the message was taken out of it.      *)
get_or_create_message_key_kept(c, counter) ==
    IF c.chain.index > counter THEN c
      ELSE [c EXCEPT !.message_keys =
                         Newest(@ \cup (c.chain.index .. counter - 1),
                                MAX_MESSAGE_KEYS),
                     !.chain.index = counter + 1]
get_or_create_message_key(c, counter) ==
    IF c.chain.index > counter
      THEN [c EXCEPT !.message_keys = @ \ {counter}]
      ELSE [c EXCEPT !.message_keys =
                         Newest(@ \cup (c.chain.index .. counter - 1),
                                MAX_MESSAGE_KEYS),
                     !.chain.index = counter + 1]

verify_mac(s, c, m) ==
    /\ c.chain.key = m.chain_key
    /\ m.sender_identity = s.remote_identity
    /\ m.receiver_identity = s.local_identity

(* What decrypting m does to session s: the outcome, and the new state     *)
(* when it is "ok".  fresh is the ratchet key generated on the way.        *)
decrypt_message_with_state(s, m, fresh) ==
    LET t == get_or_create_chain_key(s, m.sender_ratchet, fresh)
        i == get_receiver_chain(t, m.sender_ratchet)
        c == t.receiver_chains[i]
    IN  IF IsDuplicate(c, m.counter)
          THEN [outcome |-> "dup", state |-> s]
        ELSE IF \/ IsTooFar(s, c, m.counter)
                \/ ~pq_ratchet_recv(s.pq, m.pq)
                \/ ~verify_mac(s, c, m)
          THEN [outcome |-> "err", state |-> s]
        ELSE [outcome |-> "ok",
              state   |-> clear_unacknowledged_pre_key_message(
                            [t EXCEPT !.receiver_chains[i] =
                               get_or_create_message_key(c, m.counter)])]

(* The sessions tried for a Whisper message, in order: 0 is the current.   *)
SessionAt(r, i) == IF i = 0 THEN r.current ELSE r.previous[i]
PlacesCurrent(r) == IF r.current = None THEN {} ELSE {0}
Places(r) == {i \in 0 .. Len(r.previous) : i > 0 \/ r.current # None}

(* Decryption stops at the first session that accepts the message or       *)
(* reports it as a duplicate.  A PreKey message only tries the current     *)
(* session.                                                                *)
decrypt_message_with_record(r, m, fresh, places) ==
    LET at(i) == decrypt_message_with_state(SessionAt(r, i), m, fresh)
        stop  == {i \in places : at(i).outcome # "err"}
        i     == First(stop)
    IN  IF stop = {} \/ at(i).outcome # "ok"
          THEN [outcome |-> IF stop = {} THEN "err" ELSE "dup", record |-> r]
          ELSE [outcome |-> "ok",
                record  |-> IF i = 0
                              THEN [r EXCEPT !.current = at(i).state]
                              ELSE promote_old_session(r, i, at(i).state)]
=============================================================================
