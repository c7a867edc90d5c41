----------------------------- MODULE SealedPQXDH -----------------------------
(***************************************************************************)
(* Sealed PQXDH (rust/protocol/src/spqxdh.rs): the handshake whose message *)
(* hides the sender's certificate, and the Double Ratchet sessions that    *)
(* start from its session key.  It replaces process_prekey_bundle and      *)
(* message_decrypt_prekey of Session; the rest of Session is used as it    *)
(* is.                                                                     *)
(*                                                                         *)
(* send and recv read the stores and write nothing.  Their caller makes a  *)
(* session record with initialize_alice_session or initialize_bob_session  *)
(* and stores it with the peer's identity, in place of any record it had   *)
(* (benches/spqxdh.rs); that is part of each action.                       *)
(***************************************************************************)
EXTENDS Session, HandshakeSessions

CONSTANTS
    RepeatHandshakes,  \* may the transport hand a handshake to recv again?
    MaxHandshakes,     \* bound: handshakes sent
    MaxDamaged         \* bound: handshakes damaged in transit

ASSUME SealedAssumption ==
    /\ RepeatHandshakes \in BOOLEAN
    /\ MaxHandshakes \in Nat
    /\ MaxDamaged \in Nat

VARIABLES
    handshakes, \* handshake messages in transit; delivery removes nothing
    damaged,    \* those among them that the transport has altered
    accepted,   \* those that recv has accepted
    initiated,  \* runs completed by their initiator
    responded   \* runs completed by their responder

sealedVars == << handshakes, damaged, accepted, initiated, responded >>
allVars == << vars, sealedVars >>

-----------------------------------------------------------------------------
(* The two key derivations.                                                *)

prepare_sealing_key_send(bundle, ephemeral) ==
    [dh2 |-> DH(ephemeral, bundle.identity),
     dh3 |-> DH(ephemeral, bundle.signed),
     dh4 |-> IF bundle.pre_key = None THEN {} ELSE DH(ephemeral, bundle.pre_key),
     kem |-> encapsulate(bundle.kyber, ephemeral)]

prepare_sealing_key_recv_skipping(p, opk, msg) ==
    [dh2 |-> DH(identity[p], msg.ec_ephemeral),
     dh3 |-> DH(signed[p], msg.ec_ephemeral),
     dh4 |-> {},
     kem |-> decapsulate(kyber[p], msg.kem_ciphertext)]
prepare_sealing_key_recv(p, opk, msg) ==
    [dh2 |-> DH(identity[p], msg.ec_ephemeral),
     dh3 |-> DH(signed[p], msg.ec_ephemeral),
     dh4 |-> IF opk = None THEN {} ELSE DH(opk, msg.ec_ephemeral),
     kem |-> decapsulate(kyber[p], msg.kem_ciphertext)]

(* The agreement of the sender's identity and the signed pre-key, mixed    *)
(* into the chain key: the session key and the MAC key.                    *)
session_and_mac_key(k, ss) ==
    [dh1 |-> ss, dh2 |-> k.dh2, dh3 |-> k.dh3, dh4 |-> k.dh4, kem |-> k.kem]

-----------------------------------------------------------------------------
(* The sessions that start from a session key.                             *)

spqxdh_initialize_alice_session(session_key, their_ratchet, ours, theirs, base, ratchet) ==
    AliceSession(session_key, their_ratchet, ours, theirs, base, ratchet)

spqxdh_initialize_bob_session_a2b(session_key, base, our_identity, their_identity, ratchet) ==
    BobSession(session_key, base, our_identity, their_identity, ratchet, "A2B")
spqxdh_initialize_bob_session(session_key, base, our_identity, their_identity, ratchet) ==
    BobSession(session_key, base, our_identity, their_identity, ratchet, "B2A")

-----------------------------------------------------------------------------
SealedInit ==
    /\ Init
    /\ handshakes = {}
    /\ damaged = {}
    /\ accepted = {}
    /\ initiated = {}
    /\ responded = {}

(* The certificates issued to p, those of its earlier installations too.   *)
IssuedCertificates(p) ==
    {[sender |-> p, key |-> published[p][i].identity] : i \in DOMAIN published[p]}

(* send checks neither the signatures of the bundle nor that the identity  *)
(* is the pinned one; both are left to the caller.                         *)
send(p, q, bundle, cert) ==
    LET base == NewKey(p, 0)
        k    == prepare_sealing_key_send(bundle, base)
        key  == session_and_mac_key(k, DH(identity[p], bundle.signed))
        msg  == [pre_key_id |-> bundle.pre_key_id, ec_ephemeral |-> base,
                 kem_ciphertext |-> k.kem,
                 inner |-> [sealed_with |-> k, cert |-> cert]]
    IN  /\ Cardinality(initiated) < MaxHandshakes
        /\ handshakes' = handshakes \cup
              {[to |-> q, msg |-> msg, mac |-> [key |-> key, over |-> msg]]}
        /\ initiated' = initiated \cup
              {[initiator |-> p, responder |-> q, ik_a |-> identity[p],
                ik_b |-> bundle.identity, opk |-> bundle.pre_key,
                spk |-> bundle.signed, pqpk |-> bundle.kyber, session_key |-> key]}
        /\ sessions' = store_session(p, q,
              spqxdh_initialize_alice_session(key, bundle.signed, identity[p],
                                              bundle.identity, base, NewKey(p, 1)))
        /\ known_keys' = save_identity(p, q, bundle.identity)
        /\ fresh' = [fresh EXCEPT ![p] = @ + 2]
        /\ UNCHANGED << identity, signed, kyber, pre_keys, base_keys_seen, published,
                        now, net, delivered, replayed, count,
                        damaged, accepted, responded >>

(* recv returns Ok: the one-time pre-key is there, the inner message       *)
(* decrypts to a certificate, and the MAC is the one computed with it.     *)
OneTimePreKey(p, msg) ==
    IF msg.pre_key_id = None THEN None ELSE pre_keys[p][msg.pre_key_id]

RecvKey(p, msg) ==
    session_and_mac_key(prepare_sealing_key_recv(p, OneTimePreKey(p, msg), msg),
                        DH(signed[p], msg.inner.cert.key))

RecvOkNoMac(p, m) ==
    /\ m.msg.pre_key_id # None => OneTimePreKey(p, m.msg) # None
    /\ m.msg.inner.sealed_with =
         prepare_sealing_key_recv(p, OneTimePreKey(p, m.msg), m.msg)
RecvOk(p, m) ==
    /\ m.msg.pre_key_id # None => OneTimePreKey(p, m.msg) # None
    /\ m.msg.inner.sealed_with =
         prepare_sealing_key_recv(p, OneTimePreKey(p, m.msg), m.msg)
    /\ m.mac = [key |-> RecvKey(p, m.msg), over |-> m.msg]

recv(p, m) ==
    LET msg == m.msg
        q   == msg.inner.cert.sender
        key == RecvKey(p, msg)
    IN  /\ RepeatHandshakes \/ m \notin accepted
        /\ RecvOk(p, m)
        /\ accepted' = accepted \cup {m}
        /\ responded' = responded \cup
              {[initiator |-> q, responder |-> p, ik_a |-> msg.inner.cert.key,
                ik_b |-> identity[p], opk |-> OneTimePreKey(p, msg),
                spk |-> signed[p], pqpk |-> kyber[p], session_key |-> key]}
        /\ sessions' = store_session(p, q,
              spqxdh_initialize_bob_session(key, msg.ec_ephemeral, identity[p],
                                            msg.inner.cert.key, signed[p]))
        /\ known_keys' = save_identity(p, q, msg.inner.cert.key)
        /\ UNCHANGED << identity, signed, kyber, pre_keys, base_keys_seen, published,
                        fresh, now, net, delivered, replayed, count,
                        handshakes, damaged, initiated >>

(* The application deletes a one-time pre-key, after using it or not.      *)
DeletePreKey(p, id) ==
    /\ pre_keys[p][id] # None
    /\ pre_keys' = [pre_keys EXCEPT ![p][id] = None]
    /\ UNCHANGED << identity, signed, kyber, base_keys_seen, known_keys, sessions,
                    published, fresh, now, net, delivered, replayed, count, sealedVars >>

(* The transport alters a field: the id of the one-time pre-key, the       *)
(* ephemeral key, the KEM ciphertext or the certificate under the seal.    *)
Altered(m) ==
    {[m EXCEPT !.msg.pre_key_id = id] : id \in PreKeyId \cup {None}}
      \cup {[m EXCEPT !.msg.ec_ephemeral = n.msg.ec_ephemeral] : n \in handshakes}
      \cup {[m EXCEPT !.msg.kem_ciphertext = n.msg.kem_ciphertext] : n \in handshakes}
      \cup {[m EXCEPT !.msg.inner.cert = n.msg.inner.cert] : n \in handshakes}
      \cup {[m EXCEPT !.msg.inner.cert.sender = m.to]}

Damage ==
    /\ Cardinality(damaged) < MaxDamaged
    /\ \E m \in handshakes : \E n \in Altered(m) \ handshakes :
          handshakes' = handshakes \cup {n} /\ damaged' = damaged \cup {n}
    /\ UNCHANGED << vars, accepted, initiated, responded >>

-----------------------------------------------------------------------------
SealedNext ==
    \/ \E p \in Party : \E q \in Peers(p) :
          \E b \in ServedBundles(q), c \in IssuedCertificates(p) : send(p, q, b, c)
    \/ \E m \in handshakes : recv(m.to, m)
    \/ \E p \in Party, id \in PreKeyId : DeletePreKey(p, id)
    \/ Damage
    \/ /\ \/ \E p \in Party : \E q \in Peers(p) : Encrypt(p, q)
          \/ \E m \in net : DecryptSignal(m)
          \/ \E p \in Party : Reinstall(p)
       /\ UNCHANGED sealedVars

SealedSpec == SealedInit /\ [][SealedNext]_allVars

-----------------------------------------------------------------------------
(* Properties.                                                             *)

(* A responder that completes a run agrees with an initiator that did: on  *)
(* who both are, on the one-time, signed and KEM pre-keys and on the       *)
(* session key.  So neither a damaged or repeated message, nor a           *)
(* certificate or bundle of another installation, completes a run that     *)
(* nobody started.                                                         *)
HandshakeAgreement == responded \subseteq initiated

(* recv accepts what send produced: while the responder still has the keys *)
(* of the bundle and the certificate was the initiator's own, the          *)
(* handshake of every completed initiation is accepted.                    *)
HandshakeCompletes ==
    \A m \in handshakes \ damaged : \A r \in initiated :
        (/\ r.session_key = m.mac.key
         /\ r.ik_a = m.msg.inner.cert.key
         /\ r.ik_b = identity[m.to] /\ r.spk = signed[m.to] /\ r.pqpk = kyber[m.to]
         /\ r.opk = OneTimePreKey(m.to, m.msg))
        => RecvOk(m.to, m)

(* The sessions of a run work: a message sent on one end of a session that *)
(* the other end still has is decrypted there, in any order, unless it was *)
(* before.                                                                 *)
SealedDecryptable ==
    \A m \in net \ delivered :
        (\E s \in AllSessions(m.to, m.from) : s.pq.auth = m.pq.auth) => Decryptable(m)
=============================================================================
