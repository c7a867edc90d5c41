--------------------------- MODULE SealedRingXKEM ---------------------------
(***************************************************************************)
(* The two sealed RingXKEM handshakes, over X25519                         *)
(* (rust/protocol/src/sealed_ringxkem_x3dh.rs) and over XHMQV              *)
(* (sealed_ringxkem_xhmqv.rs), and the plain XHMQV message (xhmqv.rs),     *)
(* between devices that have the stores and sessions of Session.           *)
(*                                                                         *)
(* send and recv read keys that their caller supplies and write nothing.   *)
(* The caller starts a session with initialize_alice_session or            *)
(* initialize_bob_session and stores it in place of any record it had, as  *)
(* benches/sealed_ringxkem_*.rs do, with the receiver's identity key as    *)
(* the first ratchet key; that is part of each action.  The messages that  *)
(* follow are those of Session; SealedPQXDH composes them with sessions of *)
(* this kind, so that here only how the two ends start is of interest.     *)
(*                                                                         *)
(* The Ristretto, Ed25519, Falcon and ML-KEM identity keys of an           *)
(* installation are made with its identity key and share its name; keys of *)
(* different kinds are never compared.                                     *)
(***************************************************************************)
EXTENDS Session, HandshakeSessions, XHMQV

CONSTANTS
    MaxHandshakes,     \* bound: handshakes and XHMQV messages sent
    MaxDamaged,        \* bound: those damaged in transit
    MaxForeign         \* bound: parts of a bundle from another installation
                       \* than the identity key's

ASSUME RingAssumption ==
    /\ MaxHandshakes \in Nat
    /\ MaxDamaged \in Nat
    /\ MaxForeign \in Nat

VARIABLES
    handshakes, \* messages in transit; delivery removes nothing
    damaged,    \* those among them that the transport has altered
    initiated,  \* runs completed by their initiator
    responded   \* runs completed by their responder

ringVars == << handshakes, damaged, initiated, responded >>
allVars == << vars, ringVars >>

Variant == {"x3dh", "xhmqv"}

-----------------------------------------------------------------------------
(* Keys.                                                                   *)

calculate_agreement(a, b) == {DH(a, b)}

(* What CK || Kseal are derived from: the KEM secrets, the agreements of   *)
(* the ephemeral key, and the public keys and ciphertexts they belong to.  *)
(* keys is the receiver's public keys, from a bundle or from its stores.   *)
Transcript(v, ss1, ss2, ecdh, keys, eph, ct1, ct2) ==
    [version |-> v, ss1 |-> ss1, ss2 |-> ss2, ecdh |-> ecdh,
     identity |-> keys.identity, signed |-> keys.signed, pre_key |-> keys.pre_key,
     eph |-> eph, pq_identity |-> keys.pq_identity, pq_signed |-> keys.pq_signed,
     falcon_vk |-> keys.falcon_vk, ct1 |-> ct1, ct2 |-> ct2]

x3dh_derive_ck_kseal(ss1, ss2, keys, eph, ct1, ct2) ==
    Transcript("x3dh", ss1, ss2,
        << calculate_agreement(eph, keys.identity),
           calculate_agreement(eph, keys.signed) >>
          \o IF keys.pre_key = None THEN << >>
             ELSE << calculate_agreement(eph, keys.pre_key) >>,
        keys, eph, ct1, ct2)

xhmqv_derive_ck_kseal(ss1, ss2, ss_iii, keys, eph, ct1, ct2) ==
    Transcript("xhmqv", ss1, ss2, << ss_iii >>, keys, eph, ct1, ct2)

(* A Falcon signature over the post-quantum half of the transcript.        *)
falcon_transcript_hash(keys, vks, ct1, ct2) ==
    << keys.falcon_vk, vks, keys.pq_identity, keys.pq_signed, ct1, ct2 >>

falcon_sign(vk, hash) == [key |-> vk, over |-> hash]
falcon_verify(vk, hash, sigma) == sigma = falcon_sign(vk, hash)

(* The session and MAC keys: over X3DH, CK and the agreement of the        *)
(* sender's identity with the signed pre-key; over XHMQV, CK, the second   *)
(* XHMQV secret and the sender's keys and signature.                       *)
final_keys(ck, ss, sender) == [ck |-> ck, ss |-> ss, sender |-> sender]

-----------------------------------------------------------------------------
(* What a completed run was about.                                         *)
RingRun(v, q, cert, ik_a, eph, keys, key) ==
    [version |-> v, responder |-> q, cert |-> cert, ik_a |-> ik_a, eph |-> eph,
     ik_b |-> keys.identity, spk |-> keys.signed, opk |-> keys.pre_key,
     pq |-> << keys.pq_identity, keys.pq_signed, keys.falcon_vk >>,
     session_key |-> key]

XhmqvRun(q, ik_a, eph, keys, key) ==
    [version |-> "xhmqv1", responder |-> q, cert |-> None, ik_a |-> ik_a, eph |-> eph,
     ik_b |-> keys.identity, spk |-> keys.signed, opk |-> keys.pre_key, pq |-> None,
     session_key |-> key]

-----------------------------------------------------------------------------
(* Pre-key bundles.  The server may combine keys of several installations, *)
(* each from another: only a signed pre-key and its signature belong       *)
(* together.  f says from which installation of q it takes which part.     *)

BundlePart == {"identity", "verify_key", "signed", "one_time", "falcon", "pq_identity",
               "pq_signed"}

RingBundle(f, id) ==
    [identity |-> f["identity"].identity,
     ed25519_verify_key |-> f["verify_key"].identity,
     signed |-> f["signed"].signed, signature |-> f["signed"].identity,
     pre_key_id |-> id,
     pre_key |-> IF id = None THEN None ELSE f["one_time"].pre_keys[id],
     falcon_vk |-> f["falcon"].identity,
     pq_identity |-> f["pq_identity"].identity,
     pq_signed |-> f["pq_signed"].kyber, pq_signature |-> f["pq_signed"].identity]

MixedParts(q) ==
    {f \in [BundlePart -> {published[q][i] : i \in DOMAIN published[q]}] :
        Cardinality({part \in BundlePart : f[part] # f["identity"]}) <= MaxForeign}

ServedRingBundles(q) ==
    {RingBundle(f, id) : f \in MixedParts(q), id \in PreKeyId \cup {None}}

(* Over X25519 the identity key verifies the signed pre-key, over XHMQV an *)
(* Ed25519 key that the bundle brings along.  The Falcon key verifies the  *)
(* signed ML-KEM pre-key; the ML-KEM identity key is not signed.           *)
verified_classical_spk_sig(bundle) == bundle.signature = bundle.identity
verify_classical_spk_sig(bundle) == bundle.signature = bundle.ed25519_verify_key
verify_pq_spk_sig(bundle) == bundle.pq_signature = bundle.falcon_vk

(* The certificates issued to p, those of its earlier installations too.   *)
IssuedCertificates(p) ==
    {[sender |-> p, key |-> published[p][i].identity] : i \in DOMAIN published[p]}

(* The receiver's own keys, as its caller supplies them: no message says   *)
(* which one-time pre-key it used, the caller tries one or none.           *)
RecvParams(p, opk) ==
    [identity |-> identity[p], signed |-> signed[p], pre_key |-> opk,
     falcon_vk |-> identity[p], pq_identity |-> identity[p], pq_signed |-> kyber[p]]

OwnPreKeys(p) == {None} \cup {pre_keys[p][i] : i \in PreKeyId}

-----------------------------------------------------------------------------
(* The sessions that start from a session key.                             *)

x3dh_initialize_alice_session(key, their_ratchet, ours, theirs, base, ratchet) ==
    AliceSession(key, their_ratchet, ours, theirs, base, ratchet)
xhmqv_initialize_alice_session(key, their_ratchet, ours, theirs, base, ratchet) ==
    AliceSession(key, their_ratchet, ours, theirs, base, ratchet)

x3dh_initialize_bob_session(key, base, ours, theirs, ratchet) ==
    BobSession(key, base, ours, theirs, ratchet, "B2A")
xhmqv_initialize_bob_session_swapped(key, base, ours, theirs, ratchet) ==
    BobSession(key, base, theirs, ours, ratchet, "B2A")
xhmqv_initialize_bob_session(key, base, ours, theirs, ratchet) ==
    BobSession(key, base, ours, theirs, ratchet, "B2A")

-----------------------------------------------------------------------------
RingInit ==
    /\ Init
    /\ handshakes = {}
    /\ damaged = {}
    /\ initiated = {}
    /\ responded = {}

(* The inner message, sealed with a stream cipher: it can be altered       *)
(* without its key, and under another key it does not parse.               *)
build_inner_message(ck, iks, vks, sigma, cert) ==
    [sealed_with |-> ck, iks |-> iks, vks |-> vks, sigma |-> sigma, cert |-> cert]

(* What send returns, released to q, and what the caller does with it.     *)
Initiate(p, q, bundle, msg, key, session) ==
    /\ handshakes' = handshakes \cup
          {[to |-> q, msg |-> msg, mac |-> [key |-> key, over |-> msg]]}
    /\ initiated' = initiated \cup
          {RingRun(msg.version, q, msg.inner.cert, identity[p], msg.ec_ephemeral, bundle, key)}
    /\ sessions' = store_session(p, q, session)
    /\ known_keys' = save_identity(p, q, bundle.identity)
    /\ fresh' = [fresh EXCEPT ![p] = @ + 2]
    /\ UNCHANGED << identity, signed, kyber, pre_keys, base_keys_seen, published, now,
                    net, delivered, replayed, count, damaged, responded >>

send_x3dh(p, q, bundle, cert) ==
    LET iks   == identity[p]
        eph   == NewKey(p, 0)
        ct1   == encapsulate(bundle.pq_identity, eph)
        ct2   == encapsulate(bundle.pq_signed, eph)
        ck    == x3dh_derive_ck_kseal(ct1, ct2, bundle, eph, ct1, ct2)
        sigma == falcon_sign(iks, falcon_transcript_hash(bundle, iks, ct1, ct2))
        key   == final_keys(ck, calculate_agreement(iks, bundle.signed), << >>)
        msg   == [version |-> "x3dh", ec_ephemeral |-> eph, kem_ciphertext1 |-> ct1,
                  kem_ciphertext2 |-> ct2,
                  inner |-> build_inner_message(ck, iks, iks, sigma, cert)]
    IN  /\ verified_classical_spk_sig(bundle)
        /\ verify_pq_spk_sig(bundle)
        /\ Initiate(p, q, bundle, msg, key,
              x3dh_initialize_alice_session(key, bundle.identity, iks, bundle.identity,
                                            eph, NewKey(p, 1)))

send_xhmqv(p, q, bundle, cert) ==
    LET iks   == identity[p]
        eph   == NewKey(p, 0)
        ct1   == encapsulate(bundle.pq_identity, eph)
        ct2   == encapsulate(bundle.pq_signed, eph)
        x     == xhmqv_send(iks, bundle.identity, bundle.signed, bundle.pre_key, eph)
        ck    == xhmqv_derive_ck_kseal(ct1, ct2, x.shared_secret_1, bundle, eph, ct1, ct2)
        sigma == falcon_sign(iks, falcon_transcript_hash(bundle, iks, ct1, ct2))
        key   == final_keys(ck, x.shared_secret_2, << iks, iks, sigma >>)
        msg   == [version |-> "xhmqv", ec_ephemeral |-> eph, kem_ciphertext1 |-> ct1,
                  kem_ciphertext2 |-> ct2,
                  inner |-> build_inner_message(ck, iks, iks, sigma, cert)]
    IN  /\ verify_classical_spk_sig(bundle)
        /\ verify_pq_spk_sig(bundle)
        /\ Initiate(p, q, bundle, msg, key,
              xhmqv_initialize_alice_session(key, bundle.identity, iks, bundle.identity,
                                             eph, NewKey(p, 1)))

-----------------------------------------------------------------------------
(* recv returns Ok with the session key: the inner message decrypts and    *)
(* parses, then the MAC and then the Falcon signature verify.              *)

x3dh_recv_ck(p, msg, opk) ==
    x3dh_derive_ck_kseal(decapsulate(identity[p], msg.kem_ciphertext1),
                         decapsulate(kyber[p], msg.kem_ciphertext2), RecvParams(p, opk),
                         msg.ec_ephemeral, msg.kem_ciphertext1, msg.kem_ciphertext2)

x3dh_recv_key(p, msg, opk) ==
    final_keys(x3dh_recv_ck(p, msg, opk),
               calculate_agreement(signed[p], msg.inner.cert.key), << >>)

xhmqv_recv_phase1(p, msg, opk) ==
    xhmqv_recv1(identity[p], signed[p], opk, msg.ec_ephemeral)

xhmqv_recv_ck(p, msg, opk) ==
    xhmqv_derive_ck_kseal(decapsulate(identity[p], msg.kem_ciphertext1),
                          decapsulate(kyber[p], msg.kem_ciphertext2),
                          xhmqv_recv_phase1(p, msg, opk).shared_secret_1,
                          RecvParams(p, opk), msg.ec_ephemeral,
                          msg.kem_ciphertext1, msg.kem_ciphertext2)

xhmqv_recv_key(p, msg, opk) ==
    final_keys(xhmqv_recv_ck(p, msg, opk),
               xhmqv_recv2(xhmqv_recv_phase1(p, msg, opk).b_secret,
                           msg.inner.iks, msg.ec_ephemeral),
               << msg.inner.iks, msg.inner.vks, msg.inner.sigma >>)

(* The outer message parses: it is one of this protocol.                   *)
x3dh_verified_parse_outer(msg) == msg.version = "x3dh"
xhmqv_verified_parse_outer(msg) == msg.version = "xhmqv"

validated_parse_inner(ck, inner) == inner.sealed_with = ck

verify_ring_mac_always(m, key) == TRUE
verify_ring_mac(m, key) == m.mac = [key |-> key, over |-> m.msg]

FalconOk(p, msg, opk) ==
    falcon_verify(msg.inner.vks,
        falcon_transcript_hash(RecvParams(p, opk), msg.inner.vks,
                               msg.kem_ciphertext1, msg.kem_ciphertext2),
        msg.inner.sigma)

recv_x3dh_ok(p, m, opk) ==
    /\ x3dh_verified_parse_outer(m.msg)
    /\ validated_parse_inner(x3dh_recv_ck(p, m.msg, opk), m.msg.inner)
    /\ verify_ring_mac(m, x3dh_recv_key(p, m.msg, opk))
    /\ FalconOk(p, m.msg, opk)

recv_xhmqv_ok(p, m, opk) ==
    /\ xhmqv_verified_parse_outer(m.msg)
    /\ validated_parse_inner(xhmqv_recv_ck(p, m.msg, opk), m.msg.inner)
    /\ verify_ring_mac(m, xhmqv_recv_key(p, m.msg, opk))
    /\ FalconOk(p, m.msg, opk)

(* What the caller does with the result: it learns the certificate and the *)
(* session key, and takes the peer and its identity from the certificate.  *)
Respond(p, m, run, session) ==
    /\ responded' = responded \cup {run}
    /\ sessions' = store_session(p, m.msg.inner.cert.sender, session)
    /\ known_keys' = save_identity(p, m.msg.inner.cert.sender, m.msg.inner.cert.key)
    /\ UNCHANGED << identity, signed, kyber, pre_keys, base_keys_seen, published,
                    fresh, now, net, delivered, replayed, count,
                    handshakes, damaged, initiated >>

recv_x3dh(p, m, opk) ==
    LET cert == m.msg.inner.cert
        key  == x3dh_recv_key(p, m.msg, opk)
    IN  /\ recv_x3dh_ok(p, m, opk)
        /\ Respond(p, m,
              RingRun("x3dh", p, cert, cert.key, m.msg.ec_ephemeral, RecvParams(p, opk), key),
              x3dh_initialize_bob_session(key, m.msg.ec_ephemeral, identity[p],
                                          cert.key, identity[p]))

recv_xhmqv(p, m, opk) ==
    LET cert == m.msg.inner.cert
        key  == xhmqv_recv_key(p, m.msg, opk)
    IN  /\ recv_xhmqv_ok(p, m, opk)
        /\ Respond(p, m,
              RingRun("xhmqv", p, cert, m.msg.inner.iks, m.msg.ec_ephemeral,
                      RecvParams(p, opk), key),
              xhmqv_initialize_bob_session(key, m.msg.ec_ephemeral, identity[p],
                                           cert.key, identity[p]))

-----------------------------------------------------------------------------
(* The plain XHMQV message.  message_send does not verify the bundle; the  *)
(* receiver's caller looks up the one-time pre-key that the message names. *)

send_message(p, q, bundle) ==
    LET r == message_send(identity[p], bundle, NewKey(p, 0))
    IN  /\ handshakes' = handshakes \cup {[to |-> q, msg |-> r.message]}
        /\ initiated' = initiated \cup
              {XhmqvRun(q, identity[p], NewKey(p, 0), bundle, r.session_key)}
        /\ fresh' = [fresh EXCEPT ![p] = @ + 1]
        /\ UNCHANGED << stores, published, now, net, delivered, replayed, count,
                        damaged, responded >>

NamedPreKey(p, msg) ==
    IF msg.one_time_prekey_id = None THEN None ELSE pre_keys[p][msg.one_time_prekey_id]

receive_message(p, m) ==
    LET opk == NamedPreKey(p, m.msg)
        r   == message_receive(m.msg, identity[p], signed[p], opk)
    IN  /\ m.msg.version = "xhmqv1"
        /\ m.msg.one_time_prekey_id # None => opk # None
        /\ responded' = responded \cup
              {XhmqvRun(p, r.sender_iks, m.msg.ephemeral, RecvParams(p, opk), r.session_key)}
        /\ UNCHANGED << vars, handshakes, damaged, initiated >>

-----------------------------------------------------------------------------
(* The application deletes a one-time pre-key.                             *)
DeletePreKey(p, id) ==
    /\ pre_keys[p][id] # None
    /\ pre_keys' = [pre_keys EXCEPT ![p][id] = None]
    /\ UNCHANGED << identity, signed, kyber, base_keys_seen, known_keys, sessions,
                    published, fresh, now, net, delivered, replayed, count, ringVars >>

(* The transport alters a field: the ephemeral key, a KEM ciphertext, the  *)
(* id of the pre-key, or a key or the certificate under the seal.          *)
AlteredRing(m) ==
    LET others == {n \in handshakes : n.msg.version # "xhmqv1"}
    IN  {[m EXCEPT !.msg.version = v] : v \in Variant}
          \cup {[m EXCEPT !.msg.ec_ephemeral = n.msg.ec_ephemeral] : n \in others}
          \cup {[m EXCEPT !.msg.kem_ciphertext1 = n.msg.kem_ciphertext1] : n \in others}
          \cup {[m EXCEPT !.msg.kem_ciphertext2 = n.msg.kem_ciphertext2] : n \in others}
          \cup {[m EXCEPT !.msg.inner.iks = identity[m.to]],
                [m EXCEPT !.msg.inner.vks = identity[m.to]],
                [m EXCEPT !.msg.inner.cert.sender = m.to]}

AlteredXhmqv(m) ==
    {[m EXCEPT !.msg.one_time_prekey_id = id] : id \in PreKeyId \cup {None}}
      \cup {[m EXCEPT !.msg.ephemeral = k, !.msg.inner.iks = identity[m.to]] :
               k \in {m.msg.ephemeral, identity[m.to]}}

Damage ==
    /\ Cardinality(damaged) < MaxDamaged
    /\ \E m \in handshakes :
          \E n \in (IF m.msg.version = "xhmqv1" THEN AlteredXhmqv(m) ELSE AlteredRing(m))
                    \ handshakes :
             handshakes' = handshakes \cup {n} /\ damaged' = damaged \cup {n}
    /\ UNCHANGED << vars, initiated, responded >>

-----------------------------------------------------------------------------
RingNext ==
    \/ /\ Cardinality(initiated) < MaxHandshakes
       /\ \E p \in Party : \E q \in Peers(p) :
             \/ \E b \in ServedRingBundles(q), c \in IssuedCertificates(p) :
                   send_x3dh(p, q, b, c) \/ send_xhmqv(p, q, b, c)
             \/ \E b \in ServedBundles(q) : send_message(p, q, b)
    \/ \E m \in handshakes :
          \/ /\ m.msg.version \in Variant
             /\ \E opk \in OwnPreKeys(m.to) :
                   recv_x3dh(m.to, m, opk) \/ recv_xhmqv(m.to, m, opk)
          \/ receive_message(m.to, m)
    \/ \E p \in Party, id \in PreKeyId : DeletePreKey(p, id)
    \/ Damage
    \/ \E p \in Party : Reinstall(p) /\ UNCHANGED ringVars

RingSpec == RingInit /\ [][RingNext]_allVars

-----------------------------------------------------------------------------
(* Properties.                                                             *)

(* A responder that completes a RingXKEM run agrees with an initiator that *)
(* did: on the certificate, the sender's identity, all of the receiver's   *)
(* keys of both halves and the session key, whatever the transport         *)
(* altered, whatever installations the bundle was put together from, and   *)
(* whichever one-time pre-key the caller tried.                            *)
RingAgreement == {r \in responded : r.version \in Variant} \subseteq initiated

(* The session key authenticates implicitly: two ends of a run that hold   *)
(* the same key agree on everything else, also for the plain XHMQV         *)
(* message, which has no MAC and whose receiver may have read a wrong      *)
(* identity or used a wrong pre-key.                                       *)
SessionKeyBindsRun ==
    \A r1, r2 \in initiated \cup responded :
        r1.session_key = r2.session_key => r1 = r2

(* recv accepts what send produced while the receiver has the identity,    *)
(* Falcon and ML-KEM identity keys of the bundle and its one-time pre-key. *)
(* That the signed ML-KEM pre-key is the receiver's too is what send has   *)
(* verified, and likewise the signed pre-key over X3DH; over XHMQV nothing *)
(* ties it to the identity key, and it has to be the receiver's.  Over     *)
(* X3DH the certificate has to be the one of the sender's identity key.  A *)
(* plain XHMQV message received with the keys it was sent to gives the     *)
(* sender's session key.                                                   *)
RingCompletes ==
    \A m \in handshakes \ damaged : \A r \in initiated :
        LET p == m.to IN
        (/\ r.ik_b = identity[p] /\ (r.opk # None => r.opk \in OwnPreKeys(p))
         /\ r.version = "x3dh" \/ r.spk = signed[p]) =>
        IF m.msg.version = "xhmqv1"
          THEN r.eph = m.msg.ephemeral =>
                  message_receive(m.msg, identity[p], signed[p], r.opk)
                    = [sender_iks |-> r.ik_a, session_key |-> r.session_key]
          ELSE (/\ r.eph = m.msg.ec_ephemeral
                /\ r.pq[1] = identity[p] /\ r.pq[3] = identity[p]) =>
                  \/ recv_xhmqv_ok(p, m, r.opk)
                  \/ recv_x3dh_ok(p, m, r.opk)
                  \/ m.msg.version = "x3dh" /\ r.cert.key # r.ik_a

(* The sessions that two devices start from one session key fit together:  *)
(* opposite directions, the initiator's root key one ratchet step ahead of *)
(* the responder's, the same chain for the responder's first messages, and *)
(* each names the other's identity: over XHMQV only if the certificate     *)
(* did, since that handshake does not bind the certificate's key.          *)
RingSessionsAgree ==
    \A p \in Party : \A q \in Peers(p) :
        \A s \in AllSessions(p, q), t \in AllSessions(q, p) :
            (s.pq.auth = t.pq.auth /\ Len(s.root_key.path) <= Len(t.root_key.path)) =>
            /\ s.pq.direction = "B2A" /\ t.pq.direction = "A2B"
            /\ t.root_key = create_chain(s.root_key, t.sender_ratchet, s.sender_ratchet)
            /\ t.receiver_chains[1].sender = s.sender_ratchet
            /\ t.receiver_chains[1].chain = s.sender_chain
            /\ s.local_identity = t.remote_identity
            /\ \/ s.remote_identity = t.local_identity
               \/ /\ s.pq.auth.ck.version = "xhmqv"
                  /\ \E r \in responded : /\ r.session_key = s.pq.auth
                                          /\ r.cert.key = s.remote_identity
                                          /\ r.ik_a = t.local_identity
=============================================================================
