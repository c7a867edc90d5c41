---------------------------- MODULE SealedSender ----------------------------
(***************************************************************************)
(* Sealed sender for one recipient (rust/protocol/src/sealed_sender.rs):   *)
(* the certificates, the V1 envelope, sealed_sender_encrypt and            *)
(* sealed_sender_decrypt around the sessions of Session.  Every message    *)
(* travels in an envelope; who it is from is what its certificate says.    *)
(*                                                                         *)
(* The transport may lose, repeat, reorder and misroute envelopes and put  *)
(* the parts of several together.  What fails in sealed_sender_encrypt     *)
(* after message_encrypt has returned is the loss of the envelope.         *)
(***************************************************************************)
EXTENDS Session

CONSTANTS
    Lifetime,      \* how long a certificate of the service is valid
    MaxUnusual,    \* bound: envelopes sent with another than the usual certificate
    MaxMoves       \* bound: phone numbers that change hands

ASSUME SealedSenderAssumption ==
    /\ Lifetime \in Nat
    /\ MaxUnusual \in Nat
    /\ MaxMoves \in Nat
    /\ None \notin Nat     \* a server certificate may be referred to by id, or not

VARIABLES
    envelopes,  \* every envelope ever sent; delivery removes nothing
    accepted,   \* results of sealed_sender_decrypt, with the certificate and the time
    number,     \* p -> phone number of p's account or None
    unusual     \* envelopes sent with another than the usual certificate

sealedVars == << envelopes, accepted, number, unusual >>
allVars == << vars, sealedVars >>

-----------------------------------------------------------------------------
(* Addresses.  The devices of one account have the same uuid and differ in *)
(* their device id; those of different accounts are the first of each.  In *)
(* either case None stands for what they have in common.                   *)

sender_uuid(p) == IF Linked THEN None ELSE p
device_id(p) == IF Linked THEN p ELSE None
ProtocolAddress(cert) ==
    CHOOSE p \in Party : sender_uuid(p) = cert.uuid /\ device_id(p) = cert.device

-----------------------------------------------------------------------------
(* Server certificates.  A signature is the key that made it: the trust    *)
(* root of the production or of the staging service.                       *)

ServerCertificate_new(key_id, trust_root) ==
    [key_id |-> key_id, key |-> << "server", key_id >>, signature |-> trust_root]

REVOKED_SERVER_CERTIFICATE_KEY_IDS == {1}

(* The ones built into the library, which a sender certificate may refer   *)
(* to by id.                                                               *)
KNOWN_SERVER_CERTIFICATES ==
    [id \in {2, 3} |-> ServerCertificate_new(id, IF id = 2 THEN "staging" ELSE "production")]

(* All that exist: also a revoked one and one that is always embedded.     *)
ServerCertificate ==
    {KNOWN_SERVER_CERTIFICATES[id] : id \in {2, 3}}
      \cup {ServerCertificate_new(id, "production") : id \in {1, 4}}

server_validate(cert, trust_root) ==
    /\ cert.key_id \notin REVOKED_SERVER_CERTIFICATE_KEY_IDS
    /\ cert.signature = trust_root

-----------------------------------------------------------------------------
(* Sender certificates.                                                    *)

(* The fields, and the signature with what it covers.                      *)
SenderCertificate_new(p, e164, key, expiration, signer, signer_key) ==
    LET cert == [uuid |-> sender_uuid(p), e164 |-> e164, device |-> device_id(p),
                 key |-> key, expiration |-> expiration, signer |-> signer]
    IN  [certificate |-> cert, signature |-> [key |-> signer_key, over |-> cert]]

HasSigner(cert) == cert.signer.id = None \/ cert.signer.id \in DOMAIN KNOWN_SERVER_CERTIFICATES

signer_of(cert) ==
    IF cert.signer.id = None THEN cert.signer.embedded
    ELSE KNOWN_SERVER_CERTIFICATES[cert.signer.id]

expired_early(cert, validation_time) == validation_time >= cert.expiration
expired(cert, validation_time) == validation_time > cert.expiration

validate_with_trust_roots_unsigned(sc, trust_roots, validation_time) ==
    /\ HasSigner(sc.certificate)
    /\ \E root \in trust_roots : server_validate(signer_of(sc.certificate), root)
    /\ ~expired(sc.certificate, validation_time)
validate_with_trust_roots(sc, trust_roots, validation_time) ==
    LET signer == signer_of(sc.certificate)
    IN  /\ HasSigner(sc.certificate)
        /\ \E root \in trust_roots : server_validate(signer, root)
        /\ sc.signature = [key |-> signer.key, over |-> sc.certificate]
        /\ ~expired(sc.certificate, validation_time)

(* The certificates that p may hold, each the usual one in all but one     *)
(* respect: with the number that p had first, of an earlier installation,  *)
(* issued earlier, from any server, referring to the server's certificate  *)
(* by the id of a known one or by 5, which no certificate in the library   *)
(* has, or damaged in p's store.                                           *)
IssuedCertificate(p, e164, key, since, sc, reference) ==
    SenderCertificate_new(p, e164, key, since + Lifetime,
        IF reference THEN [embedded |-> None, id |-> sc.key_id]
                     ELSE [embedded |-> sc, id |-> None], sc.key)

UsualServer == KNOWN_SERVER_CERTIFICATES[3]
UsualCertificate(p) == IssuedCertificate(p, number[p], identity[p], now, UsualServer, FALSE)

IssuedCertificates(p) ==
    {IssuedCertificate(p, p, identity[p], now, UsualServer, FALSE)}
      \cup {IssuedCertificate(p, number[p], published[p][i].identity, now, UsualServer, FALSE) :
              i \in DOMAIN published[p]}
      \cup {IssuedCertificate(p, number[p], identity[p], t, UsualServer, FALSE) :
              t \in 0 .. now}
      \cup {IssuedCertificate(p, number[p], identity[p], now, sc, FALSE) :
              sc \in ServerCertificate}
      \cup {IssuedCertificate(p, number[p], identity[p], now, sc, TRUE) :
              sc \in {KNOWN_SERVER_CERTIFICATES[2], KNOWN_SERVER_CERTIFICATES[3],
                      ServerCertificate_new(5, "production")}}

DamagedCertificates(p) == {[UsualCertificate(p) EXCEPT !.certificate.expiration = @ + 1]}

(* sealed_sender_encrypt takes whatever certificate its caller has, that   *)
(* of another device too.                                                  *)
UnusualCertificates(p) ==
    (IssuedCertificates(p) \cup DamagedCertificates(p)
       \cup {UsualCertificate(q) : q \in Party}) \ {UsualCertificate(p)}

-----------------------------------------------------------------------------
(* The V1 envelope.  A ciphertext of aes256_ctr_hmacsha256 is its keys and *)
(* its plaintext; it decrypts with just those keys.                        *)

EphemeralKeys(our, their, direction) ==
    [salt   |-> IF direction = "Sending" THEN << their, our >> ELSE << our, their >>,
     secret |-> DH(our, their)]

StaticKeys(our, their, eph_keys, ctext) ==
    [chain_key |-> eph_keys, ctext |-> ctext, secret |-> DH(our, their)]

aes256_ctr_hmacsha256_encrypt(plaintext, keys) == [keys |-> keys, plaintext |-> plaintext]

message_type(m) == IF m.pre = None THEN "Whisper" ELSE "PreKey"

UnidentifiedSenderMessageContent(msg_type, sender, contents) ==
    [msg_type |-> msg_type, sender |-> sender, contents |-> contents]

(* The ephemeral key of the n-th message of p.                             *)
SealingKey(p, n) == << p, n, "ephemeral" >>

sealed_sender_encrypt_from_usmc(our_identity, their_identity, usmc, ephemeral) ==
    LET eph_keys         == EphemeralKeys(ephemeral, their_identity, "Sending")
        static_key_ctext == aes256_ctr_hmacsha256_encrypt(our_identity, eph_keys)
    IN  [ephemeral_public  |-> ephemeral,
         encrypted_static  |-> static_key_ctext,
         encrypted_message |-> aes256_ctr_hmacsha256_encrypt(usmc,
             StaticKeys(our_identity, their_identity, eph_keys, static_key_ctext))]

(* The key read from the envelope is that of the certificate.              *)
KeyOfCertificate_any(key, usmc) == TRUE
KeyOfCertificate(key, usmc) == key = usmc.sender.certificate.key

sealed_sender_decrypt_to_usmc_ok(our_identity, e) ==
    LET eph_keys   == EphemeralKeys(our_identity, e.ephemeral_public, "Receiving")
        static_key == e.encrypted_static.plaintext
    IN  /\ e.encrypted_static.keys = eph_keys
        /\ e.encrypted_message.keys =
              StaticKeys(our_identity, static_key, eph_keys, e.encrypted_static)
        /\ KeyOfCertificate(static_key, e.encrypted_message.plaintext)

(* The certificate names this device, or its number and its device id.     *)
is_self_send(p, cert) ==
    /\ \/ cert.uuid = sender_uuid(p)
       \/ number[p] # None /\ cert.e164 = number[p]
    /\ cert.device = device_id(p)

(* What a sealed_sender_decrypt of p checks before it decrypts the message. *)
ValidEnvelope(p, e) ==
    LET sc == e.encrypted_message.plaintext.sender
    IN  /\ sealed_sender_decrypt_to_usmc_ok(identity[p], e)
        /\ validate_with_trust_roots(sc, {"production"}, now)
        /\ ~is_self_send(p, sc.certificate)

-----------------------------------------------------------------------------
SealedInit ==
    /\ Init
    /\ envelopes = {}
    /\ accepted = {}
    /\ number = [p \in Party |-> p]
    /\ unusual = 0

sealed_sender_encrypt(p, q, sc, writes) ==
    LET m    == Ciphertext(p, q, sessions[p][q].current)
        usmc == UnidentifiedSenderMessageContent(message_type(m), sc, m)
    IN  /\ HasCurrentSession(p, q)
        /\ message_encrypt(p, q, writes)
        /\ envelopes' = IF ReturnsOk(writes, 2)
              THEN envelopes \cup {sealed_sender_encrypt_from_usmc(identity[p],
                      known_keys'[p][q], usmc, SealingKey(p, m.number))}
              ELSE envelopes
        /\ UNCHANGED << accepted, number >>

sealed_sender_decrypt(p, e) ==
    LET usmc  == e.encrypted_message.plaintext
        ctext == usmc.contents
        remote_address == ProtocolAddress(usmc.sender.certificate)
        all   == IF usmc.msg_type = "PreKey" THEN 4 ELSE 2
    IN  /\ ValidEnvelope(p, e)
        /\ \E writes \in 1 .. all :
              /\ \/ /\ usmc.msg_type = "Whisper"
                    /\ message_decrypt_signal(p, remote_address, ctext, writes)
                 \/ /\ usmc.msg_type = "PreKey"
                    /\ message_decrypt_prekey(p, remote_address, ctext, writes)
              /\ accepted' = IF ReturnsOk(writes, all)
                    THEN accepted \cup {[receiver |-> p, sender |-> remote_address,
                                         message |-> ctext, certificate |-> usmc.sender,
                                         at |-> now]}
                    ELSE accepted
        /\ UNCHANGED << envelopes, number, unusual >>

-----------------------------------------------------------------------------
(* What the transport may hand over: the parts of envelopes sent.          *)
InTransit ==
    {[ephemeral_public  |-> e1.ephemeral_public,
      encrypted_static  |-> e2.encrypted_static,
      encrypted_message |-> e3.encrypted_message] :
        e1 \in envelopes, e2 \in envelopes, e3 \in envelopes}

(* q registers with the number that was p's.                               *)
MoveNumber(p, q) ==
    /\ Cardinality({r \in Party : number[r] # r}) < MaxMoves
    /\ number[p] = p
    /\ number' = [number EXCEPT ![p] = None, ![q] = p]
    /\ UNCHANGED << vars, envelopes, accepted, unusual >>

SendSealed(p, q) ==
    \E w \in 1 .. 2 :
        \/ /\ sealed_sender_encrypt(p, q, UsualCertificate(p), w)
           /\ UNCHANGED unusual
        \/ /\ unusual < MaxUnusual
           /\ unusual' = unusual + 1
           /\ \E sc \in UnusualCertificates(p) : sealed_sender_encrypt(p, q, sc, w)

SealedNext ==
    \/ \E p \in Party : \E q \in Peers(p) :
          \/ StartSession(p, q) /\ UNCHANGED sealedVars
          \/ SendSealed(p, q)
          \/ AcceptIdentity(p, q) /\ UNCHANGED sealedVars
          \/ MoveNumber(p, q)
    \/ \E p \in Party, e \in InTransit : sealed_sender_decrypt(p, e)
    \/ \E p \in Party : Reinstall(p) /\ UNCHANGED sealedVars
    \/ Tick /\ UNCHANGED sealedVars

SealedSpec == SealedInit /\ [][SealedNext]_allVars

-----------------------------------------------------------------------------
(* Properties.                                                             *)

(* Issued by the service, not one that is revoked or of another service,   *)
(* with these fields, and not expired at the time.                         *)
Genuine(sc, time) ==
    /\ sc.signature.over = sc.certificate
    /\ sc.signature.key[2] \in {3, 4}
    /\ time <= sc.certificate.expiration

(* What the application is told about a message is true: it was encrypted  *)
(* for it by the device that the result names, under the identity key that *)
(* the production service certified for that device, and the certificate   *)
(* was not expired nor its server revoked when the message was accepted.   *)
AcceptedIsCertified ==
    \A r \in accepted :
        LET cert == r.certificate.certificate IN
        /\ r.message.from = r.sender /\ r.message.to = r.receiver
        /\ r.message.sender_identity = cert.key
        /\ \E i \in DOMAIN published[r.sender] : published[r.sender][i].identity = cert.key
        /\ Genuine(r.certificate, r.at)

(* The record kept for an address holds sessions with the identities of    *)
(* that device only, although the address of a received message is that of *)
(* its certificate and the session's identity comes from the message.      *)
RecordsOfSender ==
    \A p, q \in Party : \A s \in AllSessions(p, q) :
        \E i \in DOMAIN published[q] : published[q][i].identity = s.remote_identity

(* The envelope was sealed by its certificate's device, for the identity   *)
(* that the receiver of its message still has.                             *)
WellSealed(e) ==
    LET m == e.encrypted_message.plaintext.contents
        cert == e.encrypted_message.plaintext.sender.certificate
    IN  /\ ProtocolAddress(cert) = m.from
        /\ cert.key = m.sender_identity
        /\ m.receiver_identity = identity[m.to]

(* A number that has moved to the receiver since the certificate was made. *)
NumberTaken(p, cert) == cert.e164 # None /\ cert.e164 = number[p]

(* Within the limits, a message that was sealed with a valid certificate   *)
(* can be opened and decrypted, whatever became of the messages before it: *)
(* those whose certificate was not accepted or has expired are lost, and   *)
(* the session goes on.  Excepted are a one-time pre-key that another      *)
(* session took and a certificate with a number that is the receiver's.    *)
SealedAlwaysDecryptable ==
    \A e \in envelopes :
        LET usmc == e.encrypted_message.plaintext
            m    == usmc.contents
        IN  (m \notin delivered /\ WellSealed(e) /\ Genuine(usmc.sender, now))
            => \/ ValidEnvelope(m.to, e) /\ (Decryptable(m) \/ PreKeyTaken(m))
               \/ NumberTaken(m.to, usmc.sender.certificate)
=============================================================================
