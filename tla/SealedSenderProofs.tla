------------------------- MODULE SealedSenderProofs -------------------------
(***************************************************************************)
(* What sealed sender tells the application, for every set of devices and  *)
(* every value of the limits and bounds, when the devices are of different *)
(* accounts.  (The devices of one account have one identity key, which is  *)
(* all that an envelope is bound to: their certificates can take each      *)
(* other's place.)                                                         *)
(*                                                                         *)
(* A certificate names the session that a message is decrypted with, and   *)
(* nothing in the message says that it is the right one.  The invariant    *)
(* ties the two together by the identity keys: of the session, of the      *)
(* message, of the envelope's static key and of the certificate.           *)
(***************************************************************************)
EXTENDS SealedSender, SessionAgreementProofs

-----------------------------------------------------------------------------
(* The invariant.                                                          *)

(* The identity key of an installation of the device.                      *)
OfDevice(p, key) == \E i \in DOMAIN published[p] : published[p][i].identity = key

KeysOwned ==
    \A p \in Party :
        /\ OfDevice(p, identity[p])
        /\ \A i \in DOMAIN published[p] : published[p][i].identity[1] = p

MessagesOwned ==
    \A m \in net : OfDevice(m.from, m.sender_identity) /\ OfDevice(m.to, m.receiver_identity)

Owned == KeysOwned /\ RecordsOfSender /\ MessagesOwned

(* The certificate is of a device and of an identity that it has had; what *)
(* else it says may be out of date, damaged or not from the service.       *)
GoodCertificate(sc) ==
    LET cert == sc.certificate IN
    /\ \E p \in Party :
          /\ cert.uuid = sender_uuid(p) /\ cert.device = device_id(p)
          /\ OfDevice(p, cert.key)
    /\ cert.signer.id = None => cert.signer.embedded \in ServerCertificate
    /\ cert.expiration \in Nat

(* The envelope holds a ciphertext that was released, sealed by the        *)
(* identity that sent it for the one that it is encrypted for.             *)
GoodEnvelope(e) ==
    LET usmc == e.encrypted_message.plaintext
        m    == usmc.contents
    IN  /\ m \in net
        /\ usmc.msg_type = message_type(m)
        /\ GoodCertificate(usmc.sender)
        /\ e = sealed_sender_encrypt_from_usmc(m.sender_identity, m.receiver_identity,
                                               usmc, e.ephemeral_public)

(* A result of sealed_sender_decrypt, in the form in which it stays true.  *)
AcceptedOk(r) ==
    LET cert == r.certificate.certificate IN
    /\ r.sender \in Party
    /\ r.message.from = r.sender /\ r.message.to = r.receiver
    /\ r.message.sender_identity = cert.key
    /\ OfDevice(r.sender, cert.key)
    /\ Genuine(r.certificate, r.at)

Sealed ==
    /\ Owned
    /\ \A e \in envelopes : GoodEnvelope(e)
    /\ \A r \in accepted : AcceptedOk(r)
-----------------------------------------------------------------------------
(* The identity keys that sessions and messages have.                      *)

(* What a device has published stays.                                      *)
LEMMA OfDeviceStays ==
    ASSUME Inv, Step, NEW p \in Party, NEW key, OfDevice(p, key)
    PROVE  OfDevice(p, key)'
<1>1. CASE published'[p] = published[p]
  BY <1>1 DEF OfDevice
<1>2. ASSUME Reinstall(p) PROVE OfDevice(p, key)'
  <2>1. PICK i : published'[p] = Append(published[p], i) /\ i \in Installation
    BY <1>2, ReinstalledFields
  <2>2. published[p] \in Seq(Installation)
    BY DEF Inv, TypeOK
  <2>3. PICK j \in DOMAIN published[p] : published[p][j].identity = key
    BY DEF OfDevice
  <2>4. j \in DOMAIN published'[p] /\ published'[p][j] = published[p][j]
    BY <2>1, <2>2
  <2> QED
    BY <2>3, <2>4 DEF OfDevice
<1>3. published'[p] = published[p] \/ Reinstall(p)
  <2>1. ASSUME NEW x \in Party, Reinstall(x), x # p PROVE published'[p] = published[p]
    BY <2>1, ReinstalledFields
  <2> QED
    BY <2>1 DEF Step, Started, Sent, ReceivedOnOld, ReceivedOnNew, Received, Quiet
<1> QED
  BY <1>1, <1>2, <1>3

LEMMA KeysOwnedStep == Inv /\ Step /\ KeysOwned => KeysOwned'
<1> SUFFICES ASSUME Inv, Step, KeysOwned, NEW p \in Party
             PROVE  /\ OfDevice(p, identity[p])'
                    /\ \A i \in DOMAIN published'[p] : published'[p][i].identity[1] = p
  BY DEF KeysOwned
<1>1. CASE published'[p] = published[p] /\ identity'[p] = identity[p]
  BY <1>1 DEF KeysOwned, OfDevice
<1>2. CASE Reinstall(p)
  <2>1. PICK i : i = NewInstallation(p, NewKey(p, 0), fresh[p])
    OBVIOUS
  <2>2. /\ published'[p] = Append(published[p], i) /\ i \in Installation
        /\ identity'[p] = << p, fresh[p] >>
    BY <1>2, <2>1, ReinstalledFields
  <2>3. i.identity = << p, fresh[p] >>
    <3>1. fresh[p] \in Nat
      BY DEF Inv, TypeOK
    <3> QED
      BY <2>1, <3>1 DEF NewInstallation, NewKey
  <2>4. published[p] \in Seq(Installation)
    BY DEF Inv, TypeOK
  <2>5. /\ Len(published[p]) + 1 \in DOMAIN published'[p]
        /\ published'[p][Len(published[p]) + 1] = i
        /\ \A j \in DOMAIN published'[p] :
              published'[p][j] = i \/ (j \in DOMAIN published[p] /\ published'[p][j] = published[p][j])
    BY <2>2, <2>4
  <2>6. OfDevice(p, identity[p])'
    BY <2>2, <2>3, <2>5 DEF OfDevice
  <2>7. i.identity[1] = p
    BY <2>3
  <2> QED
    BY <2>5, <2>6, <2>7 DEF KeysOwned
<1>3. (published'[p] = published[p] /\ identity'[p] = identity[p]) \/ Reinstall(p)
  <2>1. ASSUME NEW x \in Party, Reinstall(x), x # p
        PROVE  published'[p] = published[p] /\ identity'[p] = identity[p]
    BY <2>1, ReinstalledFields DEF Remains
  <2> QED
    BY <2>1 DEF Step, Started, Sent, ReceivedOnOld, ReceivedOnNew, Received, Quiet
<1> QED
  BY <1>1, <1>2, <1>3

(* The session that a step adds is with an identity of its peer, and so    *)
(* are those it keeps.                                                     *)
LEMMA RecordsWith ==
    ASSUME Inv, Step, RecordsOfSender, NEW p \in Party, NEW q \in Party, NEW u,
           KeepsOthers(p, q, u), OfDevice(q, u.remote_identity)
    PROVE  RecordsOfSender'
<1> SUFFICES ASSUME NEW x \in Party, NEW y \in Party, NEW s \in AllSessions(x, y)'
             PROVE  OfDevice(y, s.remote_identity)'
  BY DEF RecordsOfSender, OfDevice
<1>1. CASE x = p /\ y = q /\ s = u
  BY <1>1, OfDeviceStays
<1>2. ASSUME NEW t \in AllSessions(x, y), SameSession(s, t)
      PROVE  OfDevice(y, s.remote_identity)'
  <2>1. OfDevice(y, s.remote_identity)
    BY <1>2 DEF RecordsOfSender, OfDevice, SameSession
  <2> QED
    BY <2>1, OfDeviceStays
<1> QED
  BY <1>1, <1>2 DEF KeepsOthers

(* A served bundle has an identity of the device it is asked for.          *)
LEMMA ServedIdentity ==
    ASSUME NEW q \in Party, NEW b \in ServedBundles(q)
    PROVE  OfDevice(q, b.identity)
<1>1. PICK i \in DOMAIN published[q], j \in DOMAIN published[q],
           id \in PreKeyId \cup {None} : b = Bundle(published[q][i], published[q][j], id)
  BY DEF ServedBundles
<1> QED
  BY <1>1 DEF Bundle, OfDevice

LEMMA ReceivedIdentity ==
    ASSUME NEW s, NEW m, NEW new, NEW u, Accepts(s, m, new, u)
    PROVE  u.remote_identity = m.sender_identity
BY DEF Accepts

LEMMA OwnedStep == Safe /\ Step /\ Owned => Owned'
<1> SUFFICES ASSUME Safe, Step, KeysOwned, RecordsOfSender, MessagesOwned PROVE Owned'
  BY DEF Owned
<1> USE DEF Safe
<1>1. KeysOwned'
  BY KeysOwnedStep
<1>2. ASSUME NEW m \in net
      PROVE  OfDevice(m.from, m.sender_identity)' /\ OfDevice(m.to, m.receiver_identity)'
  BY MessageType, OfDeviceStays DEF MessagesOwned
<1>3. ASSUME net' = net PROVE MessagesOwned'
  BY <1>2, <1>3 DEF MessagesOwned
<1>4. ASSUME NEW p \in Party, NEW q \in Party, NEW b \in ServedBundles(q), Started(p, q, b)
      PROVE  Owned'
  <2>1. PICK u : u = StartedSession(p, b)
    OBVIOUS
  <2>2. u.remote_identity = b.identity
    BY <2>1, StartedFields DEF Inv
  <2>3. OfDevice(q, u.remote_identity)
    BY <2>2, ServedIdentity
  <2>4. RecordsOfSender'
    BY <1>4, <2>1, <2>3, RecordsWith DEF Started
  <2> QED
    BY <1>1, <1>3, <1>4, <2>4 DEF Started, Owned
<1>5. ASSUME NEW p \in Party, NEW q \in Party, Sent(p, q) PROVE Owned'
  <2>1. PICK s : s = sessions[p][q].current
    OBVIOUS
  <2>2. s \in AllSessions(p, q) /\ s \in GoodSession /\ SessionFacts(p, q, s)
    BY <1>5, <2>1, CurrentIsHeld DEF Sent
  <2>3. PICK u : u = Moved(s)
    OBVIOUS
  <2>4. u.remote_identity = s.remote_identity
    BY <2>2, <2>3 DEF Moved, GoodSession, SessionStructure
  <2>5. OfDevice(q, s.remote_identity)
    BY <2>2 DEF RecordsOfSender, OfDevice
  <2>6. RecordsOfSender'
    BY <1>5, <2>1, <2>3, <2>4, <2>5, RecordsWith DEF Sent
  <2>7. PICK n : n = Ciphertext(p, q, s)
    OBVIOUS
  <2>8. /\ n.from = p /\ n.to = q /\ n.sender_identity = s.local_identity
        /\ n.receiver_identity = s.remote_identity /\ net' = net \cup {n}
    BY <1>5, <2>1, <2>7 DEF Ciphertext, Sent
  <2>9. OfDevice(p, s.local_identity)' /\ OfDevice(q, s.remote_identity)'
    BY <2>2, <2>5, OfDeviceStays DEF SessionFacts, KeysOwned
  <2>10. MessagesOwned'
    BY <1>2, <2>8, <2>9 DEF MessagesOwned
  <2> QED
    BY <1>1, <2>6, <2>10 DEF Owned
<1>6. ASSUME NEW m \in net, NEW s, NEW u, Received(m, s, u) PROVE Owned'
  <2>1. m.from \in Party /\ m.to \in Party /\ OfDevice(m.from, m.sender_identity)
    BY MessageType DEF MessagesOwned
  <2>2. u.remote_identity = m.sender_identity
    BY <1>6, ReceivedIdentity DEF Received
  <2>3. RecordsOfSender'
    BY <1>6, <2>1, <2>2, RecordsWith DEF Received
  <2> QED
    BY <1>1, <1>3, <1>6, <2>3 DEF Received, Owned
<1>7. ASSUME NEW p \in Party, Reinstall(p) PROVE Owned'
  <2>1. ASSUME NEW x \in Party, NEW y \in Party, NEW s \in AllSessions(x, y)'
        PROVE  OfDevice(y, s.remote_identity)'
    <3>1. s \in AllSessions(x, y)
      BY <1>7, <2>1, ReinstalledFields
    <3>2. OfDevice(y, s.remote_identity)
      BY <3>1 DEF RecordsOfSender, OfDevice
    <3> QED
      BY <3>2, OfDeviceStays
  <2>2. RecordsOfSender'
    BY <2>1 DEF RecordsOfSender, OfDevice
  <2> QED
    BY <1>1, <1>3, <1>7, <2>2 DEF Reinstall, Owned
<1>8. CASE Quiet
  <2>1. ASSUME NEW x \in Party, NEW y \in Party, NEW s \in AllSessions(x, y)'
        PROVE  OfDevice(y, s.remote_identity)'
    <3>1. PICK t \in AllSessions(x, y) : SameSession(s, t)
      BY <1>8, <2>1 DEF Quiet, KeepsAll
    <3>2. OfDevice(y, s.remote_identity)
      BY <3>1 DEF RecordsOfSender, OfDevice, SameSession
    <3> QED
      BY <3>2, OfDeviceStays
  <2>2. RecordsOfSender'
    BY <2>1 DEF RecordsOfSender, OfDevice
  <2> QED
    BY <1>1, <1>3, <1>8, <2>2 DEF Quiet, Owned
<1> QED
  BY <1>4, <1>5, <1>6, <1>7, <1>8 DEF Step, ReceivedOnOld, ReceivedOnNew

LEMMA InitOwned == ~Linked /\ Init => Owned
<1> SUFFICES ASSUME ~Linked, Init PROVE Owned
  OBVIOUS
<1>1. RecordsOfSender /\ MessagesOwned
  BY DEF Init, RecordsOfSender, MessagesOwned, AllSessions
<1>2. ASSUME NEW p \in Party
      PROVE  OfDevice(p, identity[p]) /\ \A i \in DOMAIN published[p] : published[p][i].identity[1] = p
  <2>1. PICK i : i = FirstInstallation(p)
    OBVIOUS
  <2>2. i.identity = << p, 0 >>
    BY <2>1 DEF FirstInstallation, NewInstallation
  <2>3. identity[p] = i.identity /\ published[p] = << i >>
    BY <2>1 DEF Init
  <2>4. i.identity[1] = p
    BY <2>2
  <2>5. DOMAIN published[p] = {1} /\ published[p][1] = i
    BY <2>3
  <2> QED
    BY <2>3, <2>4, <2>5 DEF OfDevice
<1> QED
  BY <1>1, <1>2 DEF Owned, KeysOwned
-----------------------------------------------------------------------------
(* The certificates.                                                       *)

LEMMA IssuedIsGood ==
    ASSUME NEW p \in Party, NEW e164, NEW key, OfDevice(p, key), NEW since \in Nat, NEW sc,
           NEW reference \in BOOLEAN,
           ~reference => sc \in ServerCertificate, reference => sc.key_id \in Nat
    PROVE  GoodCertificate(IssuedCertificate(p, e164, key, since, sc, reference))
<1>1. PICK signer : signer = IF reference THEN [embedded |-> None, id |-> sc.key_id]
                                          ELSE [embedded |-> sc, id |-> None]
  OBVIOUS
<1>2. PICK cert : cert = [uuid |-> sender_uuid(p), e164 |-> e164, device |-> device_id(p),
                          key |-> key, expiration |-> since + Lifetime, signer |-> signer]
  OBVIOUS
<1>3. IssuedCertificate(p, e164, key, since, sc, reference).certificate = cert
  BY <1>1, <1>2 DEF IssuedCertificate, SenderCertificate_new
<1>4. signer.id = None => signer.embedded \in ServerCertificate
  BY <1>1, SealedSenderAssumption
<1>5. /\ cert.uuid = sender_uuid(p) /\ cert.device = device_id(p)
      /\ cert.key = key /\ cert.signer = signer /\ cert.expiration \in Nat
  BY <1>2, SealedSenderAssumption
<1> QED
  BY <1>3, <1>4, <1>5 DEF GoodCertificate

LEMMA ServersExist ==
    /\ UsualServer \in ServerCertificate
    /\ \A sc \in {KNOWN_SERVER_CERTIFICATES[2], KNOWN_SERVER_CERTIFICATES[3],
                  ServerCertificate_new(5, "production")} : sc.key_id \in Nat
BY DEF UsualServer, ServerCertificate, KNOWN_SERVER_CERTIFICATES, ServerCertificate_new

LEMMA UsualIsGood ==
    ASSUME KeysOwned, now \in Nat, NEW p \in Party
    PROVE  GoodCertificate(UsualCertificate(p))
BY IssuedIsGood, ServersExist DEF UsualCertificate, KeysOwned

LEMMA DamagedIsGood ==
    ASSUME KeysOwned, now \in Nat, NEW p \in Party, NEW sc \in DamagedCertificates(p)
    PROVE  GoodCertificate(sc)
<1>1. PICK u : u = UsualCertificate(p)
  OBVIOUS
<1>2. GoodCertificate(u)
  BY <1>1, UsualIsGood
<1>3. /\ sc.certificate.uuid = u.certificate.uuid /\ sc.certificate.device = u.certificate.device
      /\ sc.certificate.key = u.certificate.key /\ sc.certificate.signer = u.certificate.signer
      /\ sc.certificate.expiration = u.certificate.expiration + 1
  BY <1>1 DEF DamagedCertificates, UsualCertificate, IssuedCertificate, SenderCertificate_new
<1> QED
  BY <1>2, <1>3 DEF GoodCertificate

(* Whatever certificate a device sends with.                               *)
LEMMA UnusualIsGood ==
    ASSUME KeysOwned, now \in Nat, NEW p \in Party, NEW sc \in UnusualCertificates(p)
    PROVE  GoodCertificate(sc)
<1>1. CASE sc \in DamagedCertificates(p)
  BY <1>1, DamagedIsGood
<1>2. CASE \E q \in Party : sc = UsualCertificate(q)
  BY <1>2, UsualIsGood
<1>3. CASE sc \in IssuedCertificates(p)
  <2>1. OfDevice(p, identity[p])
    BY DEF KeysOwned
  <2>2. \A i \in DOMAIN published[p] : OfDevice(p, published[p][i].identity)
    BY DEF OfDevice
  <2>3. CASE sc = IssuedCertificate(p, p, identity[p], now, UsualServer, FALSE)
    BY <2>1, <2>3, IssuedIsGood, ServersExist
  <2>4. CASE \E i \in DOMAIN published[p] : sc =
               IssuedCertificate(p, number[p], published[p][i].identity, now, UsualServer, FALSE)
    BY <2>2, <2>4, IssuedIsGood, ServersExist
  <2>5. CASE \E t \in 0 .. now : sc =
               IssuedCertificate(p, number[p], identity[p], t, UsualServer, FALSE)
    <3>1. PICK t \in 0 .. now :
             sc = IssuedCertificate(p, number[p], identity[p], t, UsualServer, FALSE)
      BY <2>5
    <3>2. t \in Nat
      OBVIOUS
    <3> QED
      BY <2>1, <3>1, <3>2, IssuedIsGood, ServersExist
  <2>6. CASE \E c \in ServerCertificate : sc =
               IssuedCertificate(p, number[p], identity[p], now, c, FALSE)
    BY <2>1, <2>6, IssuedIsGood
  <2>7. CASE \E c \in {KNOWN_SERVER_CERTIFICATES[2], KNOWN_SERVER_CERTIFICATES[3],
                       ServerCertificate_new(5, "production")} :
               sc = IssuedCertificate(p, number[p], identity[p], now, c, TRUE)
    BY <2>1, <2>7, IssuedIsGood, ServersExist
  <2> QED
    BY <1>3, <2>3, <2>4, <2>5, <2>6, <2>7 DEF IssuedCertificates
<1> QED
  BY <1>1, <1>2, <1>3 DEF UnusualCertificates

(* A certificate that was validated comes from the service, and from a     *)
(* server that is not revoked.                                             *)
LEMMA ValidatedIsGenuine ==
    ASSUME NEW sc, GoodCertificate(sc), NEW time \in Nat,
           validate_with_trust_roots(sc, {"production"}, time)
    PROVE  Genuine(sc, time)
<1>1. PICK cert : cert = sc.certificate
  OBVIOUS
<1>2. PICK signer : signer = signer_of(cert)
  OBVIOUS
<1>3. /\ HasSigner(cert) /\ server_validate(signer, "production")
      /\ sc.signature = [key |-> signer.key, over |-> cert]
      /\ ~expired(cert, time)
  BY <1>1, <1>2 DEF validate_with_trust_roots
<1>4. signer \in ServerCertificate
  <2>1. CASE cert.signer.id = None
    BY <1>1, <1>2, <2>1 DEF signer_of, GoodCertificate
  <2>2. CASE cert.signer.id \in {2, 3} /\ cert.signer.id # None
    BY <1>2, <2>2 DEF signer_of, ServerCertificate
  <2> QED
    BY <1>3, <2>1, <2>2 DEF HasSigner, KNOWN_SERVER_CERTIFICATES
<1>5. signer.signature = "production" /\ signer.key_id # 1
  BY <1>3 DEF server_validate, REVOKED_SERVER_CERTIFICATE_KEY_IDS
<1>6. PICK id \in {1, 2, 3, 4} :
         signer = ServerCertificate_new(id, IF id = 2 THEN "staging" ELSE "production")
  BY <1>4 DEF ServerCertificate, KNOWN_SERVER_CERTIFICATES
<1>7. signer.key[2] = id /\ signer.key_id = id
      /\ signer.signature = IF id = 2 THEN "staging" ELSE "production"
  BY <1>6 DEF ServerCertificate_new
<1>8. signer.key[2] \in {3, 4}
  BY <1>5, <1>7
<1>9. time <= cert.expiration
  BY <1>1, <1>3 DEF expired, GoodCertificate
<1> QED
  BY <1>1, <1>3, <1>8, <1>9 DEF Genuine
-----------------------------------------------------------------------------
(* Sealing a message and opening the parts of envelopes.                   *)

LEMMA CertificateStays ==
    ASSUME Inv, Step, NEW sc, GoodCertificate(sc)
    PROVE  GoodCertificate(sc)'
<1>1. PICK p \in Party : /\ sc.certificate.uuid = sender_uuid(p)
                         /\ sc.certificate.device = device_id(p)
                         /\ OfDevice(p, sc.certificate.key)
  BY DEF GoodCertificate
<1>2. OfDevice(p, sc.certificate.key)'
  BY <1>1, OfDeviceStays
<1> QED
  BY <1>1, <1>2 DEF GoodCertificate

LEMMA EnvelopeStays ==
    ASSUME Inv, Step, net \subseteq net', NEW e, GoodEnvelope(e)
    PROVE  GoodEnvelope(e)'
<1>1. PICK usmc, m : usmc = e.encrypted_message.plaintext /\ m = usmc.contents
  OBVIOUS
<1>2. /\ m \in net /\ usmc.msg_type = message_type(m) /\ GoodCertificate(usmc.sender)
      /\ e = sealed_sender_encrypt_from_usmc(m.sender_identity, m.receiver_identity,
                                             usmc, e.ephemeral_public)
  BY <1>1 DEF GoodEnvelope
<1>3. GoodCertificate(usmc.sender)'
  BY <1>2, CertificateStays
<1> QED
  BY <1>1, <1>2, <1>3 DEF GoodEnvelope

(* The parts of a good envelope.                                           *)
LEMMA EnvelopeParts ==
    ASSUME NEW our, NEW their, NEW usmc, NEW eph,
           NEW e, e = sealed_sender_encrypt_from_usmc(our, their, usmc, eph)
    PROVE  /\ e.ephemeral_public = eph
           /\ e.encrypted_static.plaintext = our
           /\ e.encrypted_message.plaintext = usmc
           /\ e.encrypted_message.keys.ctext = e.encrypted_static
           /\ e.encrypted_message.keys.chain_key.salt = << their, eph >>
BY DEF sealed_sender_encrypt_from_usmc, aes256_ctr_hmacsha256_encrypt, StaticKeys, EphemeralKeys

LEMMA SealedIsGood ==
    ASSUME Safe, Owned, NEW p \in Party, NEW q \in Party, NEW sc, GoodCertificate(sc)',
           NEW w \in 1 .. 2, sealed_sender_encrypt(p, q, sc, w),
           NEW e \in envelopes' \ envelopes
    PROVE  GoodEnvelope(e)'
<1>1. PICK s : s = sessions[p][q].current
  OBVIOUS
<1>2. PICK m : m = Ciphertext(p, q, s)
  OBVIOUS
<1>3. PICK usmc : usmc = UnidentifiedSenderMessageContent(message_type(m), sc, m)
  OBVIOUS
<1>4. PICK eph : eph = SealingKey(p, m.number)
  OBVIOUS
<1>5. /\ HasCurrentSession(p, q) /\ message_encrypt(p, q, w) /\ ReturnsOk(w, 2)
      /\ e = sealed_sender_encrypt_from_usmc(identity[p], known_keys'[p][q], usmc, eph)
  BY <1>1, <1>2, <1>3, <1>4 DEF sealed_sender_encrypt
<1>6. s \in GoodSession /\ SessionFacts(p, q, s)
  BY <1>1, <1>5, CurrentIsHeld
<1>7. net' = net \cup {m} /\ known_keys' = save_identity(p, q, s.remote_identity)
  BY <1>1, <1>2, <1>5 DEF message_encrypt
<1>8. known_keys'[p][q] = s.remote_identity
  BY <1>7 DEF save_identity, Safe, Inv, TypeOK
<1>9. m.sender_identity = identity[p] /\ m.receiver_identity = known_keys'[p][q]
  BY <1>2, <1>6, <1>8 DEF Ciphertext, SessionFacts
<1>10. usmc.contents = m /\ usmc.sender = sc /\ usmc.msg_type = message_type(m)
  BY <1>3 DEF UnidentifiedSenderMessageContent
<1>11. e.encrypted_message.plaintext = usmc /\ e.ephemeral_public = eph
  BY <1>5, EnvelopeParts
<1> QED
  BY <1>5, <1>7, <1>9, <1>10, <1>11 DEF GoodEnvelope

(* The parts that open for a device are of one message, which is for that  *)
(* device and from the one that the certificate names.                     *)
LEMMA OpenedIsCertified ==
    ASSUME ~Linked, Safe, Sealed, NEW p \in Party, NEW e \in InTransit, ValidEnvelope(p, e)
    PROVE  LET usmc == e.encrypted_message.plaintext
               m    == usmc.contents
           IN  /\ m \in net /\ usmc.msg_type = message_type(m)
               /\ m.to = p /\ m.from = ProtocolAddress(usmc.sender.certificate)
               /\ m.sender_identity = usmc.sender.certificate.key
               /\ Genuine(usmc.sender, now)
<1>1. PICK e1 \in envelopes, e2 \in envelopes, e3 \in envelopes :
         e = [ephemeral_public |-> e1.ephemeral_public, encrypted_static |-> e2.encrypted_static,
              encrypted_message |-> e3.encrypted_message]
  BY DEF InTransit
<1>2. GoodEnvelope(e1) /\ GoodEnvelope(e2) /\ GoodEnvelope(e3)
  BY DEF Sealed
<1>3. /\ e.ephemeral_public = e1.ephemeral_public /\ e.encrypted_static = e2.encrypted_static
      /\ e.encrypted_message = e3.encrypted_message
  BY <1>1
<1>4. PICK usmc : usmc = e.encrypted_message.plaintext
  OBVIOUS
<1>5. PICK m : m = usmc.contents
  OBVIOUS
<1>6. /\ m \in net /\ usmc.msg_type = message_type(m) /\ GoodCertificate(usmc.sender)
      /\ e3 = sealed_sender_encrypt_from_usmc(m.sender_identity, m.receiver_identity,
                                              usmc, e3.ephemeral_public)
  BY <1>2, <1>3, <1>4, <1>5 DEF GoodEnvelope
<1>7. /\ e3.encrypted_static.plaintext = m.sender_identity
      /\ e3.encrypted_message.keys.ctext = e3.encrypted_static
      /\ e3.encrypted_message.keys.chain_key.salt = << m.receiver_identity, e3.ephemeral_public >>
  BY <1>6, EnvelopeParts
<1>8. PICK keys : keys = EphemeralKeys(identity[p], e.ephemeral_public, "Receiving")
  OBVIOUS
<1>9. keys.salt = << identity[p], e.ephemeral_public >>
  BY <1>8 DEF EphemeralKeys
<1>10. /\ e.encrypted_message.keys =
             StaticKeys(identity[p], e.encrypted_static.plaintext, keys, e.encrypted_static)
       /\ e.encrypted_static.plaintext = usmc.sender.certificate.key
       /\ validate_with_trust_roots(usmc.sender, {"production"}, now)
  BY <1>4, <1>8 DEF ValidEnvelope, sealed_sender_decrypt_to_usmc_ok, KeyOfCertificate
<1>11. e3.encrypted_message.keys.ctext = e.encrypted_static
       /\ e3.encrypted_message.keys.chain_key = keys
  BY <1>3, <1>10 DEF StaticKeys
<1>12. e.encrypted_static.plaintext = m.sender_identity /\ identity[p] = m.receiver_identity
  BY <1>7, <1>9, <1>11
<1>13. m.from \in Party /\ m.to \in Party
  BY <1>6, MessageType DEF Safe
<1>14. OfDevice(m.from, m.sender_identity) /\ OfDevice(m.to, identity[p]) /\ OfDevice(p, identity[p])
  BY <1>6, <1>12 DEF Sealed, Owned, MessagesOwned, KeysOwned
<1>15. \A x, y \in Party : \A key : OfDevice(x, key) /\ OfDevice(y, key) => x = y
  BY DEF Sealed, Owned, KeysOwned, OfDevice
<1>16. m.to = p
  BY <1>13, <1>14, <1>15
<1>17. PICK x \in Party : /\ usmc.sender.certificate.uuid = sender_uuid(x)
                          /\ usmc.sender.certificate.device = device_id(x)
                          /\ OfDevice(x, usmc.sender.certificate.key)
  BY <1>6 DEF GoodCertificate
<1>18. x = m.from
  BY <1>10, <1>12, <1>13, <1>14, <1>15, <1>17
<1>19. ProtocolAddress(usmc.sender.certificate) = x
  BY <1>17 DEF ProtocolAddress, sender_uuid
<1>20. Genuine(usmc.sender, now)
  BY <1>6, <1>10, ValidatedIsGenuine DEF Safe, Inv, TypeOK
<1> QED
  BY <1>4, <1>5, <1>6, <1>10, <1>12, <1>16, <1>18, <1>19, <1>20
-----------------------------------------------------------------------------
(* Every step keeps the invariant and is a step of the sessions.           *)

LEMMA SafeStep == Safe /\ [Next]_vars => Safe' /\ Step
<1> SUFFICES ASSUME Safe, [Next]_vars PROVE Safe' /\ Step
  OBVIOUS
<1>1. Inv'
  BY NextInv DEF Safe
<1>2. Known' /\ Step
  BY <1>1, KnownStep DEF Safe
<1>3. Chains' /\ Delivery'
  BY <1>1, <1>2, ChainsStep, DeliveryStep DEF Safe
<1> QED
  BY <1>1, <1>2, <1>3 DEF Safe

LEMMA NetGrows == Step => net \subseteq net'
BY DEF Step, Started, Sent, ReceivedOnOld, ReceivedOnNew, Received, Reinstall, Quiet

LEMMA SendIsEncrypt ==
    ASSUME NEW p \in Party, NEW q \in Peers(p), SendSealed(p, q)
    PROVE  /\ Encrypt(p, q) /\ UNCHANGED accepted
           /\ \E w \in 1 .. 2, sc \in UnusualCertificates(p) \cup {UsualCertificate(p)} :
                 sealed_sender_encrypt(p, q, sc, w)
<1>1. PICK w \in 1 .. 2, sc \in UnusualCertificates(p) \cup {UsualCertificate(p)} :
         sealed_sender_encrypt(p, q, sc, w)
  BY DEF SendSealed
<1>2. message_encrypt(p, q, w) /\ UNCHANGED accepted
  BY <1>1 DEF sealed_sender_encrypt
<1> QED
  BY <1>1, <1>2 DEF Encrypt

(* What sealed_sender_decrypt does is to decrypt a message that was        *)
(* released, as its receiver and as coming from its sender.                *)
LEMMA OpenIsDecrypt ==
    ASSUME ~Linked, Safe, Sealed, NEW p \in Party, NEW e \in InTransit,
           sealed_sender_decrypt(p, e)
    PROVE  /\ \E m \in net : DecryptSignal(m) \/ DecryptPreKey(m)
           /\ UNCHANGED envelopes
           /\ \/ UNCHANGED accepted
              \/ \E r : /\ accepted' = accepted \cup {r}
                        /\ r.message.from = r.sender /\ r.message.to = r.receiver
                        /\ r.message \in net
                        /\ r.message.sender_identity = r.certificate.certificate.key
                        /\ Genuine(r.certificate, r.at)
<1>1. PICK usmc : usmc = e.encrypted_message.plaintext
  OBVIOUS
<1>2. PICK m : m = usmc.contents
  OBVIOUS
<1>3. PICK a : a = ProtocolAddress(usmc.sender.certificate)
  OBVIOUS
<1>4. ValidEnvelope(p, e) /\ UNCHANGED envelopes
  BY DEF sealed_sender_decrypt
<1>5. /\ m \in net /\ m.to = p /\ m.from = a
      /\ m.sender_identity = usmc.sender.certificate.key /\ Genuine(usmc.sender, now)
  BY <1>1, <1>2, <1>3, <1>4, OpenedIsCertified
<1>6. PICK all : all = IF usmc.msg_type = "PreKey" THEN 4 ELSE 2
  OBVIOUS
<1>7. PICK writes \in 1 .. all :
         /\ \/ usmc.msg_type = "Whisper" /\ message_decrypt_signal(p, a, m, writes)
            \/ usmc.msg_type = "PreKey" /\ message_decrypt_prekey(p, a, m, writes)
         /\ accepted' = IF ReturnsOk(writes, all)
               THEN accepted \cup {[receiver |-> p, sender |-> a, message |-> m,
                                    certificate |-> usmc.sender, at |-> now]}
               ELSE accepted
  BY <1>1, <1>2, <1>3, <1>6 DEF sealed_sender_decrypt
<1>8. DecryptSignal(m) \/ DecryptPreKey(m)
  BY <1>5, <1>6, <1>7 DEF DecryptSignal, DecryptPreKey
<1>9. CASE UNCHANGED accepted
  BY <1>4, <1>5, <1>8, <1>9
<1>10. CASE ReturnsOk(writes, all)
  <2>1. PICK r : r = [receiver |-> p, sender |-> a, message |-> m,
                      certificate |-> usmc.sender, at |-> now]
    OBVIOUS
  <2>2. /\ r.receiver = p /\ r.sender = a /\ r.message = m
        /\ r.certificate = usmc.sender /\ r.at = now
    BY <2>1
  <2>3. accepted' = accepted \cup {r}
    BY <1>7, <1>10, <2>1
  <2> QED
    BY <1>4, <1>5, <1>8, <2>2, <2>3
<1> QED
  BY <1>7, <1>9, <1>10

LEMMA SealedIsNext == ~Linked /\ Safe /\ Sealed /\ [SealedNext]_allVars => [Next]_vars
<1> SUFFICES ASSUME ~Linked, Safe, Sealed, [SealedNext]_allVars PROVE [Next]_vars
  OBVIOUS
<1>1. ASSUME NEW p \in Party, NEW q \in Peers(p), SendSealed(p, q) PROVE Next
  BY <1>1, SendIsEncrypt DEF Next
<1>2. ASSUME NEW p \in Party, NEW e \in InTransit, sealed_sender_decrypt(p, e) PROVE Next
  BY <1>2, OpenIsDecrypt DEF Next
<1>3. ASSUME NEW p \in Party, NEW q \in Peers(p), MoveNumber(p, q) PROVE UNCHANGED vars
  BY <1>3 DEF MoveNumber
<1>4. CASE UNCHANGED allVars
  BY <1>4 DEF allVars
<1>5. ASSUME NEW p \in Party, NEW q \in Peers(p), StartSession(p, q) \/ AcceptIdentity(p, q)
      PROVE  Next
  BY <1>5 DEF Next
<1>6. ASSUME NEW p \in Party, Reinstall(p) PROVE Next
  BY <1>6 DEF Next
<1>7. CASE Tick
  BY <1>7 DEF Next
<1> QED
  BY <1>1, <1>2, <1>3, <1>4, <1>5, <1>6, <1>7 DEF SealedNext

LEMMA SealedStep == ~Linked /\ Safe /\ Sealed /\ [SealedNext]_allVars => Sealed'
<1> SUFFICES ASSUME ~Linked, Safe, Sealed, [SealedNext]_allVars PROVE Sealed'
  OBVIOUS
<1>1. Safe' /\ Step /\ net \subseteq net'
  BY SealedIsNext, SafeStep, NetGrows
<1>2. Owned'
  BY <1>1, OwnedStep DEF Sealed
<1>3. \A e \in envelopes : GoodEnvelope(e)'
  BY <1>1, EnvelopeStays DEF Sealed, Safe
<1>4. \A r \in accepted : AcceptedOk(r)'
  BY <1>1, OfDeviceStays DEF Sealed, AcceptedOk, Safe
<1>5. ASSUME UNCHANGED << envelopes, accepted >> PROVE Sealed'
  BY <1>2, <1>3, <1>4, <1>5 DEF Sealed
<1>6. ASSUME NEW p \in Party, NEW q \in Peers(p), SendSealed(p, q) PROVE Sealed'
  <2>1. PICK w \in 1 .. 2, sc \in UnusualCertificates(p) \cup {UsualCertificate(p)} :
           sealed_sender_encrypt(p, q, sc, w)
    BY <1>6, SendIsEncrypt
  <2>2. GoodCertificate(sc)'
    <3>1. GoodCertificate(sc)
      BY UsualIsGood, UnusualIsGood DEF Sealed, Owned, Safe, Inv, TypeOK
    <3> QED
      BY <1>1, <3>1, CertificateStays DEF Safe
  <2>3. \A e \in envelopes' \ envelopes : GoodEnvelope(e)'
    BY <2>1, <2>2, SealedIsGood DEF Sealed, Peers
  <2>4. UNCHANGED accepted
    BY <2>1 DEF sealed_sender_encrypt
  <2> QED
    BY <1>2, <1>3, <1>4, <2>3, <2>4 DEF Sealed
<1>7. ASSUME NEW p \in Party, NEW e \in InTransit, sealed_sender_decrypt(p, e) PROVE Sealed'
  <2>1. UNCHANGED envelopes
    BY <1>7, OpenIsDecrypt
  <2>2. CASE UNCHANGED accepted
    BY <1>5, <2>1, <2>2
  <2>3. ASSUME NEW r, accepted' = accepted \cup {r},
               r.message.from = r.sender, r.message.to = r.receiver, r.message \in net,
               r.message.sender_identity = r.certificate.certificate.key,
               Genuine(r.certificate, r.at)
        PROVE  Sealed'
    <3>1. r.sender \in Party /\ OfDevice(r.sender, r.certificate.certificate.key)
      BY <2>3, MessageType DEF Safe, Sealed, Owned, MessagesOwned
    <3>2. AcceptedOk(r)'
      BY <1>1, <2>3, <3>1, OfDeviceStays DEF AcceptedOk, Safe
    <3> QED
      BY <1>2, <1>3, <1>4, <2>1, <2>3, <3>2 DEF Sealed
  <2> QED
    BY <1>7, <2>2, <2>3, OpenIsDecrypt
<1>8. ASSUME NEW p \in Party, NEW q \in Peers(p), MoveNumber(p, q) PROVE Sealed'
  BY <1>5, <1>8 DEF MoveNumber
<1>9. CASE UNCHANGED allVars
  BY <1>5, <1>9 DEF allVars, sealedVars
<1>10. CASE UNCHANGED sealedVars
  BY <1>5, <1>10 DEF sealedVars
<1> QED
  BY <1>6, <1>7, <1>8, <1>9, <1>10 DEF SealedNext

LEMMA InitSafe == Init => Safe
  BY InitInv, InitKnown, InitChains, InitDelivery DEF Safe

LEMMA InitSealed == ~Linked /\ SealedInit => Sealed
  BY InitOwned DEF SealedInit, Sealed

-----------------------------------------------------------------------------
(* The results.                                                            *)

(* The invariant: every envelope is sealed by the sender of its message    *)
(* for the identity the message is for, and sessions, messages and         *)
(* certificates have identity keys of the devices that they name.          *)
THEOREM SealedInvariant == ~Linked => (SealedSpec => [](Safe /\ Sealed))
<1> SUFFICES ASSUME ~Linked PROVE SealedSpec => [](Safe /\ Sealed)
  OBVIOUS
<1>1. SealedInit => Safe /\ Sealed
  BY InitSafe, InitSealed DEF SealedInit
<1>2. Safe /\ Sealed /\ [SealedNext]_allVars => Safe' /\ Sealed'
  BY SealedIsNext, SafeStep, SealedStep
<1> QED
  BY <1>1, <1>2, PTL DEF SealedSpec

(* sealed_sender_encrypt and sealed_sender_decrypt do nothing to sessions  *)
(* that message_encrypt and message_decrypt could not do: the address that *)
(* a certificate names is the sender's.  So whatever is proved of Session  *)
(* holds of its sessions under sealed sender too.                          *)
THEOREM SealedSenderIsSession == ~Linked => (SealedSpec => Spec)
<1> SUFFICES ASSUME ~Linked PROVE SealedSpec => Spec
  OBVIOUS
<1>1. SealedInit => Init
  BY DEF SealedInit
<1>2. Safe /\ Sealed /\ [SealedNext]_allVars => [Next]_vars
  BY SealedIsNext
<1> QED
  BY <1>1, <1>2, SealedInvariant, PTL DEF SealedSpec, Spec

(* Every plaintext that sealed_sender_decrypt hands out was encrypted for  *)
(* this device by the device named with it, under the identity that the    *)
(* production service certified, with a certificate that was valid then:   *)
(* in whatever way the parts of envelopes are lost, repeated, reordered,   *)
(* misrouted and put together, and whatever certificates senders use.      *)
THEOREM SealedSenderCertified == ~Linked => (SealedSpec => []AcceptedIsCertified)
<1>1. Sealed => AcceptedIsCertified
  BY DEF Sealed, AcceptedOk, AcceptedIsCertified, OfDevice
<1> QED
  BY <1>1, SealedInvariant, PTL

(* No record ever holds a session with an identity that its address never  *)
(* had, although sealed_sender_decrypt files a session under the address   *)
(* of a certificate and takes its identity from the message.               *)
THEOREM SealedSenderRecords == ~Linked => (SealedSpec => []RecordsOfSender)
<1>1. Sealed => RecordsOfSender
  BY DEF Sealed, Owned
<1> QED
  BY <1>1, SealedInvariant, PTL

(* Sessions under sealed sender implement the channel as well: each        *)
(* sealed_sender_encrypt sends at most one message and each                *)
(* sealed_sender_decrypt receives at most one, once, from the identity     *)
(* that is pinned for the address the certificate names.                   *)
THEOREM SealedSenderImplementsChannel == ~Linked => (SealedSpec => ImplementsChannel)
  BY SealedSenderIsSession, SessionImplementsChannel, PTL
=============================================================================
