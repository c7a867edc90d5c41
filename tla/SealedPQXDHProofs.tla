-------------------------- MODULE SealedPQXDHProofs --------------------------
(***************************************************************************)
(* Theorems about the sealed PQXDH handshake, for every set of devices,    *)
(* any number of handshakes and of damaged ones.                           *)
(*                                                                         *)
(* The argument is about the MAC.  Whatever the transport makes of a       *)
(* handshake, it still carries the MAC of the one that was sent, with the  *)
(* message that this MAC is over.  A responder that finds the MAC right    *)
(* has the very message that the initiator sent, and, because the MAC key  *)
(* is made of all the agreements, the keys that the initiator meant.       *)
(***************************************************************************)
EXTENDS SealedPQXDH, SessionProofs

-----------------------------------------------------------------------------
(* The inductive invariant.                                                *)

(* What the initiator of run r seals with, and the session key, given its  *)
(* ephemeral key.                                                          *)
RunSeal(r, eph) ==
    [dh2 |-> DH(eph, r.ik_b),
     dh3 |-> DH(eph, r.spk),
     dh4 |-> IF r.opk = None THEN {} ELSE DH(eph, r.opk),
     kem |-> encapsulate(r.pqpk, eph)]

RunKey(r, eph) == session_and_mac_key(RunSeal(r, eph), DH(r.ik_a, r.spk))

Run(initiator, responder, ik_a, ik_b, opk, spk, pqpk, key) ==
    [initiator |-> initiator, responder |-> responder, ik_a |-> ik_a, ik_b |-> ik_b,
     opk |-> opk, spk |-> spk, pqpk |-> pqpk, session_key |-> key]

RunsMade ==
    \A r \in initiated :
        /\ r = Run(r.initiator, r.responder, r.ik_a, r.ik_b, r.opk, r.spk, r.pqpk,
                   r.session_key)
        /\ r.session_key = RunKey(r, r.session_key.kem.seed)

(* Run r released a message o with this MAC key, to this device.           *)
SentBy(r, to, key, o) ==
    /\ r.responder = to /\ r.initiator = o.inner.cert.sender
    /\ r.session_key = key
    /\ key = RunKey(r, o.ec_ephemeral)
    /\ o.inner.sealed_with = RunSeal(r, o.ec_ephemeral)
    /\ o.kem_ciphertext = encapsulate(r.pqpk, o.ec_ephemeral)
    /\ o.pre_key_id # None => r.opk # None

(* Damage leaves the MAC and the addressee alone.                          *)
HandshakesMade ==
    \A m \in handshakes :
        /\ m = [to |-> m.to, msg |-> m.msg,
                mac |-> [key |-> m.mac.key, over |-> m.mac.over]]
        /\ \E r \in initiated : SentBy(r, m.to, m.mac.key, m.mac.over)
        /\ m \notin damaged => m.mac.over = m.msg

SealedInv == KeysPublished /\ RunsMade /\ HandshakesMade

-----------------------------------------------------------------------------
(* The keys of run r are those with which this session key was made.       *)
LEMMA KeyOfRun ==
    ASSUME NEW r, NEW eph, NEW key, key = RunKey(r, eph)
    PROVE  /\ key.dh1 = {r.ik_a, r.spk} /\ key.dh2 = {eph, r.ik_b}
           /\ key.dh3 = {eph, r.spk}
           /\ key.dh4 = IF r.opk = None THEN {} ELSE {eph, r.opk}
           /\ key.kem = [kyber |-> r.pqpk, seed |-> eph]
           /\ key.kem.seed = eph /\ key.kem.kyber = r.pqpk
BY DEF RunKey, RunSeal, session_and_mac_key, DH, encapsulate

(* A responder that accepts a handshake completes the run that sent it.    *)
LEMMA ReceivedRun ==
    ASSUME SealedInv, NEW m \in handshakes, RecvOk(m.to, m)
    PROVE  Run(m.msg.inner.cert.sender, m.to, m.msg.inner.cert.key, identity[m.to],
               OneTimePreKey(m.to, m.msg), signed[m.to], kyber[m.to], RecvKey(m.to, m.msg))
             \in initiated
<1>1. PICK r \in initiated : SentBy(r, m.to, m.mac.key, m.mac.over)
  BY DEF SealedInv, HandshakesMade
<1>2. PICK p, msg, key, opk, eph :
          /\ p = m.to /\ msg = m.msg /\ key = RecvKey(p, msg)
          /\ opk = OneTimePreKey(p, msg) /\ eph = msg.ec_ephemeral
  OBVIOUS
<1>3. m.mac.key = key /\ m.mac.over = msg
  BY <1>2 DEF RecvOk
<1>4. /\ r.responder = p /\ r.initiator = msg.inner.cert.sender /\ r.session_key = key
      /\ key = RunKey(r, eph) /\ msg.kem_ciphertext = [kyber |-> r.pqpk, seed |-> eph]
  BY <1>1, <1>2, <1>3 DEF SentBy, encapsulate
<1>5. /\ key.dh1 = {r.ik_a, r.spk} /\ key.dh2 = {eph, r.ik_b} /\ key.dh3 = {eph, r.spk}
      /\ key.dh4 = IF r.opk = None THEN {} ELSE {eph, r.opk}
      /\ key.kem = [kyber |-> r.pqpk, seed |-> eph]
  BY <1>4, KeyOfRun
<1>6. key = [dh1 |-> {signed[p], msg.inner.cert.key},
             dh2 |-> {identity[p], eph}, dh3 |-> {signed[p], eph},
             dh4 |-> IF opk = None THEN {} ELSE {opk, eph},
             kem |-> [kyber |-> kyber[p], seed |-> eph]]
  <2>1. decapsulate(kyber[p], msg.kem_ciphertext) = [kyber |-> kyber[p], seed |-> eph]
    BY <1>4 DEF decapsulate
  <2>2. prepare_sealing_key_recv(p, opk, msg) =
           [dh2 |-> {identity[p], eph}, dh3 |-> {signed[p], eph},
            dh4 |-> IF opk = None THEN {} ELSE {opk, eph},
            kem |-> [kyber |-> kyber[p], seed |-> eph]]
    BY <1>2, <2>1 DEF prepare_sealing_key_recv, DH
  <2>3. key = session_and_mac_key(prepare_sealing_key_recv(p, opk, msg),
                                  {signed[p], msg.inner.cert.key})
    BY <1>2 DEF RecvKey, DH
  <2> QED
    BY <2>2, <2>3 DEF session_and_mac_key
<1>7. r.ik_b = identity[p] /\ r.spk = signed[p]
  BY <1>5, <1>6
<1>8. r.ik_a = msg.inner.cert.key
  BY <1>5, <1>6, <1>7
<1>9. r.opk = opk
  BY <1>5, <1>6
<1>10. r.pqpk = kyber[p]
  <2>1. [kyber |-> r.pqpk, seed |-> eph].kyber = [kyber |-> kyber[p], seed |-> eph].kyber
    BY <1>5, <1>6
  <2> QED
    BY <2>1
<1>11. r = Run(r.initiator, r.responder, r.ik_a, r.ik_b, r.opk, r.spk, r.pqpk, r.session_key)
  BY DEF SealedInv, RunsMade
<1> QED
  BY <1>2, <1>4, <1>7, <1>8, <1>9, <1>10, <1>11

(* The handshake of a run is accepted while the responder has its keys.    *)
LEMMA InvCompletes == SealedInv => HandshakeCompletes
<1> SUFFICES ASSUME SealedInv, NEW m \in handshakes \ damaged, NEW r \in initiated,
                    r.session_key = m.mac.key, r.ik_a = m.msg.inner.cert.key,
                    r.ik_b = identity[m.to], r.spk = signed[m.to], r.pqpk = kyber[m.to],
                    r.opk = OneTimePreKey(m.to, m.msg)
             PROVE  RecvOk(m.to, m)
  BY DEF HandshakeCompletes
<1>1. PICK p, msg, key, opk, eph :
          /\ p = m.to /\ msg = m.msg /\ key = m.mac.key
          /\ opk = OneTimePreKey(p, msg) /\ eph = msg.ec_ephemeral
  OBVIOUS
<1>2. PICK o \in initiated : SentBy(o, p, key, msg)
  BY <1>1 DEF SealedInv, HandshakesMade
<1>3. /\ key = RunKey(o, eph) /\ msg.inner.sealed_with = RunSeal(o, eph)
      /\ msg.kem_ciphertext = [kyber |-> o.pqpk, seed |-> eph]
      /\ msg.pre_key_id # None => o.opk # None
  BY <1>1, <1>2 DEF SentBy, encapsulate
<1>4. /\ key.dh2 = {eph, o.ik_b} /\ key.dh3 = {eph, o.spk}
      /\ key.dh4 = IF o.opk = None THEN {} ELSE {eph, o.opk}
      /\ key.kem = [kyber |-> o.pqpk, seed |-> eph] /\ key.kem.seed = eph
  <2>1. key = RunKey(o, eph)
    BY Zenon, <1>3
  <2> QED
    BY <2>1, KeyOfRun
<1>5. key = RunKey(r, eph)
  BY <1>1, <1>4 DEF SealedInv, RunsMade
<1>6. /\ key.dh1 = {r.ik_a, r.spk} /\ key.dh2 = {eph, r.ik_b} /\ key.dh3 = {eph, r.spk}
      /\ key.dh4 = IF r.opk = None THEN {} ELSE {eph, r.opk}
      /\ key.kem = [kyber |-> r.pqpk, seed |-> eph]
  BY <1>5, KeyOfRun
<1>7. key = [dh1 |-> key.dh1, dh2 |-> key.dh2, dh3 |-> key.dh3, dh4 |-> key.dh4,
             kem |-> key.kem]
  BY <1>5 DEF RunKey, RunSeal, session_and_mac_key
<1>8. msg.inner.sealed_with = [dh2 |-> key.dh2, dh3 |-> key.dh3, dh4 |-> key.dh4,
                               kem |-> key.kem]
  BY <1>3, <1>4 DEF RunSeal, DH, encapsulate
<1>9. prepare_sealing_key_recv(p, opk, msg) =
         [dh2 |-> key.dh2, dh3 |-> key.dh3, dh4 |-> key.dh4, kem |-> key.kem]
  <2>1. prepare_sealing_key_recv(p, opk, msg) =
           [dh2 |-> {identity[p], eph}, dh3 |-> {signed[p], eph},
            dh4 |-> IF opk = None THEN {} ELSE {opk, eph},
            kem |-> [kyber |-> kyber[p], seed |-> eph]]
    <3>1. decapsulate(kyber[p], msg.kem_ciphertext) = [kyber |-> kyber[p], seed |-> eph]
      BY <1>3 DEF decapsulate
    <3> QED
      BY <1>1, <3>1 DEF prepare_sealing_key_recv, DH
  <2>2. {identity[p], eph} = key.dh2 /\ {signed[p], eph} = key.dh3
    BY <1>1, <1>6
  <2>3. (IF opk = None THEN {} ELSE {opk, eph}) = key.dh4
    <3>1. opk = r.opk
      BY Zenon, <1>1
    <3>2. {opk, eph} = {eph, opk}
      OBVIOUS
    <3> QED
      BY Zenon, <1>6, <3>1, <3>2
  <2>4. [kyber |-> kyber[p], seed |-> eph] = key.kem
    BY <1>1, <1>6
  <2> QED
    BY <2>1, <2>2, <2>3, <2>4
<1>10. RecvKey(p, msg) = key
  <2>1. DH(signed[p], msg.inner.cert.key) = key.dh1
    BY <1>1, <1>6 DEF DH
  <2> QED
    BY <1>1, <1>7, <1>9, <2>1 DEF RecvKey, session_and_mac_key
<1>11. msg.pre_key_id # None => opk # None
  BY <1>1, <1>3, <1>4, <1>6
<1>12. m.mac = [key |-> key, over |-> msg]
  BY <1>1 DEF SealedInv, HandshakesMade
<1> QED
  BY <1>1, <1>8, <1>9, <1>10, <1>11, <1>12 DEF RecvOk
-----------------------------------------------------------------------------
(* Every step keeps the invariant.                                         *)

LEMMA SendStep ==
    ASSUME SealedInv, NEW p \in Party, NEW q \in Party, NEW b \in ServedBundles(q),
           NEW c \in IssuedCertificates(p), send(p, q, b, c)
    PROVE  SealedInv'
<1>1. PICK base \in Key : base = NewKey(p, 0)
  <2>1. NewKey(p, 0) \in Key
    BY DEF SealedInv, KeysPublished, NewKey, Key
  <2> QED
    BY <2>1
<1>2. PICK k : k = prepare_sealing_key_send(b, base)
  OBVIOUS
<1>3. PICK key : key = session_and_mac_key(k, DH(identity[p], b.signed))
  OBVIOUS
<1>4. PICK r : r = Run(p, q, identity[p], b.identity, b.pre_key, b.signed, b.kyber, key)
  OBVIOUS
<1>5. PICK msg : msg = [pre_key_id |-> b.pre_key_id, ec_ephemeral |-> base,
                        kem_ciphertext |-> k.kem,
                        inner |-> [sealed_with |-> k, cert |-> c]]
  OBVIOUS
<1>6. PICK m : m = [to |-> q, msg |-> msg, mac |-> [key |-> key, over |-> msg]]
  OBVIOUS
<1>7. /\ handshakes' = handshakes \cup {m} /\ initiated' = initiated \cup {r}
      /\ fresh' = [fresh EXCEPT ![p] = fresh[p] + 2]
      /\ UNCHANGED << published, damaged >>
  BY <1>1, <1>2, <1>3, <1>4, <1>5, <1>6 DEF send, Run
<1>8. KeysPublished'
  BY <1>7 DEF SealedInv, KeysPublished
<1>9. /\ r.initiator = p /\ r.responder = q /\ r.ik_a = identity[p] /\ r.ik_b = b.identity
      /\ r.opk = b.pre_key /\ r.spk = b.signed /\ r.pqpk = b.kyber /\ r.session_key = key
  BY <1>4 DEF Run
<1>10. k = RunSeal(r, base) /\ key = RunKey(r, base)
  BY <1>2, <1>3, <1>9 DEF prepare_sealing_key_send, RunSeal, RunKey
<1>11. key.kem.seed = base
  BY <1>10 DEF RunKey, RunSeal, session_and_mac_key, encapsulate
<1>12. RunsMade'
  <2>1. r = Run(r.initiator, r.responder, r.ik_a, r.ik_b, r.opk, r.spk, r.pqpk, r.session_key)
    BY <1>4, <1>9
  <2> QED
    BY <1>7, <1>9, <1>10, <1>11, <2>1 DEF SealedInv, RunsMade
<1>13. SentBy(r, q, key, msg)
  <2>1. c.sender = p
    BY DEF IssuedCertificates
  <2>2. /\ msg.pre_key_id = b.pre_key_id /\ msg.ec_ephemeral = base
        /\ msg.kem_ciphertext = k.kem /\ msg.inner.sealed_with = k /\ msg.inner.cert = c
    BY <1>5
  <2>3. k.kem = encapsulate(r.pqpk, base)
    BY <1>10 DEF RunSeal
  <2>4. b.pre_key_id # None => b.pre_key # None
    <3>1. PICK i \in DOMAIN published[q], j \in DOMAIN published[q],
               id \in PreKeyId \cup {None} : b = Bundle(published[q][i], published[q][j], id)
      BY DEF ServedBundles
    <3>2. published[q][j] \in Installation
      BY <3>1 DEF SealedInv, KeysPublished
    <3>3. id # None => published[q][j].pre_keys[id] \in Key
      BY <3>1, <3>2 DEF Installation
    <3> QED
      BY <3>1, <3>3, NoneAssumption DEF Bundle, Key
  <2> QED
    BY <1>9, <1>10, <2>1, <2>2, <2>3, <2>4 DEF SentBy
<1>14. HandshakesMade'
  <2>1. m.to = q /\ m.msg = msg /\ m.mac.key = key /\ m.mac.over = msg
    BY <1>6
  <2>2. m = [to |-> m.to, msg |-> m.msg, mac |-> [key |-> m.mac.key, over |-> m.mac.over]]
    BY <1>6, <2>1
  <2> QED
    BY <1>7, <1>13, <2>1, <2>2 DEF SealedInv, HandshakesMade
<1> QED
  BY <1>8, <1>12, <1>14 DEF SealedInv

LEMMA DamageStep ==
    ASSUME SealedInv, Damage
    PROVE  SealedInv'
<1>1. PICK m \in handshakes :
          \E n \in Altered(m) \ handshakes :
             handshakes' = handshakes \cup {n} /\ damaged' = damaged \cup {n}
  BY DEF Damage
<1>2. PICK n \in Altered(m) \ handshakes :
          handshakes' = handshakes \cup {n} /\ damaged' = damaged \cup {n}
  BY <1>1
<1>3. UNCHANGED << fresh, published, initiated >>
  BY DEF Damage, vars, stores
<1>4. m = [to |-> m.to, msg |-> m.msg, mac |-> [key |-> m.mac.key, over |-> m.mac.over]]
  BY DEF SealedInv, HandshakesMade
<1>5. \E msg : n = [m EXCEPT !.msg = msg]
  <2>1. \/ \E id \in PreKeyId \cup {None} : n = [m EXCEPT !.msg.pre_key_id = id]
        \/ \E o \in handshakes : n = [m EXCEPT !.msg.ec_ephemeral = o.msg.ec_ephemeral]
        \/ \E o \in handshakes : n = [m EXCEPT !.msg.kem_ciphertext = o.msg.kem_ciphertext]
        \/ \E o \in handshakes : n = [m EXCEPT !.msg.inner.cert = o.msg.inner.cert]
        \/ n = [m EXCEPT !.msg.inner.cert.sender = m.to]
    BY <1>2 DEF Altered
  <2> QED
    BY <2>1
<1>6. PICK msg : n = [to |-> m.to, msg |-> msg,
                      mac |-> [key |-> m.mac.key, over |-> m.mac.over]]
  <2>1. PICK msg : n = [m EXCEPT !.msg = msg]
    BY <1>5
  <2>2. n = [to |-> m.to, msg |-> msg, mac |-> [key |-> m.mac.key, over |-> m.mac.over]]
    BY <1>4, <2>1
  <2> QED
    BY <2>2
<1>7. n.to = m.to /\ n.msg = msg /\ n.mac.key = m.mac.key /\ n.mac.over = m.mac.over
  BY <1>6
<1>8. HandshakesMade'
  BY <1>2, <1>3, <1>6, <1>7 DEF SealedInv, HandshakesMade
<1> QED
  BY <1>3, <1>8 DEF SealedInv, KeysPublished, RunsMade
LEMMA OtherStep ==
    ASSUME SealedInv, KeysPublished', UNCHANGED << handshakes, damaged, initiated >>
    PROVE  SealedInv'
BY DEF SealedInv, RunsMade, HandshakesMade

(* recv adds the run that it completes; nothing else touches those.        *)
LEMMA SealedStep ==
    SealedInv /\ HandshakeAgreement /\ [SealedNext]_allVars
      => SealedInv' /\ HandshakeAgreement'
<1> SUFFICES ASSUME SealedInv, HandshakeAgreement, [SealedNext]_allVars
             PROVE  SealedInv' /\ HandshakeAgreement'
  OBVIOUS
<1>1. ASSUME NEW p \in Party, NEW q \in Peers(p), NEW b \in ServedBundles(q),
             NEW c \in IssuedCertificates(p), send(p, q, b, c)
      PROVE  SealedInv' /\ HandshakeAgreement'
  <2>1. q \in Party
    BY DEF Peers
  <2>2. SealedInv'
    BY <1>1, <2>1, SendStep
  <2>3. initiated \subseteq initiated' /\ UNCHANGED responded
    BY <1>1 DEF send
  <2> QED
    BY <2>2, <2>3 DEF HandshakeAgreement
<1>2. ASSUME NEW m \in handshakes, recv(m.to, m)
      PROVE  SealedInv' /\ HandshakeAgreement'
  <2>1. /\ RecvOk(m.to, m)
        /\ responded' = responded \cup
             {Run(m.msg.inner.cert.sender, m.to, m.msg.inner.cert.key, identity[m.to],
                  OneTimePreKey(m.to, m.msg), signed[m.to], kyber[m.to],
                  RecvKey(m.to, m.msg))}
        /\ UNCHANGED << handshakes, damaged, initiated, published, fresh >>
    BY <1>2 DEF recv, Run
  <2>2. HandshakeAgreement'
    BY <2>1, ReceivedRun DEF HandshakeAgreement
  <2>3. KeysPublished'
    BY <2>1 DEF SealedInv, KeysPublished
  <2> QED
    BY <2>1, <2>2, <2>3, OtherStep
<1>3. ASSUME NEW p \in Party, NEW id \in PreKeyId, DeletePreKey(p, id)
      PROVE  SealedInv' /\ HandshakeAgreement'
  <2>1. UNCHANGED << handshakes, damaged, initiated, responded, published, fresh >>
    BY <1>3 DEF DeletePreKey, sealedVars
  <2>2. KeysPublished'
    BY <2>1 DEF SealedInv, KeysPublished
  <2> QED
    BY <2>1, <2>2, OtherStep DEF HandshakeAgreement
<1>4. CASE Damage
  <2>1. UNCHANGED << initiated, responded >>
    BY <1>4 DEF Damage
  <2> QED
    BY <1>4, <2>1, DamageStep DEF HandshakeAgreement
<1>5. ASSUME NEW p \in Party, NEW q \in Peers(p), Encrypt(p, q), UNCHANGED sealedVars
      PROVE  SealedInv' /\ HandshakeAgreement'
  <2>1. UNCHANGED << handshakes, damaged, initiated, responded, published, fresh >>
    BY <1>5 DEF Encrypt, message_encrypt, sealedVars
  <2>2. KeysPublished'
    BY <2>1 DEF SealedInv, KeysPublished
  <2> QED
    BY <2>1, <2>2, OtherStep DEF HandshakeAgreement
<1>6. ASSUME NEW m \in net, DecryptSignal(m), UNCHANGED sealedVars
      PROVE  SealedInv' /\ HandshakeAgreement'
  <2>1. UNCHANGED << handshakes, damaged, initiated, responded >>
    BY <1>6 DEF sealedVars
  <2>2. /\ UNCHANGED published
        /\ fresh' = [fresh EXCEPT ![m.to] = @ + 1] \/ UNCHANGED fresh
    BY Zenon, <1>6 DEF DecryptSignal, message_decrypt_signal
  <2>3. KeysPublished'
    BY <2>2 DEF SealedInv, KeysPublished
  <2> QED
    BY <2>1, <2>3, OtherStep DEF HandshakeAgreement
<1>7. ASSUME NEW p \in Party, Reinstall(p), UNCHANGED sealedVars
      PROVE  SealedInv' /\ HandshakeAgreement'
  <2>1. UNCHANGED << handshakes, damaged, initiated, responded >>
    BY <1>7 DEF sealedVars
  <2>2. KeysPublished'
    BY <1>7, PublishedStep DEF SealedInv
  <2> QED
    BY <2>1, <2>2, OtherStep DEF HandshakeAgreement
<1>8. CASE UNCHANGED allVars
  <2>1. UNCHANGED << handshakes, damaged, initiated, responded, published, fresh >>
    BY <1>8 DEF allVars, sealedVars, vars
  <2>2. KeysPublished'
    BY <2>1 DEF SealedInv, KeysPublished
  <2> QED
    BY <2>1, <2>2, OtherStep DEF HandshakeAgreement
<1> QED
  BY <1>1, <1>2, <1>3, <1>4, <1>5, <1>6, <1>7, <1>8 DEF SealedNext

LEMMA InitSealed == SealedInit => SealedInv /\ HandshakeAgreement
<1> SUFFICES ASSUME SealedInit PROVE SealedInv /\ HandshakeAgreement
  OBVIOUS
<1>1. handshakes = {} /\ initiated = {} /\ responded = {}
  BY DEF SealedInit
<1>2. KeysPublished
  BY InitPublished DEF SealedInit
<1> QED
  BY <1>1, <1>2 DEF SealedInv, RunsMade, HandshakesMade, HandshakeAgreement

-----------------------------------------------------------------------------
LEMMA SealedInvariant == SealedSpec => [](SealedInv /\ HandshakeAgreement)
BY InitSealed, SealedStep, PTL DEF SealedSpec

(* A responder that completes a run of recv completes one that its         *)
(* initiator has completed with send, with the same certificate owner,     *)
(* identities, pre-keys and session key, whatever bundle the server put    *)
(* together and whatever the transport altered, repeated or reordered.     *)
THEOREM SealedHandshakeAgreement == SealedSpec => []HandshakeAgreement
BY SealedInvariant, PTL

(* recv accepts an unaltered handshake while the responder still has the   *)
(* keys that the initiator used: no state of the stores is reached where   *)
(* the two derivations of the sealing and session keys come apart.         *)
THEOREM SealedHandshakeCompletes == SealedSpec => []HandshakeCompletes
BY SealedInvariant, InvCompletes, PTL
=============================================================================
