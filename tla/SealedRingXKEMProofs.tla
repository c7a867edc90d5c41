------------------------ MODULE SealedRingXKEMProofs ------------------------
(***************************************************************************)
(* Theorems about the sealed RingXKEM handshakes and the XHMQV message,    *)
(* for every set of devices and any number of handshakes, damaged ones     *)
(* included.                                                               *)
(*                                                                         *)
(* A RingXKEM message keeps, whatever the transport alters, the MAC of the *)
(* one that was sent, and the MAC key has in it all the keys of the run    *)
(* (Binds).  The XHMQV message has no MAC; what is left there is that its  *)
(* session key determines the run.  That two runs of one initiator never   *)
(* have the same ephemeral key decides the rest.  The sessions started     *)
(* with a session key are then the two ends of its run (SessionsStarted).  *)
(***************************************************************************)
EXTENDS SealedRingXKEM, SessionProofs

-----------------------------------------------------------------------------
(* Runs and what their session keys say of them.                           *)

RunOf(version, responder, cert, ik_a, eph, ik_b, spk, opk, pq, key) ==
    [version |-> version, responder |-> responder, cert |-> cert, ik_a |-> ik_a,
     eph |-> eph, ik_b |-> ik_b, spk |-> spk, opk |-> opk, pq |-> pq, session_key |-> key]

IsRun(r) ==
    r = RunOf(r.version, r.responder, r.cert, r.ik_a, r.eph, r.ik_b, r.spk, r.opk, r.pq,
              r.session_key)

(* The XHMQV secrets written out: what sender and receiver agree on.       *)
SharedSecret1(ik, spk, opk, eph) ==
    {{eph, ik, hash_e1(ik, spk, opk)}, {eph, spk, hash_e2(ik, spk, opk)}}
      \cup IF opk = None THEN {} ELSE {{eph, opk}}

SharedSecret2(iks, ik, spk, opk, eph) ==
    {{iks, hash_d(iks, eph), ik, hash_e1(ik, spk, opk)},
     {iks, hash_d(iks, eph), spk, hash_e2(ik, spk, opk)}}
      \cup IF opk = None THEN {} ELSE {{iks, hash_d(iks, eph), opk}}

(* The chain key of run r, what its initiator signed, and its session key. *)
RunCk(r) ==
    LET ct1  == encapsulate(r.pq[1], r.eph)
        ct2  == encapsulate(r.pq[2], r.eph)
        keys == [identity |-> r.ik_b, signed |-> r.spk, pre_key |-> r.opk,
                 pq_identity |-> r.pq[1], pq_signed |-> r.pq[2], falcon_vk |-> r.pq[3]]
    IN  IF r.version = "x3dh"
          THEN x3dh_derive_ck_kseal(ct1, ct2, keys, r.eph, ct1, ct2)
          ELSE xhmqv_derive_ck_kseal(ct1, ct2, SharedSecret1(r.ik_b, r.spk, r.opk, r.eph),
                                     keys, r.eph, ct1, ct2)

RunSigma(r) ==
    falcon_sign(r.ik_a, << r.pq[3], r.ik_a, r.pq[1], r.pq[2],
                           encapsulate(r.pq[1], r.eph), encapsulate(r.pq[2], r.eph) >>)

RunKey(r) ==
    CASE r.version = "x3dh" -> final_keys(RunCk(r), {DH(r.ik_a, r.spk)}, << >>)
      [] r.version = "xhmqv" ->
           final_keys(RunCk(r), SharedSecret2(r.ik_a, r.ik_b, r.spk, r.opk, r.eph),
                      << r.ik_a, r.ik_a, RunSigma(r) >>)
      [] r.version = "xhmqv1" ->
           derive_session_key(SharedSecret1(r.ik_b, r.spk, r.opk, r.eph),
                              SharedSecret2(r.ik_a, r.ik_b, r.spk, r.opk, r.eph),
                              r.ik_a, r.eph)

(* The session key has all of the run in it that the versions differ in.   *)
Binds(r) ==
    /\ IsRun(r) /\ r.session_key = RunKey(r)
    /\ \/ r.version \in Variant /\ r.pq = << r.pq[1], r.pq[2], r.pq[3] >>
       \/ /\ r.version = "xhmqv1" /\ r.cert = None /\ r.pq = None
          /\ r.eph \in Key /\ r.ik_b \in Key /\ r.spk \in Key /\ r.opk \in Key \cup {None}
          /\ r.spk[1] = r.responder

-----------------------------------------------------------------------------
(* The inductive invariant.                                                *)

(* The keys of each installation: its identity key is that of no other, so *)
(* what was signed with it came with it.                                   *)
RingKeys ==
    /\ KeysPublished
    /\ identity \in [Party -> Key] /\ signed \in [Party -> Key] /\ kyber \in [Party -> Key]
    /\ pre_keys \in [Party -> [PreKeyId -> Key \cup {None}]]
    /\ \A q \in Party :
          /\ signed[q][1] = q
          /\ \A i \in DOMAIN published[q] :
                /\ published[q][i].signed[1] = q
                /\ published[q][i].identity[2] < fresh[published[q][i].identity[1]]
                /\ published[q][i].identity = identity[q] =>
                      published[q][i].signed = signed[q] /\ published[q][i].kyber = kyber[q]

RunsBound == \A r \in initiated \cup responded : Binds(r)

(* Every run of an initiator has a new ephemeral key.                      *)
NewEphemerals ==
    /\ \A r \in initiated : r.eph \in Key /\ r.eph[2] < fresh[r.eph[1]]
    /\ \A r, x \in initiated : r.eph = x.eph => r = x

(* q has published the signed pre-keys of run r along with the keys that   *)
(* verify them: over X3DH the identity key, and for the ML-KEM pre-key the *)
(* Falcon key.                                                             *)
KeysOfOne(r, q) ==
    /\ r.version = "x3dh" =>
          \E i \in DOMAIN published[q] : published[q][i].identity = r.ik_b
                                         /\ published[q][i].signed = r.spk
    /\ \E i \in DOMAIN published[q] : published[q][i].identity = r.pq[3]
                                      /\ published[q][i].kyber = r.pq[2]

(* Run r released message o to this device.                                *)
SentBy(r, to, o) ==
    /\ r.version \in Variant /\ r.responder = to /\ KeysOfOne(r, to)
    /\ o = [version |-> r.version, ec_ephemeral |-> r.eph,
            kem_ciphertext1 |-> encapsulate(r.pq[1], r.eph),
            kem_ciphertext2 |-> encapsulate(r.pq[2], r.eph),
            inner |-> build_inner_message(RunCk(r), r.ik_a, r.ik_a, RunSigma(r), r.cert)]

(* Damage leaves the MAC and the addressee alone.                          *)
RingMessage(m) ==
    /\ m = [to |-> m.to, msg |-> m.msg, mac |-> [key |-> m.mac.key, over |-> m.mac.over]]
    /\ m.to \in Party
    /\ m.msg = [x \in DOMAIN m.msg |-> m.msg[x]]
    /\ "version" \in DOMAIN m.msg /\ m.msg.version \in Variant
    /\ \E r \in initiated : SentBy(r, m.to, m.mac.over) /\ m.mac.key = r.session_key
    /\ m \notin damaged => m.mac.over = m.msg

XhmqvMessage(m) ==
    /\ m = [to |-> m.to, msg |-> m.msg] /\ m.to \in Party
    /\ m.msg = [version |-> "xhmqv1", ephemeral |-> m.msg.ephemeral,
                one_time_prekey_id |-> m.msg.one_time_prekey_id, inner |-> m.msg.inner]
    /\ m.msg.ephemeral \in Key
    /\ m.msg.one_time_prekey_id \in PreKeyId \cup {None}
    /\ m \notin damaged =>
          \E r \in initiated :
             /\ r.version = "xhmqv1" /\ r.eph = m.msg.ephemeral
             /\ m.msg.inner =
                  [sealed_with |-> derive_kseal(SharedSecret1(r.ik_b, r.spk, r.opk, r.eph),
                                                r.ik_b, r.spk, r.opk, r.eph),
                   iks |-> r.ik_a]

MessagesMade == \A m \in handshakes : XhmqvMessage(m) \/ RingMessage(m)

(* A session is one end of a run between its two devices.  Over X3DH the   *)
(* certificate of a completed run has the initiator's identity.            *)
RunStarted(r, p, q, record) ==
    /\ r.version \in Variant
    /\ \/ /\ r \in initiated /\ r.responder = q
          /\ record = AliceSession(r.session_key, r.ik_b, r.ik_a, r.ik_b, r.eph,
                                   record.current.sender_ratchet)
       \/ /\ r \in responded /\ r.responder = p
          /\ record = BobSession(r.session_key, r.eph, r.ik_b, r.cert.key, r.ik_b, "B2A")

SessionsStarted ==
    /\ \A r \in responded : r.version = "x3dh" => r.cert.key = r.ik_a
    /\ sessions = [p \in Party |-> [q \in Party |-> sessions[p][q]]]
    /\ \A p, q \in Party : sessions[p][q] # None =>
          \E r \in initiated \cup responded : RunStarted(r, p, q, sessions[p][q])

RingInv == RingKeys /\ RunsBound /\ NewEphemerals /\ MessagesMade /\ RingAgreement
           /\ SessionsStarted
-----------------------------------------------------------------------------
(* The algebra of XHMQV: the sender, which adds up points, and the         *)
(* receiver, which adds up scalars, arrive at the same secrets.  One key   *)
(* and a sum of keys have names, which the provers leave unexpanded.       *)

One(k) == {k}
Join(a, b) == a \cup b

LEMMA Agreed ==
    /\ \A A, B, n : n \in agree(A, B) <=> \E a \in A, b \in B : n = Join(a, b)
    /\ \A A, s, n : n \in mul_scalar(A, s) <=> \E a \in A : n = Join(a, One(s))
    /\ \A k, n : n \in private_key(k) <=> n = One(k)
BY DEF agree, mul_scalar, private_key, Join, One

LEMMA Secrets ==
    ASSUME NEW iks, NEW ik, NEW spk, NEW opk, NEW eph,
           NEW e1, NEW e2, NEW d, NEW B,
           e1 = hash_e1(ik, spk, opk), e2 = hash_e2(ik, spk, opk), d = hash_d(iks, eph),
           B = compute_aggregated_receiver_secret(ik, spk, opk, e1, e2)
    PROVE  /\ agree(private_key(eph), B) = SharedSecret1(ik, spk, opk, eph)
           /\ agree(B, private_key(eph)) = SharedSecret1(ik, spk, opk, eph)
           /\ agree(mul_scalar(private_key(iks), d), B)
                = SharedSecret2(iks, ik, spk, opk, eph)
           /\ agree(mul_scalar(B, d), private_key(iks))
                = SharedSecret2(iks, ik, spk, opk, eph)
<1>1. PICK i, s, o, e, k, x :
          /\ i = Join(One(ik), One(e1)) /\ s = Join(One(spk), One(e2)) /\ o = One(opk)
          /\ e = One(eph) /\ k = Join(One(iks), One(d)) /\ x = One(iks)
  OBVIOUS
<1>2. \A n : n \in B <=> n = i \/ n = s \/ (opk # None /\ n = o)
  <2>1. \A n : n \in mul_scalar(private_key(ik), e1) <=> n = i
    BY <1>1, Agreed
  <2>2. \A n : n \in mul_scalar(private_key(spk), e2) <=> n = s
    BY <1>1, Agreed
  <2>3. \A n : n \in private_key(opk) <=> n = o
    BY <1>1, Agreed
  <2> QED
    BY <2>1, <2>2, <2>3 DEF compute_aggregated_receiver_secret
<1>3. \A n : n \in SharedSecret1(ik, spk, opk, eph) <=>
          n = Join(e, i) \/ n = Join(e, s) \/ (opk # None /\ n = Join(e, o))
  <2>1. /\ Join(e, i) = {eph, ik, e1} /\ Join(e, s) = {eph, spk, e2}
        /\ Join(e, o) = {eph, opk}
    BY <1>1 DEF Join, One
  <2> QED
    BY <2>1 DEF SharedSecret1
<1>4. \A n : n \in SharedSecret2(iks, ik, spk, opk, eph) <=>
          n = Join(k, i) \/ n = Join(k, s) \/ (opk # None /\ n = Join(k, o))
  <2>1. /\ Join(k, i) = {iks, d, ik, e1} /\ Join(k, s) = {iks, d, spk, e2}
        /\ Join(k, o) = {iks, d, opk}
    BY <1>1 DEF Join, One
  <2> QED
    BY <2>1 DEF SharedSecret2
<1>5. \A n : (n \in private_key(eph) <=> n = e) /\ (n \in private_key(iks) <=> n = x)
  BY <1>1, Agreed
<1>6. \A a, b : Join(a, b) = Join(b, a)
  BY DEF Join
<1>7. \A n : n \in agree(private_key(eph), B) <=> \E b \in B : n = Join(e, b)
  BY <1>5, Agreed
<1>8. \A n : n \in agree(B, private_key(eph)) <=> \E b \in B : n = Join(e, b)
  BY <1>5, <1>6, Agreed
<1>9. \A n : n \in agree(mul_scalar(private_key(iks), d), B) <=> \E b \in B : n = Join(k, b)
  <2>1. \A n : n \in mul_scalar(private_key(iks), d) <=> n = k
    BY <1>1, Agreed
  <2> QED
    BY <2>1, Agreed
<1>10. \A n : n \in agree(mul_scalar(B, d), private_key(iks)) <=>
          \E b \in B : n = Join(k, b)
  <2>1. \A b : Join(Join(b, One(d)), x) = Join(k, b)
    BY <1>1 DEF Join
  <2>2. \A n : n \in agree(mul_scalar(B, d), private_key(iks)) <=>
           \E a \in mul_scalar(B, d) : n = Join(a, x)
    BY <1>5, Agreed
  <2>3. \A n : n \in agree(mul_scalar(B, d), private_key(iks)) <=>
           \E b \in B : n = Join(Join(b, One(d)), x)
    BY <2>2, Agreed
  <2> QED
    BY <2>1, <2>3
<1>11. agree(private_key(eph), B) = SharedSecret1(ik, spk, opk, eph)
  <2>1. \A n : n \in agree(private_key(eph), B) <=> n \in SharedSecret1(ik, spk, opk, eph)
    BY <1>2, <1>3, <1>7
  <2> QED
    BY <2>1, Zenon
<1>12. agree(B, private_key(eph)) = SharedSecret1(ik, spk, opk, eph)
  <2>1. \A n : n \in agree(B, private_key(eph)) <=> n \in SharedSecret1(ik, spk, opk, eph)
    BY <1>2, <1>3, <1>8
  <2> QED
    BY <2>1, Zenon
<1>13. agree(mul_scalar(private_key(iks), d), B) = SharedSecret2(iks, ik, spk, opk, eph)
  <2>1. \A n : n \in agree(mul_scalar(private_key(iks), d), B) <=>
                n \in SharedSecret2(iks, ik, spk, opk, eph)
    BY <1>2, <1>4, <1>9
  <2> QED
    BY <2>1, Zenon
<1>14. agree(mul_scalar(B, d), private_key(iks)) = SharedSecret2(iks, ik, spk, opk, eph)
  <2>1. \A n : n \in agree(mul_scalar(B, d), private_key(iks)) <=>
                n \in SharedSecret2(iks, ik, spk, opk, eph)
    BY <1>2, <1>4, <1>10
  <2> QED
    BY <2>1, Zenon
<1> QED
  BY <1>11, <1>12, <1>13, <1>14

LEMMA SendSecrets ==
    ASSUME NEW iks, NEW ik, NEW spk, NEW opk, NEW eph
    PROVE  xhmqv_send(iks, ik, spk, opk, eph) =
             [shared_secret_1 |-> SharedSecret1(ik, spk, opk, eph),
              shared_secret_2 |-> SharedSecret2(iks, ik, spk, opk, eph)]
<1>1. PICK e1, e2, d : /\ e1 = hash_e1(ik, spk, opk) /\ e2 = hash_e2(ik, spk, opk)
                       /\ d = hash_d(iks, eph)
  OBVIOUS
<1>2. PICK b : b = compute_aggregated_receiver_secret(ik, spk, opk, e1, e2)
  OBVIOUS
<1>3. compute_aggregated_receiver_key(ik, spk, opk, e1, e2) = b
  BY <1>2 DEF compute_aggregated_receiver_key, compute_aggregated_receiver_secret,
              public_key
<1>4. /\ agree(private_key(eph), b) = SharedSecret1(ik, spk, opk, eph)
      /\ agree(mul_scalar(private_key(iks), d), b) = SharedSecret2(iks, ik, spk, opk, eph)
  BY <1>1, <1>2, Secrets
<1> QED
  BY <1>1, <1>3, <1>4 DEF xhmqv_send

LEMMA RecvSecrets ==
    ASSUME NEW iks, NEW ik, NEW spk, NEW opk, NEW eph
    PROVE  LET x == xhmqv_recv1(ik, spk, opk, eph) IN
           /\ x.shared_secret_1 = SharedSecret1(ik, spk, opk, eph)
           /\ xhmqv_recv2(x.b_secret, iks, eph) = SharedSecret2(iks, ik, spk, opk, eph)
BY Secrets DEF xhmqv_recv1, xhmqv_recv2, public_key

(* The first secret determines the receiver's keys: the coefficient e1 is  *)
(* a hash of all of them.                                                  *)
LEMMA SecretBindsKeys ==
    ASSUME NEW r, NEW x,
           r.eph \in Key /\ r.ik_b \in Key /\ r.spk \in Key /\ r.opk \in Key \cup {None},
           x.ik_b \in Key /\ x.spk \in Key /\ x.opk \in Key \cup {None},
           SharedSecret1(r.ik_b, r.spk, r.opk, r.eph)
             = SharedSecret1(x.ik_b, x.spk, x.opk, r.eph)
    PROVE  r.ik_b = x.ik_b /\ r.spk = x.spk /\ r.opk = x.opk
<1>1. PICK h, g, f : /\ h = hash_e1(r.ik_b, r.spk, r.opk)
                     /\ g = hash_e1(x.ik_b, x.spk, x.opk)
                     /\ f = hash_e2(x.ik_b, x.spk, x.opk)
  OBVIOUS
<1>2. h \notin Key
  BY <1>1 DEF hash_e1, Key
<1>3. {r.eph, r.ik_b, h} \in SharedSecret1(x.ik_b, x.spk, x.opk, r.eph)
  BY <1>1 DEF SharedSecret1
<1>4. \/ {r.eph, r.ik_b, h} = {r.eph, x.ik_b, g}
      \/ {r.eph, r.ik_b, h} = {r.eph, x.spk, f}
      \/ x.opk # None /\ {r.eph, r.ik_b, h} = {r.eph, x.opk}
  BY <1>1, <1>3 DEF SharedSecret1
<1>5. h = g \/ h = f
  BY <1>2, <1>4
<1>6. h # f
  BY <1>1 DEF hash_e1, hash_e2
<1> QED
  BY <1>1, <1>5, <1>6 DEF hash_e1
-----------------------------------------------------------------------------
(* The session key says which run it is of.                                *)

LEMMA CkOf ==
    ASSUME NEW r, r.version \in Variant
    PROVE  /\ RunCk(r).version = r.version /\ RunCk(r).identity = r.ik_b
           /\ RunCk(r).signed = r.spk /\ RunCk(r).pre_key = r.opk /\ RunCk(r).eph = r.eph
           /\ RunCk(r).pq_identity = r.pq[1] /\ RunCk(r).pq_signed = r.pq[2]
           /\ RunCk(r).falcon_vk = r.pq[3]
<1>1. CASE r.version = "x3dh"
  BY <1>1 DEF RunCk, x3dh_derive_ck_kseal, Transcript
<1>2. CASE r.version = "xhmqv"
  BY <1>2 DEF RunCk, xhmqv_derive_ck_kseal, Transcript
<1> QED
  BY <1>1, <1>2 DEF Variant

LEMMA KeyOf ==
    ASSUME NEW r
    PROVE  /\ r.version \in Variant =>
                "ck" \in DOMAIN RunKey(r) /\ RunKey(r).ck = RunCk(r)
           /\ r.version = "x3dh" => RunKey(r).ss = {{r.ik_a, r.spk}}
           /\ r.version = "xhmqv" => RunKey(r).sender[1] = r.ik_a
           /\ r.version = "xhmqv1" =>
                /\ "ck" \notin DOMAIN RunKey(r)
                /\ RunKey(r).ss1 = SharedSecret1(r.ik_b, r.spk, r.opk, r.eph)
                /\ RunKey(r).identity = r.ik_a /\ RunKey(r).eph = r.eph
<1>1. CASE r.version = "x3dh"
  <2>1. RunKey(r) = final_keys(RunCk(r), {DH(r.ik_a, r.spk)}, << >>)
    BY <1>1 DEF RunKey
  <2> QED
    BY <1>1, <2>1 DEF final_keys, DH
<1>2. CASE r.version = "xhmqv"
  <2>1. RunKey(r) = final_keys(RunCk(r), SharedSecret2(r.ik_a, r.ik_b, r.spk, r.opk, r.eph),
                               << r.ik_a, r.ik_a, RunSigma(r) >>)
    BY <1>2 DEF RunKey
  <2> QED
    BY <1>2, <2>1 DEF final_keys
<1>3. CASE r.version = "xhmqv1"
  <2>1. RunKey(r) = derive_session_key(SharedSecret1(r.ik_b, r.spk, r.opk, r.eph),
                        SharedSecret2(r.ik_a, r.ik_b, r.spk, r.opk, r.eph), r.ik_a, r.eph)
    BY <1>3 DEF RunKey
  <2> QED
    BY <1>3, <2>1 DEF derive_session_key, Variant
<1> QED
  BY <1>1, <1>2, <1>3 DEF Variant

(* Runs with the same session key are the same.                            *)
LEMMA InvBinds == RingInv => SessionKeyBindsRun
<1> SUFFICES ASSUME RingInv, NEW r \in initiated \cup responded,
                    NEW x \in initiated \cup responded, r.session_key = x.session_key
             PROVE  r = x
  BY DEF SessionKeyBindsRun
<1>1. Binds(r) /\ Binds(x)
  BY DEF RingInv, RunsBound
<1>2. r.session_key = RunKey(r) /\ x.session_key = RunKey(x)
  BY <1>1 DEF Binds
<1>3. CASE r.version \in Variant /\ x.version \in Variant
  <2>1. r \in initiated /\ x \in initiated
    BY <1>3 DEF RingInv, RingAgreement
  <2>2. r.eph = x.eph
    <3>1. r.session_key.ck = RunCk(r) /\ x.session_key.ck = RunCk(x)
      BY <1>2, <1>3, KeyOf
    <3>2. RunCk(r).eph = r.eph /\ RunCk(x).eph = x.eph
      BY <1>3, CkOf
    <3> QED
      BY <3>1, <3>2
  <2> QED
    BY <2>1, <2>2 DEF RingInv, NewEphemerals
<1>4. CASE r.version = "xhmqv1" /\ x.version = "xhmqv1"
  <2>1. /\ r.eph = x.eph /\ r.ik_a = x.ik_a
        /\ SharedSecret1(r.ik_b, r.spk, r.opk, r.eph) =
             SharedSecret1(x.ik_b, x.spk, x.opk, x.eph)
    <3>1. /\ RunKey(r).ss1 = SharedSecret1(r.ik_b, r.spk, r.opk, r.eph)
          /\ RunKey(r).identity = r.ik_a /\ RunKey(r).eph = r.eph
      BY <1>4, KeyOf
    <3>2. /\ RunKey(x).ss1 = SharedSecret1(x.ik_b, x.spk, x.opk, x.eph)
          /\ RunKey(x).identity = x.ik_a /\ RunKey(x).eph = x.eph
      BY <1>4, KeyOf
    <3>3. RunKey(r) = RunKey(x)
      BY <1>2
    <3> QED
      BY <3>1, <3>2, <3>3
  <2>2. /\ r.eph \in Key /\ r.ik_b \in Key /\ r.spk \in Key /\ r.opk \in Key \cup {None}
        /\ x.ik_b \in Key /\ x.spk \in Key /\ x.opk \in Key \cup {None}
    BY <1>1, <1>4 DEF Binds, Variant
  <2>3. r.ik_b = x.ik_b /\ r.spk = x.spk /\ r.opk = x.opk
    BY <2>1, <2>2, SecretBindsKeys
  <2>4. /\ r.responder = x.responder /\ r.cert = x.cert /\ r.pq = x.pq
    BY <1>1, <1>4, <2>3 DEF Binds, Variant
  <2> QED
    BY <1>1, <1>4, <2>1, <2>3, <2>4 DEF Binds, IsRun
<1>5. CASE r.version \in Variant /\ x.version = "xhmqv1"
  <2>1. "ck" \in DOMAIN RunKey(r)
    BY <1>5, KeyOf
  <2>2. "ck" \notin DOMAIN RunKey(x)
    BY <1>5, KeyOf
  <2>3. RunKey(r) = RunKey(x)
    BY <1>2
  <2> QED
    BY <2>1, <2>2, <2>3
<1>6. CASE r.version = "xhmqv1" /\ x.version \in Variant
  <2>1. "ck" \in DOMAIN RunKey(x)
    BY <1>6, KeyOf
  <2>2. "ck" \notin DOMAIN RunKey(r)
    BY <1>6, KeyOf
  <2>3. RunKey(r) = RunKey(x)
    BY <1>2
  <2> QED
    BY <2>1, <2>2, <2>3
<1> QED
  BY <1>1, <1>3, <1>4, <1>5, <1>6 DEF Binds

-----------------------------------------------------------------------------
(* A responder that accepts a message completes the run that sent it.      *)

LEMMA RecvCkOf ==
    ASSUME NEW p, NEW msg, NEW opk, NEW ck,
           ck = x3dh_recv_ck(p, msg, opk) \/ ck = xhmqv_recv_ck(p, msg, opk)
    PROVE  /\ ck.identity = identity[p] /\ ck.signed = signed[p] /\ ck.pre_key = opk
           /\ ck.pq_identity = identity[p] /\ ck.pq_signed = kyber[p]
           /\ ck.falcon_vk = identity[p]
<1>1. CASE ck = x3dh_recv_ck(p, msg, opk)
  BY <1>1 DEF x3dh_recv_ck, x3dh_derive_ck_kseal, Transcript, RecvParams
<1>2. CASE ck = xhmqv_recv_ck(p, msg, opk)
  BY <1>2 DEF xhmqv_recv_ck, xhmqv_derive_ck_kseal, Transcript, RecvParams
<1> QED
  BY <1>1, <1>2

LEMMA VersionOf ==
    ASSUME NEW m, XhmqvMessage(m)
    PROVE  m.msg.version = "xhmqv1"
<1>1. PICK msg : msg = m.msg
  OBVIOUS
<1>2. msg = [version |-> "xhmqv1", ephemeral |-> msg.ephemeral,
             one_time_prekey_id |-> msg.one_time_prekey_id, inner |-> msg.inner]
  BY <1>1 DEF XhmqvMessage
<1> QED
  BY <1>1, <1>2

LEMMA VerifiedMessage ==
    ASSUME RingInv, NEW m \in handshakes, m.msg.version \in Variant, NEW key,
           verify_ring_mac(m, key)
    PROVE  \E r \in initiated : /\ SentBy(r, m.to, m.msg) /\ r.session_key = key
                                /\ Binds(r)
<1>1. RingMessage(m)
  BY VersionOf DEF RingInv, MessagesMade, Variant
<1>2. PICK r \in initiated : SentBy(r, m.to, m.mac.over) /\ m.mac.key = r.session_key
  BY <1>1 DEF RingMessage
<1>3. m.mac.over = m.msg /\ m.mac.key = key
  BY DEF verify_ring_mac
<1> QED
  BY <1>2, <1>3 DEF RingInv, RunsBound

LEMMA ReceivedX3dh ==
    ASSUME RingInv, NEW m \in handshakes, NEW opk, recv_x3dh_ok(m.to, m, opk)
    PROVE  RingRun("x3dh", m.to, m.msg.inner.cert, m.msg.inner.cert.key,
                   m.msg.ec_ephemeral, RecvParams(m.to, opk), x3dh_recv_key(m.to, m.msg, opk))
             \in initiated
<1>1. PICK p, msg, cert, ck, key :
          /\ p = m.to /\ msg = m.msg /\ cert = msg.inner.cert
          /\ ck = x3dh_recv_ck(p, msg, opk) /\ key = x3dh_recv_key(p, msg, opk)
  OBVIOUS
<1>2. msg.version = "x3dh" /\ verify_ring_mac(m, key)
  BY <1>1 DEF recv_x3dh_ok, x3dh_verified_parse_outer
<1>3. PICK r \in initiated : SentBy(r, p, msg) /\ r.session_key = key /\ Binds(r)
  BY <1>1, <1>2, VerifiedMessage DEF Variant
<1>4. /\ r.version = "x3dh" /\ r.responder = p /\ r.eph = msg.ec_ephemeral /\ r.cert = cert
  BY <1>1, <1>2, <1>3 DEF SentBy, build_inner_message
<1>5. key.ck = ck /\ key.ss = {{signed[p], cert.key}}
  BY <1>1 DEF x3dh_recv_key, final_keys, calculate_agreement, DH
<1>6. key = RunKey(r) /\ key.ck = RunCk(r) /\ key.ss = {{r.ik_a, r.spk}}
  BY <1>3, <1>4, KeyOf DEF Binds, Variant
<1>7. r.ik_b = identity[p] /\ r.spk = signed[p] /\ r.opk = opk
  <2>1. ck.identity = r.ik_b /\ ck.signed = r.spk /\ ck.pre_key = r.opk
    BY <1>4, <1>5, <1>6, CkOf DEF Variant
  <2>2. ck.identity = identity[p] /\ ck.signed = signed[p] /\ ck.pre_key = opk
    BY <1>1, RecvCkOf
  <2> QED
    BY <2>1, <2>2
<1>8. r.pq = << identity[p], kyber[p], identity[p] >>
  <2>1. ck.pq_identity = r.pq[1] /\ ck.pq_signed = r.pq[2] /\ ck.falcon_vk = r.pq[3]
    BY <1>4, <1>5, <1>6, CkOf DEF Variant
  <2>2. /\ ck.pq_identity = identity[p] /\ ck.pq_signed = kyber[p]
        /\ ck.falcon_vk = identity[p]
    BY <1>1, RecvCkOf
  <2>3. r.pq = << r.pq[1], r.pq[2], r.pq[3] >>
    BY <1>3, <1>4 DEF Binds, Variant
  <2> QED
    BY <2>1, <2>2, <2>3
<1>9. r.ik_a = cert.key
  BY <1>5, <1>6, <1>7
<1>10. r = RunOf("x3dh", p, cert, cert.key, msg.ec_ephemeral, identity[p], signed[p], opk,
                 << identity[p], kyber[p], identity[p] >>, key)
  BY <1>3, <1>4, <1>7, <1>8, <1>9 DEF Binds, IsRun
<1>11. r = RingRun("x3dh", p, cert, cert.key, msg.ec_ephemeral, RecvParams(p, opk), key)
  BY <1>10 DEF RunOf, RingRun, RecvParams
<1> QED
  BY <1>1, <1>11

LEMMA ReceivedXhmqv ==
    ASSUME RingInv, NEW m \in handshakes, NEW opk, recv_xhmqv_ok(m.to, m, opk)
    PROVE  RingRun("xhmqv", m.to, m.msg.inner.cert, m.msg.inner.iks,
                   m.msg.ec_ephemeral, RecvParams(m.to, opk), xhmqv_recv_key(m.to, m.msg, opk))
             \in initiated
<1>1. PICK p, msg, cert, ck, key :
          /\ p = m.to /\ msg = m.msg /\ cert = msg.inner.cert
          /\ ck = xhmqv_recv_ck(p, msg, opk) /\ key = xhmqv_recv_key(p, msg, opk)
  OBVIOUS
<1>2. msg.version = "xhmqv" /\ verify_ring_mac(m, key)
  BY <1>1 DEF recv_xhmqv_ok, xhmqv_verified_parse_outer
<1>3. PICK r \in initiated : SentBy(r, p, msg) /\ r.session_key = key /\ Binds(r)
  BY <1>1, <1>2, VerifiedMessage DEF Variant
<1>4. /\ r.version = "xhmqv" /\ r.responder = p /\ r.eph = msg.ec_ephemeral /\ r.cert = cert
      /\ r.ik_a = msg.inner.iks
  BY <1>1, <1>2, <1>3 DEF SentBy, build_inner_message
<1>5. key.ck = ck
  BY <1>1 DEF xhmqv_recv_key, final_keys
<1>6. key = RunKey(r) /\ key.ck = RunCk(r)
  BY <1>3, <1>4, KeyOf DEF Binds, Variant
<1>7. r.ik_b = identity[p] /\ r.spk = signed[p] /\ r.opk = opk
  <2>1. ck.identity = r.ik_b /\ ck.signed = r.spk /\ ck.pre_key = r.opk
    BY <1>4, <1>5, <1>6, CkOf DEF Variant
  <2>2. ck.identity = identity[p] /\ ck.signed = signed[p] /\ ck.pre_key = opk
    BY <1>1, RecvCkOf
  <2> QED
    BY <2>1, <2>2
<1>8. r.pq = << identity[p], kyber[p], identity[p] >>
  <2>1. ck.pq_identity = r.pq[1] /\ ck.pq_signed = r.pq[2] /\ ck.falcon_vk = r.pq[3]
    BY <1>4, <1>5, <1>6, CkOf DEF Variant
  <2>2. /\ ck.pq_identity = identity[p] /\ ck.pq_signed = kyber[p]
        /\ ck.falcon_vk = identity[p]
    BY <1>1 DEF xhmqv_recv_ck, xhmqv_derive_ck_kseal, Transcript, RecvParams
  <2>3. r.pq = << r.pq[1], r.pq[2], r.pq[3] >>
    BY <1>3, <1>4 DEF Binds, Variant
  <2> QED
    BY <2>1, <2>2, <2>3
<1>9. r = RunOf("xhmqv", p, cert, msg.inner.iks, msg.ec_ephemeral, identity[p], signed[p],
                opk, << identity[p], kyber[p], identity[p] >>, key)
  BY <1>3, <1>4, <1>7, <1>8 DEF Binds, IsRun
<1>10. r = RingRun("xhmqv", p, cert, msg.inner.iks, msg.ec_ephemeral, RecvParams(p, opk), key)
  BY <1>9 DEF RunOf, RingRun, RecvParams
<1> QED
  BY <1>1, <1>10
-----------------------------------------------------------------------------
(* A message is accepted while the responder has the keys of its run.      *)

LEMMA ReceivedMessage ==
    ASSUME NEW msg, NEW iks, NEW ik, NEW spk, NEW opk, iks = unseal(msg, ik, spk, opk)
    PROVE  message_receive(msg, ik, spk, opk) =
             [sender_iks |-> iks,
              session_key |-> derive_session_key(SharedSecret1(ik, spk, opk, msg.ephemeral),
                  SharedSecret2(iks, ik, spk, opk, msg.ephemeral), iks, msg.ephemeral)]
<1>1. PICK x : x = xhmqv_recv1(ik, spk, opk, msg.ephemeral)
  OBVIOUS
<1>2. /\ x.shared_secret_1 = SharedSecret1(ik, spk, opk, msg.ephemeral)
      /\ xhmqv_recv2(x.b_secret, iks, msg.ephemeral)
           = SharedSecret2(iks, ik, spk, opk, msg.ephemeral)
  BY <1>1, RecvSecrets
<1> QED
  BY <1>1, <1>2 DEF message_receive

LEMMA XhmqvCompletes ==
    ASSUME RingInv, NEW m \in handshakes \ damaged, NEW r \in initiated,
           r.ik_b = identity[m.to], m.msg.version = "xhmqv1",
           r.eph = m.msg.ephemeral, r.version = "x3dh" \/ r.spk = signed[m.to]
    PROVE  message_receive(m.msg, identity[m.to], signed[m.to], r.opk)
             = [sender_iks |-> r.ik_a, session_key |-> r.session_key]
<1>1. XhmqvMessage(m)
  BY DEF RingInv, MessagesMade, RingMessage, Variant
<1>2. PICK o \in initiated :
          /\ o.version = "xhmqv1" /\ o.eph = m.msg.ephemeral
          /\ m.msg.inner =
               [sealed_with |-> derive_kseal(SharedSecret1(o.ik_b, o.spk, o.opk, o.eph),
                                             o.ik_b, o.spk, o.opk, o.eph),
                iks |-> o.ik_a]
  BY <1>1 DEF XhmqvMessage
<1>3. o = r
  BY <1>2 DEF RingInv, NewEphemerals
<1>4. PICK ik, spk, opk, msg, eph, iks :
          /\ ik = r.ik_b /\ spk = r.spk /\ opk = r.opk /\ msg = m.msg /\ eph = msg.ephemeral
          /\ iks = r.ik_a
  OBVIOUS
<1>5. /\ msg.inner.sealed_with
           = derive_kseal(SharedSecret1(ik, spk, opk, eph), ik, spk, opk, eph)
      /\ msg.inner.iks = iks
  BY <1>2, <1>3, <1>4
<1>6. xhmqv_recv1(ik, spk, opk, eph).shared_secret_1 = SharedSecret1(ik, spk, opk, eph)
  BY RecvSecrets
<1>7. iks = unseal(msg, ik, spk, opk)
  BY <1>4, <1>5, <1>6 DEF unseal
<1>8. message_receive(msg, ik, spk, opk) =
          [sender_iks |-> iks,
           session_key |-> derive_session_key(SharedSecret1(ik, spk, opk, eph),
               SharedSecret2(iks, ik, spk, opk, eph), iks, eph)]
  BY <1>4, <1>7, ReceivedMessage
<1>9. r.session_key = derive_session_key(SharedSecret1(ik, spk, opk, eph),
                          SharedSecret2(iks, ik, spk, opk, eph), iks, eph)
  <2>1. r.session_key = RunKey(r)
    BY DEF RingInv, RunsBound, Binds
  <2>2. r.version = "xhmqv1"
    BY <1>2, <1>3
  <2> QED
    BY <1>4, <2>1, <2>2 DEF RunKey
<1>10. ik = identity[m.to] /\ spk = signed[m.to]
  BY <1>2, <1>3, <1>4
<1> QED
  BY <1>4, <1>8, <1>9, <1>10

(* The receiver derives the keys of the run that sent the message.         *)
LEMMA SameKeys ==
    ASSUME NEW r, r.version \in Variant, NEW p, NEW msg, SentBy(r, p, msg),
           r.ik_b = identity[p], r.spk = signed[p],
           r.pq[1] = identity[p], r.pq[2] = kyber[p], r.pq[3] = identity[p]
    PROVE  /\ r.version = "x3dh" => x3dh_recv_ck(p, msg, r.opk) = RunCk(r)
           /\ r.version = "xhmqv" => xhmqv_recv_ck(p, msg, r.opk) = RunCk(r)
           /\ FalconOk(p, msg, r.opk)
<1>1. PICK ct1, ct2, eph, opk, ik, spk, pq :
          /\ ct1 = encapsulate(r.pq[1], r.eph) /\ ct2 = encapsulate(r.pq[2], r.eph)
          /\ eph = r.eph /\ opk = r.opk /\ ik = r.ik_b /\ spk = r.spk /\ pq = r.pq[2]
  OBVIOUS
<1>2. /\ msg.kem_ciphertext1 = ct1 /\ msg.kem_ciphertext2 = ct2 /\ msg.ec_ephemeral = eph
      /\ msg.inner = build_inner_message(RunCk(r), r.ik_a, r.ik_a, RunSigma(r), r.cert)
  BY <1>1 DEF SentBy
<1>3. decapsulate(ik, ct1) = ct1 /\ decapsulate(pq, ct2) = ct2
  BY <1>1 DEF decapsulate, encapsulate
<1>4. PICK keys : keys = [identity |-> ik, signed |-> spk, pre_key |-> opk,
                          falcon_vk |-> ik, pq_identity |-> ik, pq_signed |-> pq]
  OBVIOUS
<1>5. RecvParams(p, opk) = keys
  BY <1>1, <1>4 DEF RecvParams
<1>6. keys = [identity |-> r.ik_b, signed |-> r.spk, pre_key |-> r.opk,
              pq_identity |-> r.pq[1], pq_signed |-> r.pq[2], falcon_vk |-> r.pq[3]]
  BY <1>1, <1>4
<1>7. ASSUME r.version = "x3dh" PROVE x3dh_recv_ck(p, msg, r.opk) = RunCk(r)
  <2>1. x3dh_recv_ck(p, msg, opk) = x3dh_derive_ck_kseal(ct1, ct2, keys, eph, ct1, ct2)
    BY <1>1, <1>2, <1>3, <1>5 DEF x3dh_recv_ck
  <2>2. RunCk(r) = x3dh_derive_ck_kseal(ct1, ct2, keys, eph, ct1, ct2)
    BY <1>1, <1>6, <1>7 DEF RunCk
  <2> QED
    BY <1>1, <2>1, <2>2
<1>8. ASSUME r.version = "xhmqv" PROVE xhmqv_recv_ck(p, msg, r.opk) = RunCk(r)
  <2>1. xhmqv_recv_phase1(p, msg, opk).shared_secret_1 = SharedSecret1(ik, spk, opk, eph)
    BY <1>1, <1>2, RecvSecrets DEF xhmqv_recv_phase1
  <2>2. xhmqv_recv_ck(p, msg, opk) =
           xhmqv_derive_ck_kseal(ct1, ct2, SharedSecret1(ik, spk, opk, eph), keys, eph,
                                 ct1, ct2)
    BY <1>1, <1>2, <1>3, <1>5, <2>1 DEF xhmqv_recv_ck
  <2>3. RunCk(r) = xhmqv_derive_ck_kseal(ct1, ct2, SharedSecret1(ik, spk, opk, eph), keys,
                                         eph, ct1, ct2)
    BY <1>1, <1>6, <1>8 DEF RunCk
  <2> QED
    BY <1>1, <2>2, <2>3
<1>9. FalconOk(p, msg, r.opk)
  <2>1. msg.inner.vks = r.ik_a /\ msg.inner.sigma = RunSigma(r)
    BY <1>2 DEF build_inner_message
  <2>2. falcon_transcript_hash(keys, r.ik_a, ct1, ct2) = << ik, r.ik_a, ik, pq, ct1, ct2 >>
    BY <1>4 DEF falcon_transcript_hash
  <2>3. RunSigma(r) = falcon_sign(r.ik_a, << ik, r.ik_a, ik, pq, ct1, ct2 >>)
    BY <1>1 DEF RunSigma
  <2> QED
    BY <1>1, <1>2, <1>5, <2>1, <2>2, <2>3 DEF FalconOk, falcon_verify
<1> QED
  BY <1>7, <1>8, <1>9

LEMMA RingMessageCompletes ==
    ASSUME RingInv, NEW m \in handshakes \ damaged, NEW r \in initiated,
           m.to \in Party, m.msg.version # "xhmqv1", r.ik_b = identity[m.to],
           r.eph = m.msg.ec_ephemeral, r.version = "x3dh" \/ r.spk = signed[m.to],
           r.pq[1] = identity[m.to], r.pq[3] = identity[m.to]
    PROVE  \/ recv_xhmqv_ok(m.to, m, r.opk) \/ recv_x3dh_ok(m.to, m, r.opk)
           \/ m.msg.version = "x3dh" /\ r.cert.key # r.ik_a
<1>1. RingMessage(m)
  BY VersionOf DEF RingInv, MessagesMade
<1>2. PICK o \in initiated : SentBy(o, m.to, m.msg) /\ m.mac.key = o.session_key
  BY <1>1 DEF RingMessage
<1>3. o = r
  <2>1. o.eph = m.msg.ec_ephemeral
    BY <1>2 DEF SentBy
  <2> QED
    BY <2>1 DEF RingInv, NewEphemerals
<1>4. PICK p, msg : p = m.to /\ msg = m.msg
  OBVIOUS
<1>5. SentBy(r, p, msg) /\ m.mac = [key |-> r.session_key, over |-> msg]
  BY <1>1, <1>2, <1>3, <1>4 DEF RingMessage
<1>6. r.version \in Variant /\ r.session_key = RunKey(r) /\ msg.version = r.version
  BY <1>5 DEF SentBy, RingInv, RunsBound, Binds
<1>7. r.ik_b = identity[p] /\ r.spk = signed[p]
  BY <1>4, <1>5 DEF SentBy, KeysOfOne, RingInv, RingKeys
<1>8. r.pq[1] = identity[p] /\ r.pq[2] = kyber[p] /\ r.pq[3] = identity[p]
  BY <1>4, <1>5 DEF SentBy, KeysOfOne, RingInv, RingKeys
<1>9. /\ msg.inner.sealed_with = RunCk(r) /\ msg.inner.iks = r.ik_a
      /\ msg.inner.vks = r.ik_a /\ msg.inner.sigma = RunSigma(r) /\ msg.inner.cert = r.cert
      /\ msg.ec_ephemeral = r.eph
  BY <1>5 DEF SentBy, build_inner_message
<1>10. FalconOk(p, msg, r.opk)
  BY <1>5, <1>6, <1>7, <1>8, SameKeys
<1>11. CASE r.version = "x3dh" /\ r.cert.key = r.ik_a
  <2>1. x3dh_recv_ck(p, msg, r.opk) = RunCk(r)
    BY <1>5, <1>6, <1>7, <1>8, <1>11, SameKeys
  <2>2. calculate_agreement(signed[p], msg.inner.cert.key) = {DH(r.ik_a, r.spk)}
    BY <1>7, <1>9, <1>11 DEF calculate_agreement, DH
  <2>3. x3dh_recv_key(p, msg, r.opk) = RunKey(r)
    BY <1>11, <2>1, <2>2 DEF x3dh_recv_key, RunKey
  <2> QED
    BY <1>4, <1>5, <1>6, <1>9, <1>10, <1>11, <2>1, <2>3
       DEF recv_x3dh_ok, x3dh_verified_parse_outer, validated_parse_inner, verify_ring_mac
<1>12. CASE r.version = "xhmqv"
  <2>1. xhmqv_recv_ck(p, msg, r.opk) = RunCk(r)
    BY <1>5, <1>6, <1>7, <1>8, <1>12, SameKeys
  <2>2. xhmqv_recv2(xhmqv_recv_phase1(p, msg, r.opk).b_secret, msg.inner.iks,
                    msg.ec_ephemeral)
          = SharedSecret2(r.ik_a, r.ik_b, r.spk, r.opk, r.eph)
    BY <1>7, <1>9, RecvSecrets DEF xhmqv_recv_phase1
  <2>3. xhmqv_recv_key(p, msg, r.opk) = RunKey(r)
    BY <1>9, <1>12, <2>1, <2>2 DEF xhmqv_recv_key, RunKey
  <2> QED
    BY <1>4, <1>5, <1>6, <1>9, <1>10, <1>12, <2>1, <2>3
       DEF recv_xhmqv_ok, xhmqv_verified_parse_outer, validated_parse_inner, verify_ring_mac
<1> QED
  BY <1>4, <1>6, <1>11, <1>12 DEF Variant

LEMMA InvCompletes == RingInv => RingCompletes
<1> SUFFICES ASSUME RingInv, NEW m \in handshakes \ damaged, NEW r \in initiated,
                    r.ik_b = identity[m.to], r.version = "x3dh" \/ r.spk = signed[m.to]
             PROVE  IF m.msg.version = "xhmqv1"
                    THEN r.eph = m.msg.ephemeral =>
                           message_receive(m.msg, identity[m.to], signed[m.to], r.opk)
                             = [sender_iks |-> r.ik_a, session_key |-> r.session_key]
                    ELSE (/\ r.eph = m.msg.ec_ephemeral
                          /\ r.pq[1] = identity[m.to] /\ r.pq[3] = identity[m.to]) =>
                           \/ recv_xhmqv_ok(m.to, m, r.opk)
                           \/ recv_x3dh_ok(m.to, m, r.opk)
                           \/ m.msg.version = "x3dh" /\ r.cert.key # r.ik_a
  BY DEF RingCompletes
<1>1. CASE m.msg.version = "xhmqv1"
  BY <1>1, XhmqvCompletes
<1>2. CASE m.msg.version # "xhmqv1"
  <2>1. m.to \in Party
    BY DEF RingInv, MessagesMade, RingMessage, XhmqvMessage
  <2> QED
    BY <1>2, <2>1, RingMessageCompletes
<1> QED
  BY <1>1, <1>2

-----------------------------------------------------------------------------
(* The two sessions of a run fit together.                                 *)

LEMMA AliceOf ==
    ASSUME NEW key, NEW their, NEW ours, NEW theirs, NEW base, NEW ratchet, NEW s,
           s = AliceSession(key, their, ours, theirs, base, ratchet).current
    PROVE  /\ s.local_identity = ours /\ s.remote_identity = theirs
           /\ s.root_key = [secret |-> key, path |-> << DH(their, ratchet) >>]
           /\ s.sender_ratchet = ratchet
           /\ s.receiver_chains[1].sender = their
           /\ s.receiver_chains[1].chain = [key |-> derive_keys(key), index |-> 0]
           /\ s.pq = [auth |-> key, direction |-> "A2B"]
<1>1. create_chain(derive_keys(key), their, ratchet)
        = [secret |-> key, path |-> << DH(their, ratchet) >>]
  BY DEF create_chain, derive_keys
<1> QED
  BY <1>1 DEF AliceSession

LEMMA BobOf ==
    ASSUME NEW key, NEW base, NEW ours, NEW theirs, NEW ratchet, NEW s,
           s = BobSession(key, base, ours, theirs, ratchet, "B2A").current
    PROVE  /\ s.local_identity = ours /\ s.remote_identity = theirs
           /\ s.root_key = derive_keys(key)
           /\ s.sender_ratchet = ratchet
           /\ s.sender_chain = [key |-> derive_keys(key), index |-> 0]
           /\ s.pq = [auth |-> key, direction |-> "B2A"]
BY DEF BobSession

AliceEnd(r, s) ==
    \E ratchet : s = AliceSession(r.session_key, r.ik_b, r.ik_a, r.ik_b, r.eph,
                                  ratchet).current

BobEnd(r, s) ==
    s = BobSession(r.session_key, r.eph, r.ik_b, r.cert.key, r.ik_b, "B2A").current

LEMMA Ends ==
    ASSUME NEW r, NEW s
    PROVE  /\ AliceEnd(r, s) => /\ s.pq.auth = r.session_key /\ s.pq.direction = "A2B"
                                /\ Len(s.root_key.path) = 1
           /\ BobEnd(r, s) => /\ s.pq.auth = r.session_key /\ s.pq.direction = "B2A"
                              /\ Len(s.root_key.path) = 0
<1>1. ASSUME AliceEnd(r, s)
      PROVE  /\ s.pq.auth = r.session_key /\ s.pq.direction = "A2B"
             /\ Len(s.root_key.path) = 1
  <2>1. PICK ratchet : s = AliceSession(r.session_key, r.ik_b, r.ik_a, r.ik_b, r.eph,
                                        ratchet).current
    BY <1>1 DEF AliceEnd
  <2>2. PICK key, ik, ours, eph : /\ key = r.session_key /\ ik = r.ik_b
                                  /\ ours = r.ik_a /\ eph = r.eph
    OBVIOUS
  <2>3. s = AliceSession(key, ik, ours, ik, eph, ratchet).current
    BY <2>1, <2>2
  <2>4. s.pq = [auth |-> key, direction |-> "A2B"]
    BY <2>3 DEF AliceSession
  <2>5. s.root_key = create_chain(derive_keys(key), ik, ratchet)
    BY <2>3 DEF AliceSession
  <2>6. s.root_key.path = << DH(ik, ratchet) >>
    BY <2>5 DEF create_chain, derive_keys
  <2>7. Len(s.root_key.path) = 1
    BY <2>6
  <2> QED
    BY <2>2, <2>4, <2>7
<1>2. ASSUME BobEnd(r, s)
      PROVE  /\ s.pq.auth = r.session_key /\ s.pq.direction = "B2A"
             /\ Len(s.root_key.path) = 0
  <2>1. PICK key, ik, theirs, eph : /\ key = r.session_key /\ ik = r.ik_b
                                    /\ theirs = r.cert.key /\ eph = r.eph
    OBVIOUS
  <2>2. s = BobSession(key, eph, ik, theirs, ik, "B2A").current
    BY <1>2, <2>1 DEF BobEnd
  <2>3. s.pq = [auth |-> key, direction |-> "B2A"] /\ s.root_key.path = << >>
    BY <2>2 DEF BobSession, derive_keys
  <2>4. Len(s.root_key.path) = 0
    BY <2>3
  <2> QED
    BY <2>1, <2>3, <2>4
<1> QED
  BY <1>1, <1>2

(* A session is the only one of its record, and is one end of a run.       *)
LEMMA EndOfRun ==
    ASSUME RingInv, NEW p \in Party, NEW q \in Party, NEW s \in AllSessions(p, q)
    PROVE  \E r \in initiated \cup responded :
               /\ r.version \in Variant
               /\ \/ /\ r \in initiated /\ r.responder = q
                     /\ AliceEnd(r, s)
                  \/ /\ r \in responded /\ r.responder = p
                     /\ BobEnd(r, s)
<1>1. PICK record : record = sessions[p][q]
  OBVIOUS
<1>2. record # None /\ s \in SessionsOf(record)
  BY <1>1 DEF AllSessions
<1>3. PICK r \in initiated \cup responded : RunStarted(r, p, q, record)
  BY <1>1, <1>2 DEF RingInv, SessionsStarted
<1>4. record.previous = << >>
  BY <1>3 DEF RunStarted, AliceSession, BobSession
<1>5. s = record.current
  BY <1>2, <1>4 DEF SessionsOf, SessionAt, Places
<1> QED
  BY <1>3, <1>5 DEF RunStarted, AliceEnd, BobEnd

LEMMA InvSessionsAgree == RingInv => RingSessionsAgree
<1> SUFFICES ASSUME RingInv, NEW p \in Party, NEW q \in Peers(p),
                    NEW s \in AllSessions(p, q), NEW t \in AllSessions(q, p),
                    s.pq.auth = t.pq.auth, Len(s.root_key.path) <= Len(t.root_key.path)
             PROVE  /\ s.pq.direction = "B2A" /\ t.pq.direction = "A2B"
                    /\ t.root_key = create_chain(s.root_key, t.sender_ratchet,
                                                 s.sender_ratchet)
                    /\ t.receiver_chains[1].sender = s.sender_ratchet
                    /\ t.receiver_chains[1].chain = s.sender_chain
                    /\ s.local_identity = t.remote_identity
                    /\ \/ s.remote_identity = t.local_identity
                       \/ /\ s.pq.auth.ck.version = "xhmqv"
                          /\ \E r \in responded : /\ r.session_key = s.pq.auth
                                                  /\ r.cert.key = s.remote_identity
                                                  /\ r.ik_a = t.local_identity
  BY DEF RingSessionsAgree
<1>1. q \in Party /\ p # q
  BY DEF Peers
<1>2. PICK r \in initiated \cup responded :
          /\ r.version \in Variant
          /\ \/ /\ r \in initiated /\ r.responder = q
                /\ AliceEnd(r, s)
             \/ /\ r \in responded /\ r.responder = p
                /\ BobEnd(r, s)
  BY <1>1, EndOfRun
<1>3. PICK x \in initiated \cup responded :
          /\ x.version \in Variant
          /\ \/ /\ x \in initiated /\ x.responder = p
                /\ AliceEnd(x, t)
             \/ /\ x \in responded /\ x.responder = q
                /\ BobEnd(x, t)
  BY <1>1, EndOfRun
<1>4. s.pq.auth = r.session_key
  BY <1>2, Ends
<1>5. t.pq.auth = x.session_key
  BY <1>3, Ends
<1>6. r = x
  BY <1>4, <1>5, InvBinds DEF SessionKeyBindsRun
<1>7. CASE AliceEnd(r, s)
  <2>1. Len(s.root_key.path) = 1 /\ s.pq.direction = "A2B"
    BY <1>7, Ends
  <2>2. r.responder = q
    BY <1>2, <2>1, Ends
  <2>3. Len(t.root_key.path) = 0
    BY <1>1, <1>3, <1>6, <2>2, Ends
  <2> QED
    BY <2>1, <2>3
<1>8. CASE /\ r \in responded /\ r.responder = p
           /\ BobEnd(r, s)
  <2>1. /\ s.local_identity = r.ik_b /\ s.remote_identity = r.cert.key
        /\ s.root_key = derive_keys(r.session_key) /\ s.sender_ratchet = r.ik_b
        /\ s.sender_chain = [key |-> derive_keys(r.session_key), index |-> 0]
        /\ s.pq = [auth |-> r.session_key, direction |-> "B2A"]
    BY <1>8, BobOf DEF BobEnd
  <2>2. PICK ratchet : t = AliceSession(r.session_key, r.ik_b, r.ik_a, r.ik_b,
                                        r.eph, ratchet).current
    BY <1>1, <1>3, <1>6, <1>8 DEF AliceEnd
  <2>3. /\ t.local_identity = r.ik_a /\ t.remote_identity = r.ik_b
        /\ t.root_key = [secret |-> r.session_key, path |-> << DH(r.ik_b, ratchet) >>]
        /\ t.sender_ratchet = ratchet /\ t.receiver_chains[1].sender = r.ik_b
        /\ t.receiver_chains[1].chain = [key |-> derive_keys(r.session_key), index |-> 0]
        /\ t.pq = [auth |-> r.session_key, direction |-> "A2B"]
    BY <2>2, AliceOf
  <2>4. s.pq.direction = "B2A" /\ t.pq.direction = "A2B"
    BY <2>1, <2>3
  <2>5. t.root_key = create_chain(s.root_key, t.sender_ratchet, s.sender_ratchet)
    <3>1. create_chain(derive_keys(r.session_key), ratchet, r.ik_b)
            = [secret |-> r.session_key, path |-> << DH(ratchet, r.ik_b) >>]
      BY DEF create_chain, derive_keys
    <3>2. DH(ratchet, r.ik_b) = DH(r.ik_b, ratchet)
      BY DEF DH
    <3> QED
      BY <2>1, <2>3, <3>1, <3>2
  <2>6. CASE r.version = "x3dh"
    <3>1. s.remote_identity = t.local_identity
      BY <1>8, <2>1, <2>3, <2>6 DEF RingInv, SessionsStarted
    <3> QED
      BY <2>1, <2>3, <2>4, <2>5, <3>1
  <2>7. CASE r.version = "xhmqv"
    <3>1. r.session_key.ck.version = "xhmqv"
      <4>1. r.session_key = RunKey(r)
        BY DEF RingInv, RunsBound, Binds
      <4>2. RunKey(r).ck = RunCk(r) /\ RunCk(r).version = "xhmqv"
        BY <2>7, KeyOf, CkOf DEF Variant
      <4> QED
        BY <4>1, <4>2
    <3>2. s.pq.auth.ck.version = "xhmqv"
      BY <1>4, <3>1
    <3>3. /\ r \in responded /\ r.session_key = s.pq.auth
          /\ r.cert.key = s.remote_identity /\ r.ik_a = t.local_identity
      BY <1>4, <1>8, <2>1, <2>3
    <3> QED
      BY <2>1, <2>3, <2>4, <2>5, <3>2, <3>3
  <2> QED
    BY <1>2, <2>6, <2>7 DEF Variant
<1> QED
  BY <1>2, <1>7, <1>8
-----------------------------------------------------------------------------
(* What every step keeps: installations, runs and keys are only added.     *)

Grown ==
    /\ initiated \subseteq initiated' /\ responded \subseteq responded'
    /\ damaged \subseteq damaged'
    /\ \A q \in Party : \A i \in DOMAIN published[q] :
          i \in DOMAIN published'[q] /\ published'[q][i] = published[q][i]

LEMMA RingKeysKept ==
    ASSUME RingKeys, UNCHANGED << identity, signed, kyber, published >>,
           pre_keys' \in [Party -> [PreKeyId -> Key \cup {None}]],
           fresh' \in [Party -> Nat], \A p \in Party : fresh[p] <= fresh'[p]
    PROVE  RingKeys'
<1>1. KeysPublished'
  BY DEF RingKeys, KeysPublished
<1>2. ASSUME NEW q \in Party, NEW i \in DOMAIN published[q]
      PROVE  published[q][i].identity[2] < fresh'[published[q][i].identity[1]]
  <2>1. published[q][i].identity \in Key
    <3>1. published[q] \in Seq(Installation)
      BY DEF RingKeys, KeysPublished
    <3>2. published[q][i] \in Installation
      BY <3>1
    <3> QED
      BY <3>2 DEF Installation
  <2>2. PICK a \in Party, n \in Nat : published[q][i].identity = << a, n >>
    BY <2>1 DEF Key
  <2>3. n < fresh[a] /\ fresh[a] \in Nat
    BY <1>2, <2>2 DEF RingKeys, KeysPublished
  <2>4. fresh[a] <= fresh'[a] /\ fresh'[a] \in Nat
    BY <2>2
  <2>5. n < fresh'[a]
    BY <2>3, <2>4
  <2> QED
    BY <2>2, <2>5
<1> QED
  BY <1>1, <1>2 DEF RingKeys

LEMMA SentKept ==
    ASSUME NEW r, NEW to \in Party, NEW o, SentBy(r, to, o), Grown
    PROVE  SentBy(r, to, o)'
BY DEF SentBy, KeysOfOne, Grown

LEMMA MessageKept ==
    ASSUME NEW m, XhmqvMessage(m) \/ RingMessage(m), Grown
    PROVE  (XhmqvMessage(m) \/ RingMessage(m))'
<1>1. CASE XhmqvMessage(m)
  <2>1. m \notin damaged' => m \notin damaged
    BY DEF Grown
  <2>2. initiated \subseteq initiated'
    BY DEF Grown
  <2> QED
    BY <1>1, <2>1, <2>2 DEF XhmqvMessage
<1>2. CASE RingMessage(m)
  <2>1. m.to \in Party
    BY <1>2 DEF RingMessage
  <2>2. PICK r \in initiated : SentBy(r, m.to, m.mac.over) /\ m.mac.key = r.session_key
    BY <1>2 DEF RingMessage
  <2>3. SentBy(r, m.to, m.mac.over)'
    <3>1. PICK to, o : to \in Party /\ to = m.to /\ o = m.mac.over
      BY <2>1
    <3>2. SentBy(r, to, o)'
      BY <2>2, <3>1, SentKept
    <3> QED
      BY <3>1, <3>2
  <2>4. r \in initiated' /\ (m \notin damaged' => m \notin damaged)
    BY DEF Grown
  <2> QED
    BY <1>2, <2>2, <2>3, <2>4 DEF RingMessage
<1> QED
  BY <1>1, <1>2

LEMMA StartedKept ==
    ASSUME NEW r, NEW p, NEW q, NEW record, RunStarted(r, p, q, record), Grown
    PROVE  RunStarted(r, p, q, record)'
BY DEF RunStarted, Grown

(* A record is replaced by one of a run, or removed.                       *)
LEMMA SessionsKept ==
    ASSUME RingInv, Grown, NEW p \in Party,
           sessions' = [sessions EXCEPT ![p] = [q \in Party |-> None]]
             \/ UNCHANGED sessions,
           UNCHANGED responded
    PROVE  SessionsStarted'
<1>1. sessions = [a \in Party |-> [b \in Party |-> sessions[a][b]]]
  BY DEF RingInv, SessionsStarted
<1>2. /\ sessions' = [a \in Party |-> [b \in Party |-> sessions'[a][b]]]
      /\ \A a, b \in Party : sessions'[a][b] = None \/ sessions'[a][b] = sessions[a][b]
  <2>1. CASE UNCHANGED sessions
    BY <1>1, <2>1
  <2>2. CASE sessions' = [sessions EXCEPT ![p] = [q \in Party |-> None]]
    BY <1>1, <2>2
  <2> QED
    BY <2>1, <2>2
<1>3. ASSUME NEW a \in Party, NEW b \in Party, sessions'[a][b] # None
      PROVE  \E r \in (initiated \cup responded)' : RunStarted(r, a, b, sessions[a][b])'
  <2>1. PICK record : record = sessions[a][b]
    OBVIOUS
  <2>2. record # None
    BY <1>2, <1>3, <2>1
  <2>3. PICK r \in initiated \cup responded : RunStarted(r, a, b, record)
    BY <2>1, <2>2 DEF RingInv, SessionsStarted
  <2>4. RunStarted(r, a, b, record)'
    BY <2>3, StartedKept
  <2> QED
    BY <1>2, <1>3, <2>1, <2>4 DEF Grown
<1> QED
  BY <1>2, <1>3 DEF RingInv, SessionsStarted
(* A step that completes no run and releases no message.                   *)
LEMMA RingQuietStep ==
    ASSUME RingInv, RingKeys', Grown, SessionsStarted',
           UNCHANGED << handshakes, initiated, responded >>,
           fresh' \in [Party -> Nat], \A p \in Party : fresh[p] <= fresh'[p]
    PROVE  RingInv'
<1>1. MessagesMade'
  <2>1. ASSUME NEW m \in handshakes
        PROVE  (XhmqvMessage(m) \/ RingMessage(m))'
    BY <2>1, MessageKept DEF RingInv, MessagesMade
  <2> QED
    BY <2>1 DEF MessagesMade
<1>2. NewEphemerals'
  <2>1. ASSUME NEW r \in initiated
        PROVE  r.eph \in Key /\ r.eph[2] < fresh'[r.eph[1]]
    <3>1. PICK a \in Party, n \in Nat : r.eph = << a, n >>
      BY <2>1 DEF RingInv, NewEphemerals, Key
    <3>2. n < fresh[a] /\ fresh[a] \in Nat
      BY <2>1, <3>1 DEF RingInv, NewEphemerals, RingKeys, KeysPublished
    <3>3. fresh[a] <= fresh'[a] /\ fresh'[a] \in Nat
      BY <3>1
    <3>4. n < fresh'[a]
      BY <3>2, <3>3
    <3> QED
      BY <3>1, <3>4 DEF Key
  <2> QED
    BY <2>1 DEF RingInv, NewEphemerals
<1> QED
  BY <1>1, <1>2 DEF RingInv, RunsBound, RingAgreement

-----------------------------------------------------------------------------
(* The sending steps.                                                      *)

(* Initiator p adds a run and its message, with a new ephemeral key.       *)
Adds(p, r, m) ==
    /\ Binds(r) /\ r.eph = << p, fresh[p] >>
    /\ initiated' = initiated \cup {r} /\ handshakes' = handshakes \cup {m}
    /\ \E n \in 1 .. 2 : fresh' = [fresh EXCEPT ![p] = fresh[p] + n]
    /\ UNCHANGED << identity, signed, kyber, pre_keys, published, damaged, responded >>

LEMMA AddsStep ==
    ASSUME RingInv, NEW p \in Party, NEW r, NEW m, Adds(p, r, m),
           (XhmqvMessage(m) \/ RingMessage(m))', SessionsStarted'
    PROVE  RingInv'
<1>1. PICK n \in 1 .. 2 : fresh' = [fresh EXCEPT ![p] = fresh[p] + n]
  BY DEF Adds
<1>2. /\ Binds(r) /\ r.eph = << p, fresh[p] >>
      /\ initiated' = initiated \cup {r} /\ handshakes' = handshakes \cup {m}
      /\ UNCHANGED << identity, signed, kyber, pre_keys, published, damaged, responded >>
  BY DEF Adds
<1>3. fresh \in [Party -> Nat]
  BY DEF RingInv, RingKeys, KeysPublished
<1>4. /\ fresh' \in [Party -> Nat] /\ fresh[p] < fresh'[p]
      /\ \A a \in Party : fresh[a] <= fresh'[a]
  BY <1>1, <1>3
<1>5. RingKeys'
  <2>1. pre_keys' \in [Party -> [PreKeyId -> Key \cup {None}]]
    BY <1>2 DEF RingInv, RingKeys
  <2> QED
    BY <1>2, <1>4, <2>1, RingKeysKept DEF RingInv
<1>6. RunsBound'
  BY <1>2 DEF RingInv, RunsBound
<1>7. Grown
  BY <1>2 DEF Grown
<1>8. MessagesMade'
  <2>1. ASSUME NEW x \in handshakes
        PROVE  (XhmqvMessage(x) \/ RingMessage(x))'
    BY <1>7, <2>1, MessageKept DEF RingInv, MessagesMade
  <2> QED
    BY <1>2, <2>1 DEF MessagesMade
<1>9. NewEphemerals'
  <2>1. ASSUME NEW x \in initiated
        PROVE  x.eph \in Key /\ x.eph[2] < fresh'[x.eph[1]] /\ x.eph # r.eph
    <3>1. PICK a \in Party, k \in Nat : x.eph = << a, k >>
      BY <2>1 DEF RingInv, NewEphemerals, Key
    <3>2. k < fresh[a] /\ fresh[a] \in Nat
      BY <1>3, <2>1, <3>1 DEF RingInv, NewEphemerals
    <3>3. fresh[a] <= fresh'[a] /\ fresh'[a] \in Nat
      BY <1>4, <3>1
    <3>4. k < fresh'[a] /\ (a = p => k # fresh[p])
      BY <3>2, <3>3
    <3>5. << a, k >> # << p, fresh[p] >>
      BY <3>4
    <3> QED
      BY <1>2, <3>1, <3>4, <3>5 DEF Key
  <2>2. r.eph \in Key /\ r.eph[2] < fresh'[r.eph[1]]
    BY <1>2, <1>3, <1>4 DEF Key
  <2>3. \A x \in initiated' : x.eph \in Key /\ x.eph[2] < fresh'[x.eph[1]]
    BY <1>2, <2>1, <2>2
  <2>4. \A x, y \in initiated' : x.eph = y.eph => x = y
    BY <1>2, <2>1 DEF RingInv, NewEphemerals
  <2> QED
    BY <2>3, <2>4 DEF NewEphemerals
<1>10. RingAgreement'
  BY <1>2 DEF RingInv, RingAgreement
<1> QED
  BY <1>5, <1>6, <1>8, <1>9, <1>10 DEF RingInv
LEMMA SessionStored ==
    ASSUME RingInv, Grown, NEW p \in Party, NEW q, NEW record,
           sessions' = store_session(p, q, record),
           NEW r, r \in initiated' \cup responded', RunStarted(r, p, q, record)',
           \A x \in responded' : x.version = "x3dh" => x.cert.key = x.ik_a
    PROVE  SessionsStarted'
<1>1. sessions = [a \in Party |-> [b \in Party |-> sessions[a][b]]]
  BY DEF RingInv, SessionsStarted
<1>2. /\ sessions' = [a \in Party |-> [b \in Party |-> sessions'[a][b]]]
      /\ \A a, b \in Party :
            sessions'[a][b] = IF a = p /\ b = q THEN record ELSE sessions[a][b]
  BY <1>1 DEF store_session
<1>3. ASSUME NEW a \in Party, NEW b \in Party, sessions'[a][b] # None
      PROVE  \E x \in initiated' \cup responded' : RunStarted(x, a, b, sessions[a][b])'
  <2>1. CASE a = p /\ b = q
    BY <1>2, <2>1
  <2>2. CASE ~ (a = p /\ b = q)
    <3>1. PICK old : old = sessions[a][b]
      OBVIOUS
    <3>2. old # None /\ sessions'[a][b] = old
      BY <1>2, <1>3, <2>2, <3>1
    <3>3. PICK x \in initiated \cup responded : RunStarted(x, a, b, old)
      BY <3>1, <3>2 DEF RingInv, SessionsStarted
    <3>4. RunStarted(x, a, b, old)'
      BY Zenon, <3>3, StartedKept
    <3> QED
      BY <3>2, <3>4 DEF Grown
  <2> QED
    BY <2>1, <2>2
<1> QED
  BY <1>2, <1>3 DEF SessionsStarted

(* The signed pre-keys of a bundle that send accepts are of the            *)
(* installations whose keys verify them.                                   *)
LEMMA RingBundleKeys ==
    ASSUME NEW q \in Party, NEW b \in ServedRingBundles(q), NEW r,
           r.version = "x3dh" => verified_classical_spk_sig(b), verify_pq_spk_sig(b),
           r.ik_b = b.identity, r.spk = b.signed,
           r.pq = << b.pq_identity, b.pq_signed, b.falcon_vk >>
    PROVE  KeysOfOne(r, q)
<1>1. PICK installed : installed = {published[q][i] : i \in DOMAIN published[q]}
  OBVIOUS
<1>2. PICK f \in [BundlePart -> installed], id \in PreKeyId \cup {None} : b = RingBundle(f, id)
  <2>1. PICK f \in MixedParts(q), id \in PreKeyId \cup {None} : b = RingBundle(f, id)
    BY DEF ServedRingBundles
  <2>2. f \in [BundlePart -> installed]
    BY Zenon, <1>1 DEF MixedParts
  <2> QED
    BY <2>1, <2>2
<1>3. f["signed"] \in installed /\ f["pq_signed"] \in installed
  BY <1>2 DEF BundlePart
<1>4. PICK j \in DOMAIN published[q], l \in DOMAIN published[q] :
          f["signed"] = published[q][j] /\ f["pq_signed"] = published[q][l]
  BY <1>1, <1>3
<1>5. /\ published[q][j].identity = b.signature /\ published[q][j].signed = b.signed
      /\ published[q][l].identity = b.pq_signature /\ published[q][l].kyber = b.pq_signed
  BY <1>2, <1>4 DEF RingBundle
<1>6. r.version = "x3dh" =>
        published[q][j].identity = r.ik_b /\ published[q][j].signed = r.spk
  BY <1>5 DEF verified_classical_spk_sig
<1>7. published[q][l].identity = r.pq[3] /\ published[q][l].kyber = r.pq[2]
  BY <1>5 DEF verify_pq_spk_sig
<1> QED
  BY <1>6, <1>7 DEF KeysOfOne

(* What both variants of send do.                                          *)
Initiates(p, q, b, r, msg, ratchet) ==
    /\ r.version = "x3dh" => verified_classical_spk_sig(b)
    /\ verify_pq_spk_sig(b)
    /\ r = RingRun(msg.version, q, msg.inner.cert, identity[p], msg.ec_ephemeral, b,
                   r.session_key)
    /\ r.version \in Variant /\ r.eph = << p, fresh[p] >> /\ r.session_key = RunKey(r)
    /\ msg = [version |-> r.version, ec_ephemeral |-> r.eph,
              kem_ciphertext1 |-> encapsulate(r.pq[1], r.eph),
              kem_ciphertext2 |-> encapsulate(r.pq[2], r.eph),
              inner |-> build_inner_message(RunCk(r), r.ik_a, r.ik_a, RunSigma(r), r.cert)]
    /\ Initiate(p, q, b, msg, r.session_key,
                AliceSession(r.session_key, r.ik_b, r.ik_a, r.ik_b, r.eph, ratchet))

LEMMA InitiateStep ==
    ASSUME RingInv, NEW p \in Party, NEW q \in Party, NEW b \in ServedRingBundles(q),
           NEW r, NEW msg, NEW ratchet, Initiates(p, q, b, r, msg, ratchet)
    PROVE  RingInv'
<1>0. PICK record : record = AliceSession(r.session_key, r.ik_b, r.ik_a, r.ik_b, r.eph,
                                          ratchet)
  OBVIOUS
<1>a. /\ r.version = "x3dh" => verified_classical_spk_sig(b)
      /\ verify_pq_spk_sig(b)
      /\ r = RingRun(msg.version, q, msg.inner.cert, identity[p], msg.ec_ephemeral, b,
                     r.session_key)
      /\ r.version \in Variant /\ r.eph = << p, fresh[p] >> /\ r.session_key = RunKey(r)
      /\ Initiate(p, q, b, msg, r.session_key, record)
  BY <1>0 DEF Initiates
<1>b. msg = [version |-> r.version, ec_ephemeral |-> r.eph,
             kem_ciphertext1 |-> encapsulate(r.pq[1], r.eph),
             kem_ciphertext2 |-> encapsulate(r.pq[2], r.eph),
             inner |-> build_inner_message(RunCk(r), r.ik_a, r.ik_a, RunSigma(r), r.cert)]
  BY DEF Initiates
<1>1. /\ r.responder = q /\ r.ik_b = b.identity /\ r.spk = b.signed
      /\ r.pq = << b.pq_identity, b.pq_signed, b.falcon_vk >>
  BY <1>a DEF RingRun
<1>2. r.pq = << r.pq[1], r.pq[2], r.pq[3] >>
  BY <1>1
<1>3. IsRun(r)
  <2>1. r = RunOf(msg.version, q, msg.inner.cert, identity[p], msg.ec_ephemeral, b.identity,
                  b.signed, b.pre_key, << b.pq_identity, b.pq_signed, b.falcon_vk >>,
                  r.session_key)
    BY <1>a DEF RingRun, RunOf
  <2> QED
    BY <2>1 DEF RunOf, IsRun
<1>4. Binds(r)
  BY <1>2, <1>3, <1>a DEF Binds
<1>5. PICK m : m = [to |-> q, msg |-> msg, mac |-> [key |-> r.session_key, over |-> msg]]
  OBVIOUS
<1>6. /\ handshakes' = handshakes \cup {m} /\ initiated' = initiated \cup {r}
      /\ sessions' = store_session(p, q, record)
      /\ fresh' = [fresh EXCEPT ![p] = fresh[p] + 2]
      /\ UNCHANGED << identity, signed, kyber, pre_keys, published, damaged, responded >>
  BY <1>5, <1>a DEF Initiate
<1>7. Adds(p, r, m)
  BY <1>4, <1>6, <1>a DEF Adds
<1>8. Grown
  BY <1>6 DEF Grown
<1>9. SentBy(r, q, msg)'
  <2>1. KeysOfOne(r, q)
    BY <1>1, <1>a, RingBundleKeys
  <2>2. SentBy(r, q, msg)
    BY <1>1, <1>a, <1>b, <2>1 DEF SentBy
  <2> QED
    BY <1>8, <2>2, SentKept
<1>10. RingMessage(m)'
  <2>1. m.to = q /\ m.msg = msg /\ m.mac.key = r.session_key /\ m.mac.over = msg
    BY <1>5
  <2>2. m = [to |-> m.to, msg |-> m.msg, mac |-> [key |-> m.mac.key, over |-> m.mac.over]]
    BY <1>5, <2>1
  <2>3. /\ msg = [x \in DOMAIN msg |-> msg[x]] /\ "version" \in DOMAIN msg
        /\ msg.version \in Variant
    BY <1>a, <1>b
  <2> QED
    BY <1>6, <1>9, <2>1, <2>2, <2>3 DEF RingMessage
<1>11. SessionsStarted'
  <2>1. record.current.sender_ratchet = ratchet
    BY <1>0 DEF AliceSession
  <2>2. RunStarted(r, p, q, record)'
    BY <1>0, <1>1, <1>6, <1>a, <2>1 DEF RunStarted
  <2>3. \A x \in responded' : x.version = "x3dh" => x.cert.key = x.ik_a
    BY <1>6 DEF RingInv, SessionsStarted
  <2>4. r \in initiated' \cup responded'
    BY <1>6
  <2> QED
    BY <1>6, <1>8, <2>2, <2>3, <2>4, SessionStored
<1> QED
  BY <1>7, <1>10, <1>11, AddsStep
LEMMA SendX3dhStep ==
    ASSUME RingInv, NEW p \in Party, NEW q \in Party, NEW b \in ServedRingBundles(q),
           NEW c, send_x3dh(p, q, b, c)
    PROVE  RingInv'
<1>1. PICK iks, eph, ct1, ct2 :
          /\ iks = identity[p] /\ eph = NewKey(p, 0)
          /\ ct1 = encapsulate(b.pq_identity, eph) /\ ct2 = encapsulate(b.pq_signed, eph)
  OBVIOUS
<1>2. PICK ck : ck = x3dh_derive_ck_kseal(ct1, ct2, b, eph, ct1, ct2)
  OBVIOUS
<1>3. PICK sigma : sigma = falcon_sign(iks, falcon_transcript_hash(b, iks, ct1, ct2))
  OBVIOUS
<1>4. PICK key : key = final_keys(ck, calculate_agreement(iks, b.signed), << >>)
  OBVIOUS
<1>5. PICK msg : msg = [version |-> "x3dh", ec_ephemeral |-> eph, kem_ciphertext1 |-> ct1,
                        kem_ciphertext2 |-> ct2,
                        inner |-> build_inner_message(ck, iks, iks, sigma, c)]
  OBVIOUS
<1>6. PICK ratchet : ratchet = NewKey(p, 1)
  OBVIOUS
<1>7. /\ verified_classical_spk_sig(b) /\ verify_pq_spk_sig(b)
      /\ Initiate(p, q, b, msg, key,
                  AliceSession(key, b.identity, iks, b.identity, eph, ratchet))
  BY <1>1, <1>2, <1>3, <1>4, <1>5, <1>6 DEF send_x3dh, x3dh_initialize_alice_session
<1>8. PICK r : r = RingRun("x3dh", q, c, iks, eph, b, key)
  OBVIOUS
<1>9. /\ r.version = "x3dh" /\ r.responder = q /\ r.cert = c /\ r.ik_a = iks /\ r.eph = eph
      /\ r.ik_b = b.identity /\ r.spk = b.signed /\ r.opk = b.pre_key
      /\ r.pq[1] = b.pq_identity /\ r.pq[2] = b.pq_signed /\ r.pq[3] = b.falcon_vk
      /\ r.session_key = key
  BY <1>8 DEF RingRun
<1>10. RunCk(r) = ck
  BY <1>1, <1>2, <1>9 DEF RunCk, x3dh_derive_ck_kseal, Transcript
<1>11. RunSigma(r) = sigma
  BY <1>1, <1>3, <1>9 DEF RunSigma, falcon_transcript_hash
<1>12. RunKey(r) = key
  BY <1>4, <1>9, <1>10 DEF RunKey, calculate_agreement
<1>13. msg = [version |-> r.version, ec_ephemeral |-> r.eph,
              kem_ciphertext1 |-> encapsulate(r.pq[1], r.eph),
              kem_ciphertext2 |-> encapsulate(r.pq[2], r.eph),
              inner |-> build_inner_message(RunCk(r), r.ik_a, r.ik_a, RunSigma(r), r.cert)]
  BY <1>1, <1>5, <1>9, <1>10, <1>11
<1>14. r = RingRun(msg.version, q, msg.inner.cert, identity[p], msg.ec_ephemeral, b,
                   r.session_key)
  BY <1>1, <1>5, <1>8, <1>9 DEF build_inner_message
<1>15. r.eph = << p, fresh[p] >>
  BY <1>1, <1>9 DEF NewKey, RingInv, RingKeys, KeysPublished
<1>16. Initiates(p, q, b, r, msg, ratchet)
  BY <1>7, <1>9, <1>12, <1>13, <1>14, <1>15 DEF Initiates, Variant
<1> QED
  BY <1>16, InitiateStep

LEMMA SendXhmqvStep ==
    ASSUME RingInv, NEW p \in Party, NEW q \in Party, NEW b \in ServedRingBundles(q),
           NEW c, send_xhmqv(p, q, b, c)
    PROVE  RingInv'
<1>1. PICK iks, eph, ct1, ct2 :
          /\ iks = identity[p] /\ eph = NewKey(p, 0)
          /\ ct1 = encapsulate(b.pq_identity, eph) /\ ct2 = encapsulate(b.pq_signed, eph)
  OBVIOUS
<1>2. PICK ck, ss1, ss2 :
          /\ ss1 = SharedSecret1(b.identity, b.signed, b.pre_key, eph)
          /\ ss2 = SharedSecret2(iks, b.identity, b.signed, b.pre_key, eph)
          /\ ck = xhmqv_derive_ck_kseal(ct1, ct2, ss1, b, eph, ct1, ct2)
  OBVIOUS
<1>3. PICK sigma : sigma = falcon_sign(iks, falcon_transcript_hash(b, iks, ct1, ct2))
  OBVIOUS
<1>4. PICK key : key = final_keys(ck, ss2, << iks, iks, sigma >>)
  OBVIOUS
<1>5. PICK msg : msg = [version |-> "xhmqv", ec_ephemeral |-> eph, kem_ciphertext1 |-> ct1,
                        kem_ciphertext2 |-> ct2,
                        inner |-> build_inner_message(ck, iks, iks, sigma, c)]
  OBVIOUS
<1>6. PICK ratchet : ratchet = NewKey(p, 1)
  OBVIOUS
<1>7. /\ verify_pq_spk_sig(b)
      /\ Initiate(p, q, b, msg, key,
                  AliceSession(key, b.identity, iks, b.identity, eph, ratchet))
  <2>1. xhmqv_send(iks, b.identity, b.signed, b.pre_key, eph)
          = [shared_secret_1 |-> ss1, shared_secret_2 |-> ss2]
    BY <1>2, SendSecrets
  <2>2. PICK x : x = xhmqv_send(iks, b.identity, b.signed, b.pre_key, eph)
    OBVIOUS
  <2>3. x.shared_secret_1 = ss1 /\ x.shared_secret_2 = ss2
    BY <2>1, <2>2
  <2> QED
    BY <1>1, <1>2, <1>3, <1>4, <1>5, <1>6, <2>2, <2>3
       DEF send_xhmqv, xhmqv_initialize_alice_session
<1>8. PICK r : r = RingRun("xhmqv", q, c, iks, eph, b, key)
  OBVIOUS
<1>9. /\ r.version = "xhmqv" /\ r.responder = q /\ r.cert = c /\ r.ik_a = iks /\ r.eph = eph
      /\ r.ik_b = b.identity /\ r.spk = b.signed /\ r.opk = b.pre_key
      /\ r.pq[1] = b.pq_identity /\ r.pq[2] = b.pq_signed /\ r.pq[3] = b.falcon_vk
      /\ r.session_key = key
  BY <1>8 DEF RingRun
<1>10. RunCk(r) = ck
  BY <1>1, <1>2, <1>9 DEF RunCk, xhmqv_derive_ck_kseal, Transcript
<1>11. RunSigma(r) = sigma
  BY <1>1, <1>3, <1>9 DEF RunSigma, falcon_transcript_hash
<1>12. RunKey(r) = key
  BY <1>2, <1>4, <1>9, <1>10, <1>11 DEF RunKey
<1>13. msg = [version |-> r.version, ec_ephemeral |-> r.eph,
              kem_ciphertext1 |-> encapsulate(r.pq[1], r.eph),
              kem_ciphertext2 |-> encapsulate(r.pq[2], r.eph),
              inner |-> build_inner_message(RunCk(r), r.ik_a, r.ik_a, RunSigma(r), r.cert)]
  BY <1>1, <1>5, <1>9, <1>10, <1>11
<1>14. r = RingRun(msg.version, q, msg.inner.cert, identity[p], msg.ec_ephemeral, b,
                   r.session_key)
  BY <1>1, <1>5, <1>8, <1>9 DEF build_inner_message
<1>15. r.eph = << p, fresh[p] >>
  BY <1>1, <1>9 DEF NewKey, RingInv, RingKeys, KeysPublished
<1>16. Initiates(p, q, b, r, msg, ratchet)
  BY <1>7, <1>9, <1>12, <1>13, <1>14, <1>15 DEF Initiates, Variant
<1> QED
  BY <1>16, InitiateStep
(* A bundle for the plain message has the signed pre-key of its owner.     *)
LEMMA PlainBundleKeys ==
    ASSUME RingKeys, NEW q \in Party, NEW b \in ServedBundles(q)
    PROVE  /\ b.identity \in Key /\ b.signed \in Key /\ b.pre_key \in Key \cup {None}
           /\ b.signed[1] = q /\ b.pre_key_id \in PreKeyId \cup {None}
<1>1. PICK i \in DOMAIN published[q], j \in DOMAIN published[q], id \in PreKeyId \cup {None} :
             b = Bundle(published[q][i], published[q][j], id)
  BY DEF ServedBundles
<1>2. published[q] \in Seq(Installation)
  BY DEF RingKeys, KeysPublished
<1>3. published[q][i] \in Installation /\ published[q][j] \in Installation
  BY <1>1, <1>2
<1>4. published[q][j].signed[1] = q
  BY <1>1 DEF RingKeys
<1> QED
  BY <1>1, <1>3, <1>4 DEF Bundle, Installation

LEMMA SendMessageStep ==
    ASSUME RingInv, NEW p \in Party, NEW q \in Party, NEW b \in ServedBundles(q),
           send_message(p, q, b)
    PROVE  RingInv'
<1>1. PICK iks, eph, ik, spk, opk, id :
          /\ iks = identity[p] /\ eph = NewKey(p, 0)
          /\ ik = b.identity /\ spk = b.signed /\ opk = b.pre_key /\ id = b.pre_key_id
  OBVIOUS
<1>2. PICK ss1, ss2 : /\ ss1 = SharedSecret1(ik, spk, opk, eph)
                      /\ ss2 = SharedSecret2(iks, ik, spk, opk, eph)
  OBVIOUS
<1>3. PICK key, inner : /\ key = derive_session_key(ss1, ss2, iks, eph)
                        /\ inner = [sealed_with |-> derive_kseal(ss1, ik, spk, opk, eph),
                                    iks |-> iks]
  OBVIOUS
<1>4. PICK msg : msg = [version |-> "xhmqv1", ephemeral |-> eph, one_time_prekey_id |-> id,
                        inner |-> inner]
  OBVIOUS
<1>5. message_send(iks, b, eph) = [message |-> msg, session_key |-> key]
  <2>1. xhmqv_send(iks, ik, spk, opk, eph)
          = [shared_secret_1 |-> ss1, shared_secret_2 |-> ss2]
    BY <1>2, SendSecrets
  <2>2. PICK x : x = xhmqv_send(iks, ik, spk, opk, eph)
    OBVIOUS
  <2>3. x.shared_secret_1 = ss1 /\ x.shared_secret_2 = ss2
    BY <2>1, <2>2
  <2> QED
    BY <1>1, <1>3, <1>4, <2>2, <2>3 DEF message_send
<1>6. PICK r, m : /\ r = XhmqvRun(q, iks, eph, b, key) /\ m = [to |-> q, msg |-> msg]
  OBVIOUS
<1>7. /\ handshakes' = handshakes \cup {m} /\ initiated' = initiated \cup {r}
      /\ fresh' = [fresh EXCEPT ![p] = fresh[p] + 1]
      /\ UNCHANGED << identity, signed, kyber, pre_keys, published, damaged, responded,
                      sessions >>
  BY <1>1, <1>5, <1>6 DEF send_message, stores
<1>8. /\ r.version = "xhmqv1" /\ r.responder = q /\ r.cert = None /\ r.ik_a = iks
      /\ r.eph = eph /\ r.ik_b = ik /\ r.spk = spk /\ r.opk = opk /\ r.pq = None
      /\ r.session_key = key
  BY <1>1, <1>6 DEF XhmqvRun
<1>9. eph = << p, fresh[p] >> /\ eph \in Key
  BY <1>1 DEF NewKey, Key, RingInv, RingKeys, KeysPublished
<1>10. Binds(r)
  <2>1. IsRun(r)
    BY <1>1, <1>6, <1>8 DEF IsRun, RunOf, XhmqvRun
  <2>2. r.session_key = RunKey(r)
    BY <1>2, <1>3, <1>8 DEF RunKey
  <2>3. ik \in Key /\ spk \in Key /\ opk \in Key \cup {None} /\ spk[1] = q
    BY <1>1, PlainBundleKeys DEF RingInv
  <2> QED
    BY <1>8, <1>9, <2>1, <2>2, <2>3 DEF Binds
<1>11. Adds(p, r, m)
  BY <1>7, <1>8, <1>9, <1>10 DEF Adds
<1>12. XhmqvMessage(m)'
  <2>1. m.to = q /\ m.msg = msg
    BY <1>6
  <2>2. /\ msg.ephemeral = eph /\ msg.one_time_prekey_id = id /\ msg.inner = inner
    BY <1>4
  <2>3. id \in PreKeyId \cup {None}
    BY <1>1, PlainBundleKeys DEF RingInv
  <2>4. inner = [sealed_with |-> derive_kseal(SharedSecret1(r.ik_b, r.spk, r.opk, r.eph),
                                              r.ik_b, r.spk, r.opk, r.eph),
                 iks |-> r.ik_a]
    BY <1>2, <1>3, <1>8
  <2>5. r \in initiated'
    BY <1>7
  <2> QED
    BY <1>4, <1>6, <1>8, <1>9, <2>1, <2>2, <2>3, <2>4, <2>5 DEF XhmqvMessage
<1>13. SessionsStarted'
  <2>1. Grown
    BY <1>7 DEF Grown
  <2> QED
    BY <1>7, <2>1, SessionsKept
<1> QED
  BY <1>11, <1>12, <1>13, AddsStep

-----------------------------------------------------------------------------
(* The receiving steps.                                                    *)

(* A device completes run r, whose initiator has, if there is a MAC.       *)
LEMMA RespondStep ==
    ASSUME RingInv, NEW r, Binds(r), r.version \in Variant => r \in initiated,
           responded' = responded \cup {r}, SessionsStarted',
           UNCHANGED << identity, signed, kyber, pre_keys, published, fresh, handshakes,
                        damaged, initiated >>
    PROVE  RingInv'
<1>1. RingKeys'
  BY DEF RingInv, RingKeys, KeysPublished
<1>2. RunsBound' /\ NewEphemerals' /\ RingAgreement'
  BY DEF RingInv, RunsBound, NewEphemerals, RingAgreement
<1>3. Grown
  BY DEF Grown
<1>4. MessagesMade'
  <2>1. ASSUME NEW m \in handshakes
        PROVE  (XhmqvMessage(m) \/ RingMessage(m))'
    BY <1>3, <2>1, MessageKept DEF RingInv, MessagesMade
  <2> QED
    BY <2>1 DEF MessagesMade
<1> QED
  BY <1>1, <1>2, <1>4 DEF RingInv

LEMMA RecvX3dhStep ==
    ASSUME RingInv, NEW m \in handshakes, NEW opk, recv_x3dh(m.to, m, opk)
    PROVE  RingInv'
<1>1. PICK p, cert, key, eph : /\ p = m.to /\ cert = m.msg.inner.cert
                               /\ key = x3dh_recv_key(p, m.msg, opk)
                               /\ eph = m.msg.ec_ephemeral
  OBVIOUS
<1>2. PICK r : r = RingRun("x3dh", p, cert, cert.key, eph, RecvParams(p, opk), key)
  OBVIOUS
<1>3. PICK record : record = BobSession(key, eph, identity[p], cert.key, identity[p], "B2A")
  OBVIOUS
<1>4. recv_x3dh_ok(m.to, m, opk) /\ Respond(p, m, r, record)
  BY <1>1, <1>2, <1>3 DEF recv_x3dh, x3dh_initialize_bob_session
<1>5. /\ responded' = responded \cup {r} /\ sessions' = store_session(p, cert.sender, record)
      /\ UNCHANGED << identity, signed, kyber, pre_keys, published, fresh, handshakes,
                      damaged, initiated >>
  BY <1>1, <1>4 DEF Respond
<1>6. r \in initiated
  BY <1>1, <1>2, <1>4, ReceivedX3dh
<1>7. Binds(r)
  BY <1>6 DEF RingInv, RunsBound
<1>8. /\ r.version = "x3dh" /\ r.responder = p /\ r.cert = cert /\ r.ik_a = cert.key
      /\ r.eph = eph /\ r.ik_b = identity[p] /\ r.session_key = key
  BY <1>2 DEF RingRun, RecvParams
<1>9. SessionsStarted'
  <2>1. RunStarted(r, p, cert.sender, record)'
    BY <1>3, <1>5, <1>8 DEF RunStarted, Variant
  <2>2. \A x \in responded' : x.version = "x3dh" => x.cert.key = x.ik_a
    BY <1>5, <1>8 DEF RingInv, SessionsStarted
  <2>3. Grown
    BY <1>5 DEF Grown
  <2>4. r \in initiated' \cup responded' /\ p \in Party
    BY <1>1, <1>5 DEF RingInv, MessagesMade, RingMessage, XhmqvMessage
  <2> QED
    BY <1>5, <2>1, <2>2, <2>3, <2>4, SessionStored
<1> QED
  BY <1>5, <1>6, <1>7, <1>9, RespondStep

LEMMA RecvXhmqvStep ==
    ASSUME RingInv, NEW m \in handshakes, NEW opk, recv_xhmqv(m.to, m, opk)
    PROVE  RingInv'
<1>1. PICK p, cert, key, eph : /\ p = m.to /\ cert = m.msg.inner.cert
                               /\ key = xhmqv_recv_key(p, m.msg, opk)
                               /\ eph = m.msg.ec_ephemeral
  OBVIOUS
<1>2. PICK r : r = RingRun("xhmqv", p, cert, m.msg.inner.iks, eph, RecvParams(p, opk), key)
  OBVIOUS
<1>3. PICK record : record = BobSession(key, eph, identity[p], cert.key, identity[p], "B2A")
  OBVIOUS
<1>4. recv_xhmqv_ok(m.to, m, opk) /\ Respond(p, m, r, record)
  BY <1>1, <1>2, <1>3 DEF recv_xhmqv, xhmqv_initialize_bob_session
<1>5. /\ responded' = responded \cup {r} /\ sessions' = store_session(p, cert.sender, record)
      /\ UNCHANGED << identity, signed, kyber, pre_keys, published, fresh, handshakes,
                      damaged, initiated >>
  BY <1>1, <1>4 DEF Respond
<1>6. r \in initiated
  BY <1>1, <1>2, <1>4, ReceivedXhmqv
<1>7. Binds(r)
  BY <1>6 DEF RingInv, RunsBound
<1>8. /\ r.version = "xhmqv" /\ r.responder = p /\ r.cert = cert
      /\ r.eph = eph /\ r.ik_b = identity[p] /\ r.session_key = key
  BY <1>2 DEF RingRun, RecvParams
<1>9. SessionsStarted'
  <2>1. RunStarted(r, p, cert.sender, record)'
    BY <1>3, <1>5, <1>8 DEF RunStarted, Variant
  <2>2. \A x \in responded' : x.version = "x3dh" => x.cert.key = x.ik_a
    BY <1>5, <1>8 DEF RingInv, SessionsStarted
  <2>3. Grown
    BY <1>5 DEF Grown
  <2>4. r \in initiated' \cup responded' /\ p \in Party
    BY <1>1, <1>5 DEF RingInv, MessagesMade, RingMessage, XhmqvMessage
  <2> QED
    BY <1>5, <2>1, <2>2, <2>3, <2>4, SessionStored
<1> QED
  BY <1>5, <1>6, <1>7, <1>9, RespondStep

LEMMA ReceiveMessageStep ==
    ASSUME RingInv, NEW m \in handshakes, receive_message(m.to, m)
    PROVE  RingInv'
<1>1. XhmqvMessage(m)
  BY DEF receive_message, RingInv, MessagesMade, RingMessage, Variant
<1>2. PICK p, msg, opk, iks, eph :
          /\ p \in Party
          /\ p = m.to /\ msg = m.msg /\ opk = NamedPreKey(p, msg) /\ eph = msg.ephemeral
          /\ iks = unseal(msg, identity[p], signed[p], opk)
  BY <1>1 DEF XhmqvMessage
<1>3. PICK key : key = derive_session_key(SharedSecret1(identity[p], signed[p], opk, eph),
                           SharedSecret2(iks, identity[p], signed[p], opk, eph), iks, eph)
  OBVIOUS
<1>4. message_receive(msg, identity[p], signed[p], opk)
        = [sender_iks |-> iks, session_key |-> key]
  <2>1. PICK ik, spk : ik = identity[p] /\ spk = signed[p]
    OBVIOUS
  <2>2. message_receive(msg, ik, spk, opk) =
             [sender_iks |-> iks,
              session_key |-> derive_session_key(SharedSecret1(ik, spk, opk, eph),
                  SharedSecret2(iks, ik, spk, opk, eph), iks, eph)]
    BY <1>2, <2>1, ReceivedMessage
  <2> QED
    BY <1>3, <2>1, <2>2
<1>5. PICK r : r = XhmqvRun(p, iks, eph, RecvParams(p, opk), key)
  OBVIOUS
<1>6. /\ responded' = responded \cup {r}
      /\ UNCHANGED << vars, handshakes, damaged, initiated >>
  BY <1>2, <1>4, <1>5 DEF receive_message
<1>7. UNCHANGED << identity, signed, kyber, pre_keys, published, fresh, sessions >>
  BY <1>6 DEF vars, stores
<1>8. /\ r.version = "xhmqv1" /\ r.responder = p /\ r.cert = None /\ r.ik_a = iks
      /\ r.eph = eph /\ r.ik_b = identity[p] /\ r.spk = signed[p] /\ r.opk = opk
      /\ r.pq = None /\ r.session_key = key
  BY <1>5 DEF XhmqvRun, RecvParams
<1>9. Binds(r)
  <2>1. IsRun(r)
    BY <1>5, <1>8 DEF IsRun, RunOf, XhmqvRun, RecvParams
  <2>2. r.session_key = RunKey(r)
    BY <1>3, <1>8 DEF RunKey
  <2>3. eph \in Key /\ msg.one_time_prekey_id \in PreKeyId \cup {None}
    BY <1>1, <1>2 DEF XhmqvMessage
  <2>4. /\ identity[p] \in Key /\ signed[p] \in Key /\ signed[p][1] = p
        /\ opk \in Key \cup {None}
    BY <1>2, <2>3 DEF RingInv, RingKeys, NamedPreKey
  <2> QED
    BY <1>8, <2>1, <2>2, <2>3, <2>4 DEF Binds
<1>10. SessionsStarted'
  BY <1>6, <1>7, <1>8 DEF RingInv, SessionsStarted, RunStarted
<1> QED
  BY <1>6, <1>7, <1>8, <1>9, <1>10, RespondStep DEF Variant
-----------------------------------------------------------------------------
(* The transport, and the stores.                                          *)

LEMMA DamagedXhmqv ==
    ASSUME RingInv, NEW m, XhmqvMessage(m), NEW n \in AlteredXhmqv(m), n \in damaged'
    PROVE  XhmqvMessage(n)'
<1>0. PICK to, msg : /\ to \in Party /\ to = m.to /\ msg = m.msg
                     /\ m = [to |-> to, msg |-> msg]
  BY DEF XhmqvMessage
<1>a. PICK eph, id, inner :
          /\ eph \in Key /\ id \in PreKeyId \cup {None}
          /\ eph = msg.ephemeral /\ id = msg.one_time_prekey_id /\ inner = msg.inner
  BY <1>0 DEF XhmqvMessage
<1>b. to \in Party /\ eph \in Key /\ id \in PreKeyId \cup {None}
  BY <1>0, <1>a
<1>1. /\ m = [to |-> to, msg |-> msg]
      /\ msg = [version |-> "xhmqv1", ephemeral |-> eph, one_time_prekey_id |-> id,
                inner |-> inner]
  BY <1>0, <1>a DEF XhmqvMessage
<1>2. m.to = to /\ m.msg = msg /\ msg.ephemeral = eph /\ msg.inner = inner
  BY <1>0, <1>a
<1>3. \E k, i, v :
         /\ k \in Key /\ i \in PreKeyId \cup {None}
         /\ n = [to |-> to, msg |-> [version |-> "xhmqv1", ephemeral |-> k,
                                     one_time_prekey_id |-> i, inner |-> v]]
  <2>1. CASE \E i \in PreKeyId \cup {None} : n = [m EXCEPT !.msg.one_time_prekey_id = i]
    <3>1. PICK i \in PreKeyId \cup {None} : n = [m EXCEPT !.msg.one_time_prekey_id = i]
      BY <2>1
    <3>2. n = [to |-> to, msg |-> [msg EXCEPT !.one_time_prekey_id = i]]
      BY <1>1, <1>2, <3>1
    <3>3. [msg EXCEPT !.one_time_prekey_id = i]
            = [version |-> "xhmqv1", ephemeral |-> eph, one_time_prekey_id |-> i,
               inner |-> inner]
      BY <1>1
    <3> QED
      BY <1>b, <3>2, <3>3
  <2>2. CASE \E k \in {m.msg.ephemeral, identity[m.to]} :
               n = [m EXCEPT !.msg.ephemeral = k, !.msg.inner.iks = identity[m.to]]
    <3>1. PICK k \in {m.msg.ephemeral, identity[m.to]} :
             n = [m EXCEPT !.msg.ephemeral = k, !.msg.inner.iks = identity[m.to]]
      BY <2>2
    <3>2. k \in Key
      BY <1>b, <1>2, <3>1 DEF RingInv, RingKeys
    <3>3. PICK v : v = [inner EXCEPT !.iks = identity[to]]
      OBVIOUS
    <3>4. n = [to |-> to, msg |-> [[msg EXCEPT !.ephemeral = k] EXCEPT !.inner = v]]
      BY <1>1, <1>2, <3>1, <3>3
    <3>5. [[msg EXCEPT !.ephemeral = k] EXCEPT !.inner = v]
            = [version |-> "xhmqv1", ephemeral |-> k, one_time_prekey_id |-> id,
               inner |-> v]
      <4>1. [msg EXCEPT !.ephemeral = k]
              = [version |-> "xhmqv1", ephemeral |-> k, one_time_prekey_id |-> id,
                 inner |-> inner]
        BY <1>1
      <4>2. PICK w : w = [msg EXCEPT !.ephemeral = k]
        OBVIOUS
      <4>3. w = [version |-> "xhmqv1", ephemeral |-> k, one_time_prekey_id |-> id,
                 inner |-> inner]
        BY <4>1, <4>2
      <4>4. [w EXCEPT !.inner = v]
              = [version |-> "xhmqv1", ephemeral |-> k, one_time_prekey_id |-> id,
                 inner |-> v]
        BY <4>3
      <4> QED
        BY <4>2, <4>4, Zenon
    <3> QED
      BY <1>b, <3>2, <3>4, <3>5
  <2> QED
    BY <2>1, <2>2 DEF AlteredXhmqv
<1>4. PICK k, i, v :
         /\ k \in Key /\ i \in PreKeyId \cup {None}
         /\ n = [to |-> to, msg |-> [version |-> "xhmqv1", ephemeral |-> k,
                                     one_time_prekey_id |-> i, inner |-> v]]
  BY <1>3
<1>5. PICK new : new = [version |-> "xhmqv1", ephemeral |-> k, one_time_prekey_id |-> i,
                        inner |-> v]
  OBVIOUS
<1>6. n = [to |-> to, msg |-> new] /\ n.to = to /\ n.msg = new
  BY <1>4, <1>5
<1>7. new.ephemeral = k /\ new.one_time_prekey_id = i /\ new.inner = v
  BY <1>5
<1> QED
  BY <1>b, <1>4, <1>5, <1>6, <1>7 DEF XhmqvMessage

LEMMA DamagedRing ==
    ASSUME RingInv, NEW m, RingMessage(m), Grown, NEW n \in AlteredRing(m), n \in damaged'
    PROVE  RingMessage(n)'
<1>1. PICK to, msg, key, over :
          /\ to \in Party
          /\ m = [to |-> to, msg |-> msg, mac |-> [key |-> key, over |-> over]]
          /\ msg = [x \in DOMAIN msg |-> msg[x]]
          /\ "version" \in DOMAIN msg /\ msg.version \in Variant
          /\ \E r \in initiated : SentBy(r, to, over) /\ key = r.session_key
  BY DEF RingMessage
<1>a. to \in Party
  BY <1>1
<1>2. m.to = to /\ m.msg = msg
  BY <1>1
<1>3. \E f, v : n = [to |-> to, msg |-> [msg EXCEPT ![f] = v],
                     mac |-> [key |-> key, over |-> over]]
                /\ (f = "version" => v \in Variant)
  <2>1. \/ \E v \in Variant : n = [m EXCEPT !.msg.version = v]
        \/ \E o \in handshakes : n = [m EXCEPT !.msg.ec_ephemeral = o.msg.ec_ephemeral]
        \/ \E o \in handshakes : n = [m EXCEPT !.msg.kem_ciphertext1 = o.msg.kem_ciphertext1]
        \/ \E o \in handshakes : n = [m EXCEPT !.msg.kem_ciphertext2 = o.msg.kem_ciphertext2]
        \/ n = [m EXCEPT !.msg.inner.iks = identity[m.to]]
        \/ n = [m EXCEPT !.msg.inner.vks = identity[m.to]]
        \/ n = [m EXCEPT !.msg.inner.cert.sender = m.to]
    BY DEF AlteredRing
  <2>2. \/ \E v \in Variant : n = [m EXCEPT !.msg = [msg EXCEPT !["version"] = v]]
        \/ \E v : n = [m EXCEPT !.msg = [msg EXCEPT !["ec_ephemeral"] = v]]
        \/ \E v : n = [m EXCEPT !.msg = [msg EXCEPT !["kem_ciphertext1"] = v]]
        \/ \E v : n = [m EXCEPT !.msg = [msg EXCEPT !["kem_ciphertext2"] = v]]
        \/ \E v : n = [m EXCEPT !.msg = [msg EXCEPT !["inner"] = v]]
    BY <1>2, <2>1
  <2>3. PICK f, v : /\ n = [m EXCEPT !.msg = [msg EXCEPT ![f] = v]]
                    /\ f = "version" => v \in Variant
    BY <2>2
  <2> QED
    BY <1>1, <2>3
<1>4. PICK f, v : n = [to |-> to, msg |-> [msg EXCEPT ![f] = v],
                       mac |-> [key |-> key, over |-> over]]
                  /\ (f = "version" => v \in Variant)
  BY <1>3
<1>5. PICK new : new = [msg EXCEPT ![f] = v]
  OBVIOUS
<1>6. /\ new = [x \in DOMAIN new |-> new[x]]
      /\ "version" \in DOMAIN new /\ new.version \in Variant
  BY <1>1, <1>4, <1>5
<1>7. /\ n = [to |-> to, msg |-> new, mac |-> [key |-> key, over |-> over]]
      /\ n.to = to /\ n.msg = new /\ n.mac.key = key /\ n.mac.over = over
  BY <1>4, <1>5
<1>8. \E r \in initiated' : SentBy(r, to, over)' /\ key = r.session_key
  <2>1. PICK r \in initiated : SentBy(r, to, over) /\ key = r.session_key
    BY <1>1
  <2>2. SentBy(r, to, over)'
    BY <1>a, <2>1, SentKept
  <2> QED
    BY <2>1, <2>2 DEF Grown
<1> QED
  BY <1>a, <1>6, <1>7, <1>8 DEF RingMessage

LEMMA DamageStep ==
    ASSUME RingInv, Damage
    PROVE  RingInv'
<1>1. PICK m \in handshakes :
          \E n \in (IF m.msg.version = "xhmqv1" THEN AlteredXhmqv(m) ELSE AlteredRing(m))
                    \ handshakes :
             handshakes' = handshakes \cup {n} /\ damaged' = damaged \cup {n}
  BY DEF Damage
<1>2. PICK n \in (IF m.msg.version = "xhmqv1" THEN AlteredXhmqv(m) ELSE AlteredRing(m))
                  \ handshakes :
             handshakes' = handshakes \cup {n} /\ damaged' = damaged \cup {n}
  BY <1>1
<1>3. UNCHANGED << identity, signed, kyber, pre_keys, published, fresh, sessions, initiated,
                   responded >>
  BY DEF Damage, vars, stores
<1>4. Grown
  BY <1>2, <1>3 DEF Grown
<1>5. (XhmqvMessage(n) \/ RingMessage(n))'
  <2>1. CASE XhmqvMessage(m)
    <3>1. n \in AlteredXhmqv(m)
      BY <1>2, <2>1, VersionOf
    <3> QED
      BY <1>2, <2>1, <3>1, DamagedXhmqv
  <2>2. CASE RingMessage(m)
    <3>1. n \in AlteredRing(m)
      BY <1>2, <2>2 DEF RingMessage, Variant
    <3> QED
      BY <1>2, <1>4, <2>2, <3>1, DamagedRing
  <2> QED
    BY <2>1, <2>2 DEF RingInv, MessagesMade
<1>6. MessagesMade'
  <2>1. ASSUME NEW x \in handshakes
        PROVE  (XhmqvMessage(x) \/ RingMessage(x))'
    BY <1>4, <2>1, MessageKept DEF RingInv, MessagesMade
  <2> QED
    BY <1>2, <1>5, <2>1 DEF MessagesMade
<1>7. RingKeys'
  BY <1>3 DEF RingInv, RingKeys, KeysPublished
<1>8. SessionsStarted'
  BY <1>3 DEF RingInv, SessionsStarted, RunStarted
<1> QED
  BY <1>3, <1>6, <1>7, <1>8 DEF RingInv, RunsBound, NewEphemerals, RingAgreement
LEMMA DeleteStep ==
    ASSUME RingInv, NEW p \in Party, NEW id \in PreKeyId, DeletePreKey(p, id)
    PROVE  RingInv'
<1>1. /\ pre_keys' = [pre_keys EXCEPT ![p][id] = None]
      /\ UNCHANGED << identity, signed, kyber, published, fresh, sessions, handshakes,
                      damaged, initiated, responded >>
  BY DEF DeletePreKey, ringVars
<1>2. Grown
  BY <1>1 DEF Grown
<1>3. fresh' \in [Party -> Nat] /\ \A a \in Party : fresh[a] <= fresh'[a]
  BY <1>1 DEF RingInv, RingKeys, KeysPublished
<1>4. pre_keys' \in [Party -> [PreKeyId -> Key \cup {None}]]
  BY <1>1 DEF RingInv, RingKeys
<1>5. RingKeys'
  BY <1>1, <1>3, <1>4, RingKeysKept DEF RingInv
<1>6. SessionsStarted'
  BY <1>1, <1>2, SessionsKept
<1> QED
  BY <1>1, <1>2, <1>3, <1>5, <1>6, RingQuietStep

(* The identity key of a new installation is that of no earlier one.       *)
LEMMA RingReinstallStep ==
    ASSUME RingInv, NEW p \in Party, Reinstall(p),
           UNCHANGED << handshakes, damaged, initiated, responded >>
    PROVE  RingInv'
<1>1. fresh \in [Party -> Nat] /\ published \in [Party -> Seq(Installation)]
  BY DEF RingInv, RingKeys, KeysPublished
<1>2. PICK id \in Key : id = << p, fresh[p] >>
  BY <1>1 DEF Key
<1>3. PICK i \in Installation : i = NewInstallation(p, id, fresh[p])
  BY <1>1, <1>2, InstallationType
<1>4. /\ identity' = [identity EXCEPT ![p] = i.identity]
      /\ signed' = [signed EXCEPT ![p] = i.signed]
      /\ kyber' = [kyber EXCEPT ![p] = i.kyber]
      /\ pre_keys' = [pre_keys EXCEPT ![p] = i.pre_keys]
      /\ sessions' = [sessions EXCEPT ![p] = [q \in Party |-> None]]
      /\ published' = [published EXCEPT ![p] = Append(published[p], i)]
      /\ fresh' = [fresh EXCEPT ![p] = fresh[p] + KeysPerInstallation]
  <2>1. NewKey(p, 0) = id
    BY <1>1, <1>2 DEF NewKey
  <2> QED
    BY <1>3, <2>1 DEF Reinstall
<1>5. UNCHANGED << handshakes, damaged, initiated, responded >>
  OBVIOUS
<1>6. /\ i.identity = id /\ i.signed \in Key /\ i.signed[1] = p /\ i.kyber \in Key
      /\ i.pre_keys \in [PreKeyId -> Key]
  BY <1>3 DEF NewInstallation, Installation
<1>7. /\ fresh' \in [Party -> Nat] /\ fresh[p] < fresh'[p]
      /\ \A a \in Party : fresh[a] <= fresh'[a]
  BY <1>1, <1>4, LimitsAssumption DEF KeysPerInstallation
<1>8. Grown
  BY <1>1, <1>4, <1>5 DEF Grown
<1>9. RingKeys'
  <2>1. KeysPublished'
    BY PublishedStep DEF RingInv, RingKeys
  <2>2. /\ identity' \in [Party -> Key] /\ signed' \in [Party -> Key]
        /\ kyber' \in [Party -> Key] /\ pre_keys' \in [Party -> [PreKeyId -> Key \cup {None}]]
    BY <1>4, <1>6 DEF RingInv, RingKeys
  <2>3. \A q \in Party : signed'[q][1] = q
    BY <1>4, <1>6 DEF RingInv, RingKeys
  <2>4. ASSUME NEW q \in Party, NEW j \in DOMAIN published'[q]
        PROVE  /\ published'[q][j].signed[1] = q
               /\ published'[q][j].identity[2] < fresh'[published'[q][j].identity[1]]
               /\ published'[q][j].identity = identity'[q] =>
                    published'[q][j].signed = signed'[q] /\ published'[q][j].kyber = kyber'[q]
    <3>1. CASE q = p /\ j = Len(published[p]) + 1
      <4>1. published'[q][j] = i
        BY <1>1, <1>4, <3>1
      <4>2. identity'[q] = id /\ signed'[q] = i.signed /\ kyber'[q] = i.kyber
        BY <1>4, <1>6, <3>1 DEF RingInv, RingKeys
      <4>3. id[2] < fresh'[id[1]]
        BY <1>2, <1>7
      <4> QED
        BY <1>6, <3>1, <4>1, <4>2, <4>3
    <3>2. CASE j \in DOMAIN published[q] /\ published'[q][j] = published[q][j]
      <4>1. PICK o \in Installation : o = published[q][j]
        BY <1>1, <3>2
      <4>2. PICK a \in Party, n \in Nat : o.identity = << a, n >>
        BY <4>1 DEF Installation, Key
      <4>3. /\ o.signed[1] = q /\ n < fresh[a]
            /\ o.identity = identity[q] => o.signed = signed[q] /\ o.kyber = kyber[q]
        <5>1. /\ published[q][j].signed[1] = q
              /\ published[q][j].identity[2] < fresh[published[q][j].identity[1]]
              /\ published[q][j].identity = identity[q] =>
                   published[q][j].signed = signed[q] /\ published[q][j].kyber = kyber[q]
          BY <3>2 DEF RingInv, RingKeys
        <5>2. << a, n >>[1] = a /\ << a, n >>[2] = n
          OBVIOUS
        <5> QED
          BY <4>1, <4>2, <5>1, <5>2
      <4>4. n < fresh'[a]
        BY <1>1, <1>7, <4>2, <4>3
      <4>5. q = p => o.identity # identity'[q]
        <5>1. q = p => identity'[q] = << p, fresh[p] >>
          BY <1>2, <1>4, <1>6 DEF RingInv, RingKeys
        <5>2. << a, n >> # << p, fresh[p] >>
          BY <1>1, <4>2, <4>3
        <5> QED
          BY <4>2, <5>1, <5>2
      <4>6. q # p => /\ identity'[q] = identity[q] /\ signed'[q] = signed[q]
                     /\ kyber'[q] = kyber[q]
        BY <1>4 DEF RingInv, RingKeys
      <4> QED
        BY <3>2, <4>1, <4>2, <4>3, <4>4, <4>5, <4>6
    <3> QED
      BY <1>1, <1>4, <2>4, <3>1, <3>2
  <2> QED
    BY <2>1, <2>2, <2>3, <2>4 DEF RingKeys
<1>10. SessionsStarted'
  BY <1>4, <1>5, <1>8, SessionsKept
<1> QED
  BY <1>5, <1>7, <1>8, <1>9, <1>10, RingQuietStep

LEMMA InitRing == RingInit => RingInv
<1> SUFFICES ASSUME RingInit PROVE RingInv
  OBVIOUS
<1>1. /\ Init /\ handshakes = {} /\ damaged = {} /\ initiated = {} /\ responded = {}
  BY DEF RingInit
<1>2. KeysPublished
  BY <1>1, InitPublished
<1>3. \A q \in Party : FirstInstallation(q) \in Installation
  BY FirstInstallationType
<1>4. /\ identity = [q \in Party |-> FirstInstallation(q).identity]
      /\ signed = [q \in Party |-> FirstInstallation(q).signed]
      /\ kyber = [q \in Party |-> FirstInstallation(q).kyber]
      /\ pre_keys = [q \in Party |-> FirstInstallation(q).pre_keys]
      /\ published = [q \in Party |-> << FirstInstallation(q) >>]
      /\ fresh = [q \in Party |-> KeysPerInstallation]
      /\ sessions = [p \in Party |-> [q \in Party |-> None]]
  BY <1>1 DEF Init
<1>5. RingKeys
  <2>1. /\ identity \in [Party -> Key] /\ signed \in [Party -> Key] /\ kyber \in [Party -> Key]
        /\ pre_keys \in [Party -> [PreKeyId -> Key \cup {None}]]
    BY <1>3, <1>4 DEF Installation
  <2>2. ASSUME NEW q \in Party
        PROVE  /\ FirstInstallation(q).signed[1] = q
               /\ FirstInstallation(q).identity[2] < fresh[FirstInstallation(q).identity[1]]
    <3>1. FirstInstallation(q).signed = << q, 0 + 1 >>
      BY DEF FirstInstallation, NewInstallation
    <3>2. PICK a \in Party : FirstInstallation(q).identity = << a, 0 >>
      BY DEF FirstInstallation, NewInstallation, Account
    <3>3. 0 < fresh[a]
      BY <1>4, <3>2, LimitsAssumption DEF KeysPerInstallation
    <3> QED
      BY <3>1, <3>2, <3>3
  <2>3. ASSUME NEW q \in Party, NEW i \in DOMAIN published[q]
        PROVE  published[q][i] = FirstInstallation(q)
    BY <1>4, <2>3
  <2>4. \A q \in Party : signed[q] = FirstInstallation(q).signed
                         /\ kyber[q] = FirstInstallation(q).kyber
    BY <1>4
  <2> QED
    BY <1>2, <2>1, <2>2, <2>3, <2>4 DEF RingKeys
<1>6. SessionsStarted
  BY <1>1, <1>4 DEF SessionsStarted
<1> QED
  BY <1>1, <1>5, <1>6
     DEF RingInv, RunsBound, NewEphemerals, MessagesMade, RingAgreement

LEMMA RingStep == RingInv /\ [RingNext]_allVars => RingInv'
<1> SUFFICES ASSUME RingInv, [RingNext]_allVars PROVE RingInv'
  OBVIOUS
<1>1. ASSUME NEW p \in Party, NEW q \in Peers(p), NEW b \in ServedRingBundles(q),
             NEW c \in IssuedCertificates(p), send_x3dh(p, q, b, c) \/ send_xhmqv(p, q, b, c)
      PROVE  RingInv'
  <2>1. q \in Party
    BY DEF Peers
  <2> QED
    BY <1>1, <2>1, SendX3dhStep, SendXhmqvStep
<1>2. ASSUME NEW p \in Party, NEW q \in Peers(p), NEW b \in ServedBundles(q),
             send_message(p, q, b)
      PROVE  RingInv'
  <2>1. q \in Party
    BY DEF Peers
  <2> QED
    BY <1>2, <2>1, SendMessageStep
<1>3. ASSUME NEW m \in handshakes, NEW opk \in OwnPreKeys(m.to),
             recv_x3dh(m.to, m, opk) \/ recv_xhmqv(m.to, m, opk)
      PROVE  RingInv'
  BY <1>3, RecvX3dhStep, RecvXhmqvStep
<1>4. ASSUME NEW m \in handshakes, receive_message(m.to, m)
      PROVE  RingInv'
  BY <1>4, ReceiveMessageStep
<1>5. ASSUME NEW p \in Party, NEW id \in PreKeyId, DeletePreKey(p, id)
      PROVE  RingInv'
  BY <1>5, DeleteStep
<1>6. CASE Damage
  BY <1>6, DamageStep
<1>7. ASSUME NEW p \in Party, Reinstall(p), UNCHANGED ringVars
      PROVE  RingInv'
  BY <1>7, RingReinstallStep DEF ringVars
<1>8. CASE UNCHANGED allVars
  <2>1. UNCHANGED << identity, signed, kyber, pre_keys, published, fresh, sessions,
                     handshakes, damaged, initiated, responded >>
    BY <1>8 DEF allVars, ringVars, vars, stores
  <2>2. Grown
    BY <2>1 DEF Grown
  <2>3. fresh' \in [Party -> Nat] /\ \A a \in Party : fresh[a] <= fresh'[a]
    BY <2>1 DEF RingInv, RingKeys, KeysPublished
  <2>4. RingKeys'
    BY <2>1 DEF RingInv, RingKeys, KeysPublished
  <2>5. SessionsStarted'
    BY <2>1 DEF RingInv, SessionsStarted, RunStarted
  <2> QED
    BY <2>1, <2>2, <2>3, <2>4, <2>5, RingQuietStep
<1> QED
  BY <1>1, <1>2, <1>3, <1>4, <1>5, <1>6, <1>7, <1>8 DEF RingNext

-----------------------------------------------------------------------------
LEMMA RingInvariant == RingSpec => []RingInv
BY InitRing, RingStep, PTL DEF RingSpec

LEMMA InvAgreement == RingInv => RingAgreement
BY DEF RingInv

(* A responder that completes a sealed RingXKEM run, over X25519 or over   *)
(* XHMQV, completes one that its initiator has completed, with the same    *)
(* certificate, identities, keys of both halves and session key, whatever  *)
(* the transport altered, whatever the server combined in the bundle and   *)
(* whichever one-time pre-key the caller of recv tried.                    *)
THEOREM RingRunAgreement == RingSpec => []RingAgreement
BY RingInvariant, InvAgreement, PTL

(* No two runs, of initiators or of responders, have the same session key, *)
(* those of the plain XHMQV message without a MAC included.                *)
THEOREM RingSessionKeyBindsRun == RingSpec => []SessionKeyBindsRun
BY RingInvariant, InvBinds, PTL

(* recv and message_receive accept an unaltered message while the receiver *)
(* has the identity, Falcon, ML-KEM identity and one-time keys of its run  *)
(* and, over XHMQV, its signed pre-key, and arrive at the sender's session *)
(* key: send has verified the other keys, and the points that the sender   *)
(* adds up and the scalars that the receiver adds up give the same secrets. *)
THEOREM RingRunCompletes == RingSpec => []RingCompletes
BY RingInvariant, InvCompletes, PTL

(* The two sessions that start from one session key are an initiator's and *)
(* a responder's of the same run, and fit together.                        *)
THEOREM RingSessionsFit == RingSpec => []RingSessionsAgree
BY RingInvariant, InvSessionsAgree, PTL
=============================================================================
