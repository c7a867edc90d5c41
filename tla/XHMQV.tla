-------------------------------- MODULE XHMQV --------------------------------
(***************************************************************************)
(* XHMQV key agreement over Ristretto255 (rust/protocol/src/xhmqv.rs), as  *)
(* pure operators.                                                         *)
(*                                                                         *)
(* The group is symbolic.  A scalar is a polynomial in the private keys    *)
(* and the hashed coefficients: a set of monomials, each the set of its    *)
(* factors.  A point is named by its discrete logarithm, so the public key *)
(* of a scalar is written like the scalar, and the agreement of a scalar   *)
(* with a point is their product.                                          *)
(***************************************************************************)
EXTENDS SessionState

(* The hashed coefficients are named by their label and what is hashed.    *)
hash_e1(ik, spk, opk) == << "e1", ik, spk, opk >>
hash_e2(ik, spk, opk) == << "e2", ik, spk, opk >>
hash_d(iks, eks) == << "d", iks, eks >>

(* The key pair with name k: the scalar, and the point.                    *)
private_key(k) == {{k}}
public_key(k) == private_key(k)

mul_scalar(a, s) == {m \cup {s} : m \in a}
agree(scalar, point) == {m \cup n : m \in scalar, n \in point}

-----------------------------------------------------------------------------
(* The receiver's keys aggregated: the sender adds up points, the receiver *)
(* scalars.                                                                *)

compute_aggregated_receiver_key(ik, spk, opk, e1, e2) ==
    mul_scalar(public_key(ik), e1) \cup mul_scalar(public_key(spk), e2)
      \cup IF opk = None THEN {} ELSE public_key(opk)

compute_aggregated_receiver_secret_no_opk(ik, spk, opk, e1, e2) ==
    mul_scalar(private_key(ik), e1) \cup mul_scalar(private_key(spk), e2)
compute_aggregated_receiver_secret(ik, spk, opk, e1, e2) ==
    mul_scalar(private_key(ik), e1) \cup mul_scalar(private_key(spk), e2)
      \cup IF opk = None THEN {} ELSE private_key(opk)

xhmqv_send(iks, ik, spk, opk, eph) ==
    LET b == compute_aggregated_receiver_key(ik, spk, opk,
                 hash_e1(ik, spk, opk), hash_e2(ik, spk, opk))
        d == hash_d(iks, eph)
    IN  [shared_secret_1 |-> agree(private_key(eph), b),
         shared_secret_2 |-> agree(mul_scalar(private_key(iks), d), b)]

xhmqv_recv1(ik, spk, opk, eph) ==
    LET b == compute_aggregated_receiver_secret(ik, spk, opk,
                 hash_e1(ik, spk, opk), hash_e2(ik, spk, opk))
    IN  [b_secret |-> b, shared_secret_1 |-> agree(b, public_key(eph))]

(* The second step, when the sender's identity has been unsealed.          *)
xhmqv_recv2(b_secret, iks, eph) ==
    agree(mul_scalar(b_secret, hash_d(iks, eph)), public_key(iks))

-----------------------------------------------------------------------------
(* The keys of a message of this protocol alone.  None of its parts has a  *)
(* MAC: the agreement is implicit in the session key.                      *)

derive_kseal(ss1, ik, spk, opk, eph) ==
    [ss1 |-> ss1, identity |-> ik, signed |-> spk, pre_key |-> opk, eph |-> eph]

derive_session_key_ephemeral(ss1, ss2, iks, eph) ==
    [ss1 |-> ss1, ss2 |-> {}, identity |-> eph, eph |-> eph]
derive_session_key(ss1, ss2, iks, eph) ==
    [ss1 |-> ss1, ss2 |-> ss2, identity |-> iks, eph |-> eph]

message_send(iks, bundle, eph) ==
    LET x == xhmqv_send(iks, bundle.identity, bundle.signed, bundle.pre_key, eph)
    IN  [message |->
           [version            |-> "xhmqv1",
            ephemeral          |-> eph,
            one_time_prekey_id |-> bundle.pre_key_id,
            inner |-> [sealed_with |-> derive_kseal(x.shared_secret_1, bundle.identity,
                                           bundle.signed, bundle.pre_key, eph),
                       iks |-> iks]],
         session_key |-> derive_session_key(x.shared_secret_1, x.shared_secret_2, iks, eph)]

(* The sender's identity that the receiver reads.  Under another key the    *)
(* 32 bytes decrypt to noise, which is either no point, an error that      *)
(* changes nothing, or a point whose private key nobody has: None.         *)
unseal(msg, ik, spk, opk) ==
    IF msg.inner.sealed_with =
           derive_kseal(xhmqv_recv1(ik, spk, opk, msg.ephemeral).shared_secret_1,
                        ik, spk, opk, msg.ephemeral)
      THEN msg.inner.iks ELSE None

message_receive(msg, ik, spk, opk) ==
    LET rec1 == xhmqv_recv1(ik, spk, opk, msg.ephemeral)
        iks  == unseal(msg, ik, spk, opk)
    IN  [sender_iks  |-> iks,
         session_key |-> derive_session_key(rec1.shared_secret_1,
             xhmqv_recv2(rec1.b_secret, iks, msg.ephemeral), iks, msg.ephemeral)]
=============================================================================
