-------------------------- MODULE HandshakeSessions --------------------------
(***************************************************************************)
(* The records that the sealed handshakes start from their session key     *)
(* (initialize_alice_session and initialize_bob_session of spqxdh.rs,      *)
(* sealed_ringxkem_x3dh.rs and sealed_ringxkem_xhmqv.rs, which differ in   *)
(* the label of the key derivation only).  Neither has a pending pre-key   *)
(* message, and each is alone in its record (SessionRecord::new).          *)
(***************************************************************************)
EXTENDS SessionState

AliceSession(session_key, their_ratchet, ours, theirs, base, ratchet) ==
    LET root    == derive_keys(session_key)
        sending == create_chain(root, their_ratchet, ratchet)
    IN  [current |->
           [local_identity  |-> ours,
            remote_identity |-> theirs,
            alice_base_key  |-> base,
            root_key        |-> sending,
            sender_ratchet  |-> ratchet,
            sender_chain    |-> [key |-> sending, index |-> 0],
            receiver_chains |-> << [sender |-> their_ratchet,
                                    chain  |-> [key |-> root, index |-> 0],
                                    message_keys |-> {}] >>,
            pending         |-> None,
            pq              |-> [auth |-> session_key, direction |-> "A2B"]],
         previous |-> << >>]

BobSession(session_key, base, ours, theirs, ratchet, direction) ==
    [current |->
       [local_identity  |-> ours,
        remote_identity |-> theirs,
        alice_base_key  |-> base,
        root_key        |-> derive_keys(session_key),
        sender_ratchet  |-> ratchet,
        sender_chain    |-> [key |-> derive_keys(session_key), index |-> 0],
        receiver_chains |-> << >>,
        pending         |-> None,
        pq              |-> [auth |-> session_key, direction |-> direction]],
     previous |-> << >>]
=============================================================================
