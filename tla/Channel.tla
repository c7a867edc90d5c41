------------------------------ MODULE Channel ------------------------------
(***************************************************************************)
(* What the library promises an application: a channel over which each     *)
(* message sent is received at most once, by its addressee, as a message   *)
(* of the identity that the addressee has pinned for the sender.  Messages *)
(* may be lost and overtake each other.  There are no sessions, ratchets,  *)
(* pre-keys or certificates here.                                          *)
(***************************************************************************)
EXTENDS Naturals

CONSTANTS Party, None

VARIABLES
    sent,      \* messages released to the transport
    received,  \* message -> how many times the application was given it
    pins       \* p -> q -> identity that p has pinned for q, or None

vars == << sent, received, pins >>

Init ==
    /\ sent = {}
    /\ received = [m \in {} |-> 0]
    /\ pins = [p \in Party |-> [q \in Party |-> None]]

(* p deals with q under this identity: pinned already, or on first use.    *)
Use(p, q, identity) ==
    /\ pins[p][q] \in {None, identity}
    /\ pins' = [pins EXCEPT ![p][q] = identity]

(* A message is new, and meant for the identity pinned.                    *)
Send ==
    \E m \in sent' \ sent :
        /\ sent' = sent \cup {m}
        /\ Use(m.from, m.to, m.receiver_identity)
        /\ UNCHANGED received

(* A message was sent and is received for the first time.                  *)
Receive ==
    \E m \in sent \ DOMAIN received :
        /\ received' = [n \in DOMAIN received \cup {m} |->
                           IF n = m THEN 1 ELSE received[n]]
        /\ Use(m.to, m.from, m.sender_identity)
        /\ UNCHANGED sent

(* An identity is pinned without a message: on first use, or because the   *)
(* user has accepted it.                                                   *)
Pin(p, q) ==
    /\ pins'[p][q] # None
    /\ pins' = [pins EXCEPT ![p][q] = pins'[p][q]]
    /\ UNCHANGED << sent, received >>

(* A device starts over.                                                   *)
StartOver(p) ==
    /\ pins' = [pins EXCEPT ![p] = [q \in Party |-> None]]
    /\ UNCHANGED << sent, received >>

Next ==
    \/ Send
    \/ Receive
    \/ \E p, q \in Party : Pin(p, q)
    \/ \E p \in Party : StartOver(p)

Spec == Init /\ [][Next]_vars
=============================================================================
