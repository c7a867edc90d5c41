----------------------------- MODULE SenderKeys -----------------------------
(***************************************************************************)
(* Group messages: the sender keys of one sending device in one            *)
(* distribution (rust/protocol/src/sender_keys.rs, group_cipher.rs).  The  *)
(* sender hands its chain to the members in distribution messages, each    *)
(* member ratchets the chain forward on its own.  Distribution messages    *)
(* and group messages may be lost, repeated and arrive in any order.       *)
(*                                                                         *)
(* A record is stored once, at the end of each call: a call whose store    *)
(* fails returns an error and leaves everything as it was.                 *)
(***************************************************************************)
EXTENDS Naturals, Sequences, FiniteSets, MessageKeys

CONSTANTS
    Member,                 \* the devices that receive
    ChainId,                \* chain ids: random, so they may collide
    MAX_FORWARD_JUMPS,      \* consts.rs, as are the next two
    MAX_MESSAGE_KEYS,
    MAX_SENDER_KEY_STATES,
    MAX_ITERATION,          \* u32::MAX
    MaxChains,              \* bound: sender keys created
    MaxInstalls,            \* bound: installations of a chain by a member
    MaxGroupMessages        \* bound: group messages released

ASSUME GroupAssumption ==
    /\ MAX_FORWARD_JUMPS \in Nat
    /\ MAX_MESSAGE_KEYS \in Nat
    /\ MAX_SENDER_KEY_STATES \in Nat \ {0}
    /\ MAX_ITERATION \in Nat
    /\ MaxChains \in Nat
    /\ MaxInstalls \in Nat
    /\ MaxGroupMessages \in Nat

VARIABLES
    own,        \* the sender's record; empty before a key is created
    records,    \* member -> its record for this sender and distribution
    chains,     \* number of sender keys created so far
    skdms,      \* distribution messages released
    skms,       \* group messages released
    installs,   \* member -> chain -> the iterations at which it was installed, in order
    delivered,  \* << member, message, installation >> returned to the application
    replayed    \* those returned more than once

vars == << own, records, chains, skdms, skms, installs, delivered, replayed >>

-----------------------------------------------------------------------------
(* A chain is named by a number, which stands for its first chain key and  *)
(* its signing key pair: both are generated together.  The chain key of a  *)
(* state is the one of its chain at its iteration.                         *)

Chain == Nat

SenderKeyState == [chain_id : ChainId, chain : Chain, iteration : Nat,
                   message_keys : SUBSET Nat]

SenderKeyDistributionMessage == [chain_id : ChainId, chain : Chain, iteration : Nat]

SenderKeyMessage == [chain_id : ChainId, chain : Chain, iteration : Nat, number : Nat]

TypeOK ==
    /\ own \in Seq(SenderKeyState)
    /\ records \in [Member -> Seq(SenderKeyState)]
    /\ chains \in Nat
    /\ skdms \subseteq SenderKeyDistributionMessage
    /\ skms \subseteq SenderKeyMessage
    /\ installs \in [Member -> [1 .. MaxChains -> Seq(Nat)]]
    /\ delivered \subseteq Member \X skms \X Nat
    /\ replayed \subseteq delivered

-----------------------------------------------------------------------------
(* sender_keys.rs.                                                         *)

(* SenderChainKey::next fails rather than wrap.                            *)
CanAdvanceAlways(iteration) == TRUE
CanAdvance(iteration) == iteration < MAX_ITERATION
NextIteration(iteration) == (iteration + 1) % (MAX_ITERATION + 1)

NewStateBefore(chain_id, chain, iteration) ==
    [chain_id |-> chain_id, chain |-> chain, iteration |-> iteration - 1,
     message_keys |-> {}]
NewStateFromStart(chain_id, chain, iteration) ==
    [chain_id |-> chain_id, chain |-> chain, iteration |-> 0, message_keys |-> {}]
NewState(chain_id, chain, iteration) ==
    [chain_id |-> chain_id, chain |-> chain, iteration |-> iteration,
     message_keys |-> {}]

Has(record, skdm) ==
    \E i \in DOMAIN record :
        record[i].chain_id = skdm.chain_id /\ record[i].chain = skdm.chain

(* A state of the same chain is kept as it is; the others with its chain   *)
(* id go, then the oldest until there is room in front.                    *)
StateToAddReset(record, skdm) == NewState(skdm.chain_id, skdm.chain, skdm.iteration)
StateToAdd(record, skdm) ==
    IF Has(record, skdm)
      THEN record[CHOOSE i \in DOMAIN record :
                     record[i].chain_id = skdm.chain_id /\ record[i].chain = skdm.chain]
      ELSE NewState(skdm.chain_id, skdm.chain, skdm.iteration)

(* The entries of a list at some of its positions, in order.               *)
EntriesAt(list, positions) ==
    [n \in 1 .. Cardinality(positions) |->
        list[CHOOSE i \in positions : Cardinality({j \in positions : j <= i}) = n]]

remove_states_none(record, chain_id) == record
remove_states_with_chain_id(record, chain_id) ==
    EntriesAt(record, {i \in DOMAIN record : record[i].chain_id # chain_id})

add_sender_key_state(record, skdm) ==
    LET rest == remove_states_with_chain_id(record, skdm.chain_id)
    IN  << StateToAdd(record, skdm) >>
        \o SubSeq(rest, 1, IF Len(rest) >= MAX_SENDER_KEY_STATES
                             THEN MAX_SENDER_KEY_STATES - 1 ELSE Len(rest))

-----------------------------------------------------------------------------
(* group_cipher.rs: get_sender_key.                                        *)

sender_key_state_for_chain_id(record, chain_id) ==
    CHOOSE i \in DOMAIN record :
        /\ record[i].chain_id = chain_id
        /\ \A j \in 1 .. i - 1 : record[j].chain_id # chain_id

(* The key of this iteration is there or can be reached.                   *)
CanGetSenderKey(s, iteration) ==
    IF s.iteration > iteration
      THEN iteration \in s.message_keys
      ELSE /\ iteration - s.iteration <= MAX_FORWARD_JUMPS
           /\ CanAdvance(iteration)

get_sender_key_kept(s, iteration) ==
    IF s.iteration > iteration THEN s
      ELSE [s EXCEPT !.message_keys = Newest(@ \cup (s.iteration .. iteration - 1),
                                             MAX_MESSAGE_KEYS),
                     !.iteration = NextIteration(iteration)]


get_sender_key(s, iteration) ==
    IF s.iteration > iteration
      THEN [s EXCEPT !.message_keys = @ \ {iteration}]
      ELSE [s EXCEPT !.message_keys = Newest(@ \cup (s.iteration .. iteration - 1),
                                             MAX_MESSAGE_KEYS),
                     !.iteration = NextIteration(iteration)]

-----------------------------------------------------------------------------
Init ==
    /\ own = << >>
    /\ records = [r \in Member |-> << >>]
    /\ chains = 0
    /\ skdms = {}
    /\ skms = {}
    /\ installs = [r \in Member |-> [k \in 1 .. MaxChains |-> << >>]]
    /\ delivered = {}
    /\ replayed = {}

Distribute(s) ==
    skdms' = skdms \cup {[chain_id |-> s.chain_id, chain |-> s.chain,
                          iteration |-> s.iteration]}

(* create_sender_key_distribution_message: the sender's key as it stands,  *)
(* or a new one when it has none.                                          *)
create_sender_key_distribution_message(chain_id) ==
    /\ \/ own # << >> /\ UNCHANGED << own, chains >>
       \/ /\ own = << >>
          /\ chains < MaxChains
          /\ chains' = chains + 1
          /\ own' = add_sender_key_state(own, [chain_id |-> chain_id,
                                               chain |-> chains', iteration |-> 0])
    /\ Distribute(own'[1])
    /\ UNCHANGED << records, skms, installs, delivered, replayed >>

(* The sender starts over with an empty store (InMemSenderKeyStore::new).  *)
ResetSender ==
    /\ own # << >>
    /\ own' = << >>
    /\ UNCHANGED << records, chains, skdms, skms, installs, delivered, replayed >>

group_encrypt ==
    /\ own # << >>
    /\ Cardinality(skms) < MaxGroupMessages
    /\ CanAdvance(own[1].iteration)
    /\ own' = [own EXCEPT ![1].iteration = NextIteration(@)]
    /\ skms' = skms \cup {[chain_id |-> own[1].chain_id, chain |-> own[1].chain,
                           iteration |-> own[1].iteration,
                           number |-> Cardinality(skms)]}
    /\ UNCHANGED << records, chains, skdms, installs, delivered, replayed >>

process_sender_key_distribution_message(r, skdm) ==
    /\ records' = [records EXCEPT ![r] = add_sender_key_state(@, skdm)]
    /\ \/ Has(records[r], skdm) /\ UNCHANGED installs
       \/ /\ ~Has(records[r], skdm)
          /\ Len(installs[r][skdm.chain]) < MaxInstalls
          /\ installs' = [installs EXCEPT ![r][skdm.chain] = Append(@, skdm.iteration)]
    /\ UNCHANGED << own, chains, skdms, skms, delivered, replayed >>

(* What group_decrypt finds for a message, before it tries to get the key. *)
Known(record, m) == \E i \in DOMAIN record : record[i].chain_id = m.chain_id

verify_signature(s, m) == s.chain = m.chain

(* A decryption of m by r, under the latest installation of its chain.     *)
Delivery(r, m) == << r, m, Len(installs[r][m.chain]) >>

group_decrypt(r, m) ==
    LET i == sender_key_state_for_chain_id(records[r], m.chain_id)
        s == records[r][i]
    IN  /\ Known(records[r], m)
        /\ verify_signature(s, m)
        /\ CanGetSenderKey(s, m.iteration)
        /\ records' = [records EXCEPT ![r][i] = get_sender_key(s, m.iteration)]
        /\ delivered' = delivered \cup {Delivery(r, m)}
        /\ replayed' = IF Delivery(r, m) \in delivered
                         THEN replayed \cup {Delivery(r, m)} ELSE replayed
        /\ UNCHANGED << own, chains, skdms, skms, installs >>

Next ==
    \/ \E id \in ChainId : create_sender_key_distribution_message(id)
    \/ ResetSender
    \/ group_encrypt
    \/ \E r \in Member :
          \/ \E skdm \in skdms : process_sender_key_distribution_message(r, skdm)
          \/ \E m \in skms : group_decrypt(r, m)

Spec == Init /\ [][Next]_vars

-----------------------------------------------------------------------------
(* Properties.                                                             *)

(* The limits of consts.rs hold for every record, at most one state has a  *)
(* given chain id (so the lookup by chain id is unambiguous), and a        *)
(* skipped key is always older than its chain.                             *)
RecordWithinLimits(record) ==
    /\ Len(record) <= MAX_SENDER_KEY_STATES
    /\ \A i \in DOMAIN record :
          /\ IsFiniteSet(record[i].message_keys)
          /\ Cardinality(record[i].message_keys) <= MAX_MESSAGE_KEYS
          /\ \A n \in record[i].message_keys : n < record[i].iteration
          /\ \A j \in DOMAIN record : record[j].chain_id = record[i].chain_id => i = j

GroupLimitsRespected ==
    /\ RecordWithinLimits(own)
    /\ \A r \in Member : RecordWithinLimits(records[r])

(* Two group messages never use one message key, also at the end of the    *)
(* iteration counter and when chain ids collide.                           *)
GroupNoKeyReuse ==
    \A m1, m2 \in skms :
        (m1.chain = m2.chain /\ m1.iteration = m2.iteration) => m1 = m2

(* Between two installations of a chain a member decrypts a message at     *)
(* most once, however often messages and distribution messages repeat.     *)
AtMostOncePerInstall == replayed = {}

(* A member reads no message from before the iterations it was given: each *)
(* message it decrypts is at or after the iteration of the installation    *)
(* it was decrypted under.                                                 *)
NoHistory ==
    \A d \in delivered : d[3] > 0 /\ installs[d[1]][d[2].chain][d[3]] <= d[2].iteration

(* A distribution message never rewinds a chain that the member still      *)
(* holds: no step gives a state back a key it had passed.                  *)
NoRewind ==
    [][\A r \in Member : \A i \in DOMAIN records[r] : \A j \in DOMAIN records'[r] :
          LET s == records[r][i]
              t == records'[r][j]
          IN  s.chain = t.chain =>
                /\ t.iteration >= s.iteration
                /\ t.message_keys \subseteq
                     s.message_keys \cup (s.iteration .. t.iteration - 1)]_vars

(* A member that holds a chain can decrypt, in any order, every message of *)
(* it since the installation that it has not decrypted under that          *)
(* installation, unless the message is too far ahead or so far behind that *)
(* MAX_MESSAGE_KEYS keys between it and the last one obtained may have     *)
(* taken its key's place (get_sender_key and add_sender_message_key).      *)
WithinReach(s, iteration) ==
    IF s.iteration > iteration
      THEN s.iteration - iteration <= MAX_MESSAGE_KEYS + 1
      ELSE iteration - s.iteration <= MAX_FORWARD_JUMPS

GroupAlwaysDecryptable ==
    \A r \in Member, m \in skms :
        LET record == records[r]
            s      == record[sender_key_state_for_chain_id(record, m.chain_id)]
            n      == Len(installs[r][m.chain])
        IN  (/\ Has(record, m)
             /\ installs[r][m.chain][n] <= m.iteration
             /\ Delivery(r, m) \notin delivered)
            => /\ verify_signature(s, m)
               /\ WithinReach(s, m.iteration) => CanGetSenderKey(s, m.iteration)
=============================================================================
