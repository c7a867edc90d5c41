--------------------------- MODULE MultiRecipient ---------------------------
(***************************************************************************)
(* One multi-recipient sealed sender message                               *)
(* (rust/protocol/src/sealed_sender.rs).  The sender encrypts the content  *)
(* once and, for each recipient, wraps the message key; this part is       *)
(* spread over worker threads.  The server parses the message and hands    *)
(* each recipient its own part.                                            *)
(*                                                                         *)
(* The message is a sequence of fields.  The parser has a cursor `pos' in  *)
(* it and, as in the code, keeps the place of a recipient's part rather    *)
(* than a copy.  Lengths of fields and the version byte are left out.      *)
(***************************************************************************)
EXTENDS Integers, Sequences, FiniteSets, SequencesExt

CONSTANTS
    Name,               \* accounts
    NotServiceId,       \* those whose name does not parse as a ServiceId
    Address,            \* protocol addresses: an account and a device id
    RegistrationId,     \* registration ids of sessions, u32
    None,
    MIN_CHUNK,          \* 6 in the code: smaller chunks are not worth a thread
    Parallelism,        \* possible results of available_parallelism
    MaxDestinations,    \* bound on the list of destinations
    MaxExcluded,        \* bound on the list of excluded recipients
    MaxFlaws            \* bound on the addresses that are not in good order

ASSUME MultiAssumption ==
    /\ NotServiceId \subseteq Name
    /\ Address \subseteq Name \X (1..127)
    /\ RegistrationId \subseteq Nat
    /\ None \notin Nat \cup Name
    /\ Parallelism \subseteq Nat \ {0}
    /\ MIN_CHUNK \in Nat \ {0}
    /\ MaxDestinations \in Nat /\ MaxExcluded \in Nat /\ MaxFlaws \in Nat

VARIABLES
    call,       \* the arguments of the call and what the stores hold
    pc,         \* how far the message is: "called", "spawned", "failed", "sent",
                \* "parsing", "rejected" or "parsed"
    groups,     \* identity_keys_and_ranges
    task,       \* the chunks and their outputs
    error,      \* the error the call or the parser returns
    message,    \* the serialized message
    pos,        \* the parser's cursor
    left,       \* recipients it has still to read
    recipients, \* SealedSenderV2SentMessage::recipients
    opened      \* what each recipient made of its part

vars == <<call, pc, groups, task, error, message, pos, left, recipients, opened>>

VALID_REGISTRATION_ID_MASK == 16383
HAS_MORE == 32768
InRange_off_by_one(id) == id \in Nat /\ id <= VALID_REGISTRATION_ID_MASK + 1
InRange(id) == id \in Nat /\ id <= VALID_REGISTRATION_ID_MASK

name(a) == a[1]
device_id(a) == a[2]

(***************************************************************************)
(* Keys are symbolic.  Version 1 of a recipient's identity is the one it   *)
(* has now, version 0 one it had before it registered again.  The content  *)
(* key m determines the ephemeral key pair and the cipher key.             *)
(***************************************************************************)
Identity(n, version) == <<n, version>>
OurIdentity == <<"sender", 1>>
OurOldIdentity == <<"sender", 0>>
M == << <<"random">>, "m" >>
derive_e(m) == <<"e", m>>
derive_k(m) == <<"k", m>>

apply_agreement_xor(from, to, input) ==
    LET pad == <<"xor", {from, to}, from, to>>
    IN  IF input[1] = pad THEN input[2] ELSE <<pad, input>>

compute_authentication_tag(from, to, e_pub, c) == <<"tag", {from, to}, e_pub, c, from, to>>

-----------------------------------------------------------------------------
(***************************************************************************)
(* The call.  `pins' is the identity store: the version of the identity    *)
(* that is stored for an address.  `sessions' is the registration id in    *)
(* the current session of each address, None when it was archived.  The    *)
(* certificate may be one issued before the sender changed its identity.   *)
(***************************************************************************)
\* How many things are wrong with a call.
Flaws(pins, sessions, cert_key, sessions_len) ==
    Cardinality({a \in Address : pins[a] # 1})
    + Cardinality({a \in Address : ~InRange(sessions[a])})
    + (IF cert_key = OurIdentity THEN 0 ELSE 1)
    + (IF sessions_len = "same" THEN 0 ELSE 1)

Init ==
    /\ \E pins \in [Address -> {0, 1, None}],
          sessions \in [Address -> RegistrationId \cup {None}],
          cert_key \in {OurIdentity, OurOldIdentity},
          sessions_len \in {"same", "other"} :
          /\ Flaws(pins, sessions, cert_key, sessions_len) <= MaxFlaws
          /\ \E destinations \in SeqOf(Address, MaxDestinations),
                excluded \in SeqOf(Name \ NotServiceId, MaxExcluded),
                parallelism \in Parallelism :
                call = [destinations |-> destinations, excluded |-> excluded,
                        sessions_len |-> sessions_len, pins |-> pins, sessions |-> sessions,
                        cert_key |-> cert_key, parallelism |-> parallelism]
    /\ pc = "called"
    /\ groups = <<>>
    /\ task = <<>>
    /\ error = None
    /\ message = <<>>
    /\ pos = 0
    /\ left = 0
    /\ recipients = <<>>
    /\ opened = [n \in Name |-> "not yet"]

-----------------------------------------------------------------------------
(* sealed_sender_multi_recipient_encrypt.                                  *)

Fail(e) == error' = e /\ pc' = "failed"

\* Where the groups start: a destination with the name of the one before it
\* continues its group.
GroupStarts(destinations) ==
    LET starts == {i \in DOMAIN destinations :
                     i = 1 \/ name(destinations[i]) # name(destinations[i - 1])}
    IN  [k \in 1..Cardinality(starts) |->
            CHOOSE i \in starts : Cardinality({j \in starts : j <= i}) = k]

GroupOf_by_index(destinations, starts, k) ==
    LET end == IF k = Len(starts) THEN Len(destinations) ELSE starts[k + 1] - 1
        first == destinations[k]
    IN  [identity |-> Identity(name(first), call.pins[first]),
         destinations |-> SubSeq(destinations, starts[k], end)]

\* A group has the identity that is pinned for its first device.
GroupOf(destinations, starts, k) ==
    LET end == IF k = Len(starts) THEN Len(destinations) ELSE starts[k + 1] - 1
        first == destinations[starts[k]]
    IN  [identity |-> Identity(name(first), call.pins[first]),
         destinations |-> SubSeq(destinations, starts[k], end)]

DivCeil(a, b) == (a + b - 1) \div b


\* The chunks, as the first and the last group of each; one when there is
\* nothing to spread.
Chunks(n, parallelism) ==
    LET size == IF DivCeil(n, parallelism) > MIN_CHUNK THEN DivCeil(n, parallelism) ELSE MIN_CHUNK
    IN  IF parallelism = 1 \/ size >= n
        THEN << <<1, n>> >>
        ELSE [c \in 1..DivCeil(n, size) |->
                <<(c - 1) * size + 1, IF c * size < n THEN c * size ELSE n>>]

\* Reads the identities, one for each group, and spawns the chunks.
group_destinations ==
    LET starts == GroupStarts(call.destinations)
        missing == {k \in DOMAIN starts : call.pins[call.destinations[starts[k]]] = None}
    IN  /\ pc = "called"
        /\ IF call.sessions_len = "other" THEN
              Fail(<<"InvalidArgument">>) /\ UNCHANGED <<groups, task>>
           ELSE IF missing # {} THEN
              /\ Fail(<<"SessionNotFound", call.destinations[starts[Min(missing)]]>>)
              /\ UNCHANGED <<groups, task>>
           ELSE
              /\ groups' = [k \in DOMAIN starts |-> GroupOf(call.destinations, starts, k)]
              /\ task' = LET chunks == Chunks(Len(starts), call.parallelism)
                         IN  [c \in DOMAIN chunks |->
                                [next |-> chunks[c][1], last |-> chunks[c][2],
                                 serialized |-> <<>>, error |-> None]]
              /\ pc' = "spawned"
              /\ UNCHANGED error
        /\ UNCHANGED <<call, message, pos, left, recipients, opened>>

\* The field of a device: has_more is a bit above the registration id.
DeviceField(a, id, has_more) ==
    <<"device", device_id(a), IF has_more THEN id + HAS_MORE ELSE id>>

\* What goes wrong with a destination, None if nothing.
DestinationError(a) ==
    IF name(a) \in NotServiceId THEN <<"InvalidArgument", name(a)>>
    ELSE IF call.sessions[a] = None THEN <<"InvalidState", a>>
    ELSE IF ~InRange(call.sessions[a]) THEN <<"InvalidRegistrationId", a>>
    ELSE None

FirstError(destinations) ==
    LET bad == {i \in DOMAIN destinations : DestinationError(destinations[i]) # None}
    IN  IF bad = {} THEN None ELSE DestinationError(destinations[Min(bad)])

serialize_recipient_destinations(g) ==
    LET ds == g.destinations
        c == apply_agreement_xor(derive_e(M), g.identity, M)
    IN  << <<"service_id", name(ds[1])>> >>
        \o [i \in DOMAIN ds |-> DeviceField(ds[i], call.sessions[ds[i]], i < Len(ds))]
        \o << <<"c", c>>, <<"at", compute_authentication_tag(OurIdentity, g.identity, derive_e(M), c)>> >>

\* A thread handles one group of its chunk; after an error it does no more.
process_chunk(c) ==
    LET t == task[c] IN
    /\ pc = "spawned"
    /\ t.next <= t.last
    /\ t.error = None
    /\ LET e == FirstError(groups[t.next].destinations)
       IN  task' = [task EXCEPT ![c] =
              IF e # None THEN [t EXCEPT !.error = e]
              ELSE [t EXCEPT !.next = @ + 1,
                             !.serialized = @ \o serialize_recipient_destinations(groups[t.next])]]
    /\ UNCHANGED <<call, pc, groups, error, message, pos, left, recipients, opened>>

JoinError_last ==
    LET bad == {c \in DOMAIN task : task[c].error # None}
    IN  IF bad = {} THEN None ELSE task[Max(bad)].error

\* The error of the call: that of the first chunk, then of the others in order.
JoinError ==
    LET bad == {c \in DOMAIN task : task[c].error # None}
    IN  IF bad = {} THEN None ELSE task[Min(bad)].error

Outputs == FlattenSeq([c \in DOMAIN task |-> task[c].serialized])

CountOfRecipients == Len(groups) + Len(call.excluded)

ExcludedFields(excluded) ==
    FlattenSeq([i \in DOMAIN excluded |-> << <<"service_id", excluded[i]>>, <<"device", 0>> >>])

SharedBytes == << <<"e_pub", derive_e(M)>>, <<"content", derive_k(M), call.cert_key>> >>

\* The scope ends when every thread has ended, with or without an error.
TaskEnded(t) == t.error # None \/ t.next > t.last

join ==
    /\ pc = "spawned"
    /\ \A c \in DOMAIN task : TaskEnded(task[c])
    /\ IF JoinError # None
       THEN Fail(JoinError) /\ UNCHANGED message
       ELSE /\ message' = << <<"count", CountOfRecipients>> >> \o Outputs
                          \o ExcludedFields(call.excluded) \o SharedBytes
            /\ pc' = "sent"
            /\ UNCHANGED error
    /\ UNCHANGED <<call, groups, task, pos, left, recipients, opened>>

-----------------------------------------------------------------------------
(* SealedSenderV2SentMessage::parse, one step for each recipient it reads. *)

Reject(e) == error' = e /\ pc' = "rejected"

parse ==
    /\ pc = "sent"
    /\ left' = message[1][2]
    /\ pos' = 2
    /\ pc' = "parsing"
    /\ UNCHANGED <<call, groups, task, error, message, recipients, opened>>

Field(i) == IF i <= Len(message) THEN message[i] ELSE <<"end">>
IsDevice(f) == f[1] = "device" /\ f[2] # 0
HasMore(f) == IsDevice(f) /\ f[3] >= HAS_MORE
IsEmptyList(i) == Field(i) = <<"device", 0>>

\* Where the list of devices that starts at i ends.
LastDevice(i) == Min({j \in i..(Len(message) + 1) : ~HasMore(Field(j))})

DevicesAt(i) ==
    IF IsEmptyList(i) THEN <<>>
    ELSE [k \in 1..(LastDevice(i) - i + 1) |->
            <<Field(i + k - 1)[2], Field(i + k - 1)[3] % (VALID_REGISTRATION_ID_MASK + 1)>>]

\* A recipient with devices has its part after them, one without has none.
WellFormed(i) ==
    /\ Field(i)[1] = "service_id"
    /\ \/ IsEmptyList(i + 1)
       \/ LET j == LastDevice(i + 1)
          IN  IsDevice(Field(j)) /\ Field(j + 1)[1] = "c" /\ Field(j + 2)[1] = "at"

PartAt(i) == IF IsEmptyList(i + 1) THEN 0 ELSE LastDevice(i + 1) + 1
EndOf(i) == IF IsEmptyList(i + 1) THEN i + 2 ELSE LastDevice(i + 1) + 3

\* The first part of a recipient is kept and devices are added to it.
Merge(old, devices) == [old EXCEPT !.devices = @ \o devices]

parse_recipient ==
    LET n == Field(pos)[2]
        devices == DevicesAt(pos + 1)
    IN  /\ pc = "parsing"
        /\ left > 0
        /\ IF ~WellFormed(pos) THEN
              Reject(<<"InvalidProtobufEncoding">>) /\ UNCHANGED <<pos, left, recipients>>
           ELSE IF n \in DOMAIN recipients /\ (devices = <<>> \/ recipients[n].devices = <<>>) THEN
              Reject(<<"InvalidSealedSenderMessage", n>>) /\ UNCHANGED <<pos, left, recipients>>
           ELSE
              /\ recipients' = IF n \in DOMAIN recipients
                               THEN [recipients EXCEPT ![n] = Merge(@, devices)]
                               ELSE recipients @@ (n :> [devices |-> devices, c_and_at |-> PartAt(pos)])
              /\ pos' = EndOf(pos)
              /\ left' = left - 1
              /\ UNCHANGED <<pc, error>>
        /\ UNCHANGED <<call, groups, task, message, opened>>

\* What is left is the shared part; it must be long enough for a key.
parse_end ==
    /\ pc = "parsing"
    /\ left = 0
    /\ IF pos > Len(message)
       THEN Reject(<<"InvalidProtobufEncoding">>)
       ELSE pc' = "parsed" /\ UNCHANGED error
    /\ UNCHANGED <<call, groups, task, message, pos, left, recipients, opened>>

range_for_recipient_key_material(r) == <<r.c_and_at, r.c_and_at + 1>>

received_message_parts_for_recipient(r) ==
    LET range == range_for_recipient_key_material(r)
    IN  SubSeq(message, range[1], range[2]) \o SubSeq(message, pos, Len(message))


\* Whether a device with the given identity can open what it received.
sealed_sender_decrypt_to_usmc(our_identity, parts) ==
    LET c == parts[1][2]
        e_pub == parts[3][2]
        m == apply_agreement_xor(e_pub, our_identity, c)
        sender_key == parts[4][3]
    IN  /\ derive_e(m) = e_pub
        /\ derive_k(m) = parts[4][2]
        /\ parts[2][2] = compute_authentication_tag(sender_key, our_identity, e_pub, c)

\* The server hands recipient n its message; the devices of n share its identity.
receive(n) ==
    /\ pc = "parsed"
    /\ n \in DOMAIN recipients
    /\ recipients[n].devices # <<>>
    /\ opened[n] = "not yet"
    /\ opened' = [opened EXCEPT ![n] =
         IF sealed_sender_decrypt_to_usmc(Identity(n, 1), received_message_parts_for_recipient(recipients[n]))
         THEN "opened" ELSE "refused"]
    /\ UNCHANGED <<call, pc, groups, task, error, message, pos, left, recipients>>

-----------------------------------------------------------------------------
Encrypt ==
    \/ group_destinations
    \/ \E c \in DOMAIN task : process_chunk(c)
    \/ join

Next ==
    \/ Encrypt
    \/ parse
    \/ parse_recipient
    \/ parse_end
    \/ \E n \in Name : receive(n)

MultiSpec == Init /\ [][Next]_vars

-----------------------------------------------------------------------------
(* Properties.                                                             *)

\* What a sequential loop over the destinations, without groups, chunks or
\* threads, would return as error: the lookups come first, and each error is
\* that of the first destination with one.
SequentialError ==
    LET ds == call.destinations
        unknown == {i \in DOMAIN ds : /\ call.pins[ds[i]] = None
                                      /\ i = 1 \/ name(ds[i - 1]) # name(ds[i])}
        bad == {i \in DOMAIN ds : DestinationError(ds[i]) # None}
    IN  IF call.sessions_len = "other" THEN <<"InvalidArgument">>
        ELSE IF unknown # {} THEN <<"SessionNotFound", ds[Min(unknown)]>>
        ELSE IF bad # {} THEN DestinationError(ds[Min(bad)])
        ELSE None

\* The call fails exactly when the sequential loop does, with its error,
\* however the destinations fall into chunks and the threads interleave
\* (rayon::scope and the loop over all_outputs).
SameErrorAsSequential ==
    /\ pc = "failed" => error = SequentialError
    /\ pc \in {"sent", "parsing", "rejected", "parsed"} => SequentialError = None

\* A message that was sent parses, unless an excluded recipient is repeated
\* or also a destination (the parser's "recipient redundantly encoded as
\* empty").  Then the server sees for each account the devices that the
\* caller listed, in its order and with the registration ids of the sessions,
\* and for an excluded account none: grouping, chunks, the has_more bit and
\* the count of recipients agree with what the parser makes of them.
RoutedAsListed ==
    LET ds == ToSet(call.destinations)
        redundant == \/ ~IsInjective(call.excluded)
                     \/ \E d \in ds : name(d) \in ToSet(call.excluded)
    IN  /\ pc = "rejected" => redundant
        /\ pc = "parsed" =>
              /\ ~redundant
              /\ DOMAIN recipients = {name(d) : d \in ds} \cup ToSet(call.excluded)
              /\ \A n \in DOMAIN recipients :
                    LET listed == SelectSeq(call.destinations, LAMBDA d : name(d) = n)
                    IN  recipients[n].devices =
                          [i \in DOMAIN listed |->
                              <<device_id(listed[i]), call.sessions[listed[i]]>>]

\* What an account opens was sealed to an identity pinned for one of its
\* listed devices, by the identity that the certificate names; and an account
\* is refused only when its current identity is not the one pinned for each of
\* its devices, or the certificate is for another identity than the sender's.
OpenedByThoseSealedTo ==
    \A n \in Name :
        LET devices == {d \in ToSet(call.destinations) : name(d) = n}
        IN  /\ opened[n] = "opened" =>
                  /\ call.cert_key = OurIdentity
                  /\ n \notin ToSet(call.excluded)
                  /\ \E d \in devices : call.pins[d] = 1
            /\ opened[n] = "refused" =>
                  \/ call.cert_key # OurIdentity
                  \/ \E d \in devices : call.pins[d] # 1
=============================================================================
