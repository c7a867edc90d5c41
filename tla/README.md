# TLA+ models of the Signal protocol library

This directory holds TLA+ models of `rust/protocol`, the protocol library of this
repository: the TLC runs that check them and the TLAPS proofs about them.

## The system

The library is sequential, but for the threads of a multi-recipient sealed message, and
asynchronous only in its store calls. Each function loads
what it needs from the stores that the application supplies, works on a copy, and writes
the result back with several store calls, each of which may fail. Two devices interact
through messages only, and the transport may lose, repeat, delay and reorder them. All the
hard behaviour comes from that: a device never knows what the other one has seen.

| component | source | state | operations | what makes it correct |
|---|---|---|---|---|
| session ratchet | `session_cipher.rs`, `ratchet.rs`, `ratchet/keys.rs` | chains and keys of a session | `message_encrypt`, `message_decrypt*` | a key is used once and forgotten, any order of arrival works, both ends take the same steps |
| session establishment | `session.rs`, `ratchet.rs`, `pqxdh.rs`, `state/bundle.rs` | - | `process_prekey_bundle`, `process_prekey` | the identity is the trusted one, a one-time pre-key serves one session, simultaneous initiation converges |
| session records | `state/session.rs` | a current session and an archive | archive, promote, match | limits, one session per base key, nothing evicted comes back |
| key stores | `storage/*.rs`, `state/*.rs` | identities, pre-keys, sessions, sender keys | get, save, mark, remove | failing calls leave a usable state |
| group sender keys | `group_cipher.rs`, `sender_keys.rs` | sender key states per sender and distribution | create/process distribution message, `group_encrypt`, `group_decrypt` | limits, no rewind, no key reuse, no history |
| sealed PQXDH | `spqxdh.rs` | none of its own | `send`, `recv`, `initialize_*_session` | initiator and responder agree, the sessions work |
| sealed RingXKEM | `sealed_ringxkem_xhmqv.rs`, `sealed_ringxkem_x3dh.rs`, `pure_falcon.rs` | none of its own | the same, with Falcon signatures over the post-quantum half | the same, deniability aside |
| XHMQV | `xhmqv.rs` | none | `xhmqv_send`, `xhmqv_recv1`/`2`, `message_send`, `message_receive` | equal session keys mean equal runs |
| sealed sender, one recipient | `sealed_sender.rs` | certificates | `sealed_sender_encrypt`, `sealed_sender_decrypt`, certificate validation | what is accepted comes from the certified device; a refused envelope costs nothing but itself |
| sealed sender, many recipients | `sealed_sender.rs` | one chunk of the work per thread | `sealed_sender_multi_recipient_encrypt`, the server's `parse`, decryption | each recipient gets its own part, whatever the schedule |
| incremental MAC | `incremental_mac.rs` | running MAC and room left in the chunk, expected MACs | `update`, `finalize` of both sides | chunk boundaries do not depend on how the data was cut; what counts as validated is the sender's data |
| message formats, safety numbers, primitives, addresses | `protocol.rs`, `proto/`, `fingerprint.rs`, `kem*`, `crypto.rs`, `rust/core`, `rust/crypto` | none | pure functions | - |

How they interact: `message_decrypt_prekey` calls session establishment, then the ratchet,
then the stores; group messages share the skipped-key rules of the ratchet and travel,
like distribution messages, inside one-to-one messages; the sealed handshakes replace
session establishment and start the same ratchet; sealed sender wraps the messages of
both. `PROJECT.json` lists every hazard found in this code with its line and the
properties that cover it.

## Modules

| module | models | depends on |
|---|---|---|
| `MessageKeys` | the bounded list of skipped keys | |
| `SessionState` | sessions and records as pure operators: key derivation, chains, archive, decryption | `MessageKeys` |
| `Channel` | abstract: what the library promises an application | |
| `Session` | devices, their stores and the network; one action per call of the API; implements `Channel` | `SessionState`, `Channel` |
| `SenderKeys` | group messages of one sender | `MessageKeys` |
| `HandshakeSessions` | the sessions that start from the session key of a sealed handshake | `SessionState` |
| `SealedPQXDH` | the sealed handshake, composed with the ratchet of `Session` | `Session`, `HandshakeSessions` |
| `XHMQV` | the XHMQV agreement as pure operators | `SessionState` |
| `SealedRingXKEM` | both RingXKEM handshakes and the plain XHMQV message | `Session`, `HandshakeSessions`, `XHMQV` |
| `SealedSender` | certificates and the V1 envelope around the sessions; implements `Channel` | `Session` |
| `MultiRecipient` | one multi-recipient sealed message: worker threads, the server's parser, the recipients | |
| `IncrementalMac` | both sides of an incremental MAC and the transport between them | |
| `MCSession`, `MCSenderKeys`, `MCSealedPQXDH`, `MCSealedRingXKEM`, `MCSealedSender`, `MCMultiRecipient` | symmetry sets and constants for TLC | |
| `SessionProofs` | theorems on sessions: types and limits, what each step does, unique base keys | `Session` |
| `SessionAgreementProofs` | theorems on sessions: keys, deliveries, agreement of the two ends, the channel | `SessionProofs` |
| `SenderKeysProofs` | theorems on groups | `SenderKeys` |
| `SealedPQXDHProofs`, `SealedRingXKEMProofs` | theorems on the sealed handshakes | `SealedPQXDH`, `SealedRingXKEM`, `SessionProofs` |
| `SealedSenderProofs` | theorems on sealed sender, on top of those on sessions | `SealedSender`, `SessionAgreementProofs` |
| `MultiRecipientProofs` | the theorem on the worker threads | `MultiRecipient` |
| `IncrementalMacProofs` | theorems on both sides of the incremental MAC | `IncrementalMac` |

Operators and actions have the names of the functions they model. An operator whose name
is that of another with a suffix (`add_receiver_chain_untrimmed`) is a variant with a
plausible bug, listed in `PROJECT.json`, that shows the property can fail.

**Keys are symbolic.** A key pair is a name `<<owner, n>>`; an agreement is the set of its
two keys; a derived key is the record of what it was derived from. So two keys are equal
exactly when they come from the same inputs in the same order. Signatures and MACs are
comparisons of what they cover and of the key. The KEM rejects implicitly, as ML-KEM does.
The post-quantum ratchet (crate `spqr`) is external: the model keeps its authentication
key and its direction, which decide whether it accepts a message.

**Sessions.** `sessions[p][q]` is the record that device `p` stores for `q`. The fields of
`SessionStructure` are those of the protobuf that some decision depends on; the
previous counter, the registration ids and the version are left out. `message_keys` is the
set of skipped indices: the list in the code is in the order of the indices, so the set
determines it. A decryption attempt works on a copy of the session; a failing one changes
nothing, as in the code.

**Failing stores.** Each action takes `writes`, the number of its store calls that
succeed. With fewer than all of them the action performs the first ones, returns an error
and releases nothing. A call that fails before its first store call changes nothing and is
a stuttering step. Two sessions of one device are independent; the library's functions
borrow the stores mutably, so two calls on one store do not interleave.

**The network.** `net` holds every ciphertext ever released. Any of them may be handed to
its receiver at any time, again and again, or never: this is loss, delay, reordering and
duplication at once. `delivered` and `replayed` record what the application was given.

**The environment.** The server that hands out bundles is not in the repository. It may
serve the bundle of an earlier installation, give the same one-time pre-key to several
initiators, or mix the identity of one installation with the pre-keys of another.
`Reinstall` is a device that starts over with new stores, `AcceptIdentity` the user who
accepts a changed identity, `Tick` the clock.

**Groups.** A chain is a number that stands for its first key and its signing key; a state
is a chain at an iteration. Chain ids are drawn from a small set, so they collide.
`installs` remembers at which iterations a member installed a chain: a state that was
evicted may be installed again, and its guarantees start over there.

**Sealed handshakes.** `send` and `recv` only read the stores; the caller stores a new
record and the peer's identity, as `benches/spqxdh.rs` does, and that is part of the
action. A handshake can be damaged in the fields that a receiver uses before it
has checked the MAC. `send` does not verify the signatures of the bundle, and `recv`
neither validates the certificate nor consumes pre-keys: both are left to the caller and
are not assumed.

**RingXKEM.** The Ristretto, Ed25519, Falcon and ML-KEM identity keys of an installation are
made together and share its name. The server may take each part of a bundle from another
installation (at most `MaxForeign` parts from another one than the identity key); only a
signed pre-key and its signature stay together. What the signatures then tie together
differs. The Falcon key verifies the signed ML-KEM pre-key. Over X3DH the identity key
verifies the signed pre-key; over XHMQV an Ed25519 key in the bundle does, which nothing ties
to the identity key, and the ML-KEM identity key is signed in neither variant. `send` accepts
a mix that passes these checks, and `recv` refuses it: its transcript has the receiver's own
keys. So `RingAgreement` holds for every bundle, and `RingCompletes` has to assume that the
receiver has the keys which no signature ties to those it is known to have. No message says which one-time pre-key it used, so the receiver's caller tries any of its
own, or none. The first ratchet key is the receiver's identity key, as in
`benches/sealed_ringxkem_*.rs`. Over X3DH the identity agreement at the receiver uses the
key of the certificate, so an old certificate makes the MAC fail. Over XHMQV the sender's
identity is read under the seal and the certificate's key is not compared with it:
`RingSessionsAgree` states the weaker fact that holds there. What `recv` does not look at
(the second, discarded Falcon verification) has no counterpart. Messages on such sessions
are composed in `SealedPQXDH`; this module compares only the two ends at their start.

**XHMQV.** The group is symbolic: a scalar is a polynomial in the private keys and the
hashed coefficients (a set of monomials, each the set of its factors), a point is named by
its discrete logarithm, and an agreement is a product. So the two ends agree exactly when
their polynomials do, with or without a one-time pre-key. The plain message has no MAC:
under a wrong key the 32 sealed bytes are noise, no point or a point of nobody.

**Sealed sender.** Certificates are issued by the production or the staging service, by a
revoked server, embedded or by reference to an id that the library may not know. The
environment may hold the certificate of any installation, an expired one, one with a number
that has moved, or a damaged one, each different from the usual one in one respect, or
that of another device (`UnusualCertificates`; at most `MaxUnusual` envelopes use
one). The transport hands over any envelope put together from parts of those sent
(`InTransit`), to any device. The time of validation is the receiver's clock. What fails in
`sealed_sender_encrypt` after `message_encrypt` has returned is the loss of the envelope.
The other content types are refused by `sealed_sender_decrypt` and are not sent here; the
V2 envelope is in `MultiRecipient`.

**The channel.** `Channel` has no sessions, keys or certificates: messages are sent, each
is received at most once, by its addressee and under the identity pinned for its sender. A
pin changes on first use, when the user accepts an identity, and when a device starts over.
`Session` maps `sent` to `net`, `received` to `delivered` with one more for each replay, and
`pins` to `known_keys`; every other step is a stutter or a `Pin`. The same mapping serves
`SealedSender`, where the address under which a message is received comes from the
certificate.

**Incremental MACs.** Data is its length and the first position at which the receiver's
copy differs; the MAC of a prefix is its length and whether the prefix is the sender's. The
two sides cut the data independently, with empty pieces too. The transport may cut, extend
or change the data, and deliver any list of the sender's MACs and damaged ones, up to
`MaxExtraMacs` longer than the list that was sent. The receiver stops at its first error.
Two facts about this code are part of the properties:

* `finalize` always adds a MAC, also when the data ends with a chunk. Data that fills the
  planned number of chunks exactly therefore has one MAC more than planned
  (`DigestsNearTarget`): 16 MiB with SHA-256 make 257 MACs, 8224 bytes, where
  `TARGET_TOTAL_DIGEST_SIZE` is 8192. The test `total_digest_size_is_never_too_big` counts
  the chunks only.
* Data that was cut at the end of a chunk passes `Validating::finalize` if the list of MACs
  was rewritten to match, with that chunk's MAC in the place of the last: `[m2, m2]` for the
  first two bytes of three in chunks of two. `ValidatedIsSent` says that this is all a
  rewritten list can do; with the list as it was sent, `finalize` accepts only all the data.

**Multi-recipient messages.** The arguments of the call and the contents of the stores are
chosen in the initial state; the identity store may hold an old identity or none, a session
may have been archived or have a registration id out of range. The only real concurrency of
the library is here: `task` holds one chunk per thread, and `process_chunk(c)` handles one
group of destinations. The message is a sequence of fields, so that a wrong count or a wrong
`has_more` bit shifts what the parser reads. A field of another kind than the parser expects
counts as an encoding error, where the code might also misread its bytes; it does not
occur in the model as it stands. `pc` is `"failed"` when the call returned an error and
`"rejected"` when the parser did. An account that is listed in several places keeps the first of
its parts, as in `parse`; its devices then all depend on the pin that part was made with.

## Runs

All limits are small so that they are reached; the limits of the code only differ in size.

| run | bounds | shows | distinct states |
|---|---|---|---|
| `Session_limits` | limits 1, 6 messages, 2 initiations, a reinstallation | limits under eviction, forward secrecy, no replay, agreement of the two ends; nothing to or from an identity that is not the pinned one | 172 730 |
| `Session_faults` | one failing store call, archive of 1, 3 initiations, 4 messages, one-time pre-key | retries neither reuse keys nor deliver twice; a session pushed out of the archive does not come back; the one-time pre-key serves one session; `Channel` is implemented | 86 203 |
| `Session_delivery` | limits out of reach, 4 messages, 2 initiations, archiving, clock | everything stays decryptable, one session per base key, no stale sending | 40 828 |
| `Session_linked` | devices of one account, no forward jumps allowed, one one-time pre-key, 4 messages, fair delivery | their sessions are exempt from the jump limit, and every message is eventually decrypted | 8 187 |
| `SenderKeys_limits` | limits 1, 4 messages, 2 chains, 2 installations | limits, no rewind, no history, at most once per installation | 1 257 925 |
| `SenderKeys_delivery` | 2 states, 2 chains, 5 messages, counter maximum 3, 1 skipped key | whatever is within reach stays decryptable (with a reach of one index more the property fails), colliding chain ids leave one state, no key is used twice at the end of the counter | 120 133 |
| `SealedPQXDH_handshake` | 2 handshakes, 1 damaged, 1 reinstallation, one-time pre-key | agreement, and completion of what was not damaged | 17 699 |
| `SealedPQXDH_sessions` | 2 handshakes, 4 messages | the sessions work from both ends, in any order of delivery | 5 280 |
| `MultiRecipient_fanout` | every list of up to 4 of 4 addresses, 1 excluded recipient, 1 to 3 threads, chunks of at least 1, one flaw besides a name that is no service id | the result is that of a sequential loop; routing as listed; who can open the message | 394 512 |
| `SealedRingXKEM_handshakes` | 2 handshakes of either variant or plain XHMQV messages, 1 damaged, 1 reinstallation, up to 2 foreign parts in a bundle, one-time pre-key | agreement, completion, equal session keys mean equal runs, the sessions fit | 409 467 |
| `SealedSender_certified` | 3 devices, 3 messages, 1 initiation, 1 reinstallation, 1 unusual certificate, 1 moved number, clock | what is accepted is certified, records belong to their address, valid messages stay decryptable; `Channel` is implemented | 342 500 |
| `IncrementalMac_validate` | data up to 7 bytes, 2 extra, chunks of 2 to 3, 2 chunks planned, any list of up to one MAC more than sent | MACs against the reference, their number, validated bytes are the sender's, intact data is accepted | 239 130 |

Why the bounds are enough: two initiations are needed for simultaneous initiation and
three to push a session out of an archive of one; four messages cover two changes of
direction with one message late in each direction; six messages, with one receiver chain
per session, cover the eviction of a chain and the late message on it; four destinations
over two accounts make accounts with adjacent and with separate devices, chunks of
different sizes, and, with the flaw and the bad name, errors in two chunks at once. Two RingXKEM handshakes
and one reinstallation give bundles of two installations and two messages whose parts can
be exchanged; two foreign parts are a signed pre-key with the key that verifies it, or two
keys that nothing signs. Three devices are needed for an envelope that reaches a device other than its
addressee with a certificate that is not its sender's. Seven bytes are one more than the
largest data that two chunks of three hold, so all three cases of the chunk size, data that
fills the planned chunks exactly and data with more chunks than planned occur; up to four
MACs are sent, and a list that arrives may have each of them at any place. Every run may stop when
its bounds are exhausted, so deadlock is not checked: the library has no state in which it
must go on.

Two type invariants are checked, those of `Session` and `SenderKeys`, on whose values the
other modules build; the records and the sets of messages that those modules add are
described where their variables are declared.

**Fairness.** `FairSpec` assumes that a ciphertext which can be decrypted is not ignored
for ever. The library has no scheduler; the assumption is on the transport, which offers a
message until it is acknowledged, and on the application, which calls `message_decrypt`.
Since receiving a ciphertext disables receiving it again, weak fairness of receiving it is
the formula `[]<>~Receivable`. Nobody is assumed to send, to answer or to start a session.

## Proofs

Every theorem below holds for every set of devices, members, keys and ids, every value of
the limits and every bound. The assumptions are those of the modules: limits and bounds
are natural numbers, those on receiver chains, on the archive and on group states
positive; and `None` is not a key, an id, a number, a session or a pending pre-key message
(`NoneAssumption`, `NoSessionAssumption`, `SealedSenderAssumption`), as an `Option`
distinguishes them; the least chunk size and the number of chunks aimed at are positive
(`ChunkAssumption`). The theorems on sealed sender have one hypothesis, `~Linked`, explained
below. The inductive invariants also hold in the state spaces of the runs of their modules (checked
with TLC; `OneSecret` there ranges over the secrets in use).

| module | theorems (`Spec => []P` unless said otherwise) |
|---|---|
| `SessionProofs` | `TypeOK`, `LimitsRespected`, `BaseKeysUnique` |
| `SessionAgreementProofs` | `NoKeyReuse`, `AtMostOnce`, `ForwardSecrecy`, `RatchetAgreement`, `OneTimePreKeyOnce`; the action properties `IdentityPinned`, `NoStaleSend`; the refinement `ImplementsChannel` |
| `SenderKeysProofs` | `TypeOK`, `GroupLimitsRespected`, `GroupNoKeyReuse`, `AtMostOncePerInstall`, `NoHistory`, `GroupAlwaysDecryptable`; the action property `NoRewind` |
| `SealedPQXDHProofs` | `HandshakeAgreement`, `HandshakeCompletes` |
| `SealedRingXKEMProofs` | `RingAgreement`, `SessionKeyBindsRun`, `RingCompletes`, `RingSessionsAgree` |
| `SealedSenderProofs` | `AcceptedIsCertified`, `RecordsOfSender`; `SealedSpec => Spec`, and with it `ImplementsChannel` |
| `MultiRecipientProofs` | `SameErrorAsSequential` |
| `IncrementalMacProofs` | `MacsOfPrefixes`, `DigestsNearTarget`, `ValidatedIsSent`, `IntactAccepted` |

**Types and limits** (`SessionProofs`). `LimitsRespected` is not inductive: that a step
keeps the number of skipped keys within its limit needs the type of the chain, that its
set of keys is finite, and the same for every session in the archive, since any of them
may be promoted. So the limits are stated as sets of well-formed values (`GoodChain`,
`GoodSession`, `GoodRecord`), and the invariant is

    Inv == TypeOK /\ GoodSessions /\ IsFiniteSet(net)

One lemma per operator of `SessionState` shows that it stays in these sets, and one lemma
per action that it preserves `Inv`. Three facts carry the argument: `NewestBound`
(the newest `n` of a finite set of indices are at most `n`),
`AddChainType` (the added chain has a ratchet key that no other chain of the session has,
and the oldest one goes), and `FirstIsLeast` (the first matching session exists; natural
numbers are well-founded). The module also says once what each action does to the
variables it writes, failing store calls included, for the parts below.

**Steps** (`SessionProofs`, third part). An action of `Session` branches on what the record
holds and on how many store calls succeed. `Step` is the disjunction of the few things
this can amount to for the invariants: a session is started, a ciphertext is sent or
received on a session, a device starts over, or nothing happens to the sessions (`Quiet`:
the archive is rearranged, sessions are dropped, identities change). Every action is a
`Step`; each part of the invariant below is then shown to be preserved by each kind of
step.

**The invariant of sessions** has four layers, each proved with the help of those before
it:

* `Known`: every key in a session or a ciphertext was generated already, so a new key pair
  is new everywhere; a session's secret names its base key and the KEM key it was
  encapsulated to; the base key of every session a device responded in is marked as seen.
  `BaseKeysUnique` is part of it.
* `Chains`: a root key belongs to one pair of devices, a chain key to one sender, and the
  sender's counter is past all that it sent on the chain; a receiver chain is that of a
  ciphertext of the peer; a base key stands for one secret. A ratchet step adds a new key
  pair to the path of the root key, so a chain never occurs twice. This gives
  `NoKeyReuse`.
* `Delivery`: whatever session is kept by the receiver of a delivered ciphertext has
  ratcheted past its chain or has used up its index there (`ReceiversPast`); and if the
  ciphertext's base key is gone with its session, it stays marked (`DeliveredSeen`), so no
  repeated pre-key message creates the session again. This is what makes `AtMostOnce` true
  when the archive is full and when the chain was evicted. `ForwardSecrecy` follows with
  `SendersPast`.
* `Agreement`: for the two ends of a base key, the one that is not behind is exactly one
  `create_chain` ahead of the other (`OneApart`), and an initiator has only ratcheted
  after the responder sent something. `RatchetAgreement` is its consequence.

Three more parts serve single theorems. `NoStaleSend` needs that a current session without
a pending pre-key message has received something (`CurrentAnswered`); the archive may hold
others, which is why the statement is about the current one. `OneTimePreKeyOnce` needs
which pre-key and which device the messages of a base key name (`PreKeyNames`) and that a
used pre-key is gone from the store and its session is the only one that used it
(`PreKeyUses`). The session is stored last, after the pre-key was removed, so a failing
store call may lose a pre-key but never leaves it beside its session.

**The refinement.** `ChannelStep` shows that each step of `Session` is, under the mapping,
a `Send`, a `Receive`, a `Pin`, a `StartOver` or a stutter of `Channel`; that a received
message was not received before is `AtMostOnce`, and that the pin is right is what
`IdentityPinned` rests on.

**Groups** (`SenderKeysProofs`). Chain ids collide, so nothing follows from a chain id
alone. `GroupInv` says that every chain was announced in a distribution message and always
under the same chain id (`ChainsAnnounced`); then two states of a record, which differ in
their chain ids, are not of one chain, and a key used up in one state is in no other.
`SenderAhead` gives `GroupNoKeyReuse`: at the maximum the counter does not move and
nothing is sent. `StatesInstalled` and `DeliveredConsumed` relate states and deliveries to
the latest installation of their chain, and give `NoHistory` and `AtMostOncePerInstall`.
`KeysKept` is the converse of the latter: a key that a state no longer has, since the
installation and in reach of the limits, was used for a delivery. It rests on `NewestKeeps`
(of the indices below `u`, the newest `n` include all from `u - n` on), and gives
`GroupAlwaysDecryptable` for all limits: a group message is refused only if it was decrypted,
lies before the installation or is out of reach.

**Sealed PQXDH** (`SealedPQXDHProofs`). Damage leaves a handshake's MAC alone; `SealedInv`
says that this MAC is over the message of some run of an initiator, under a key that
records all agreements of that run. A responder whose own derivation gives this key has
the same identities, pre-keys and KEM key, so the runs agree.

**RingXKEM and XHMQV** (`SealedRingXKEMProofs`). The same argument, for a MAC key whose
chain key records both halves of the bundle. The X3DH variant takes the initiator's
identity from the agreement, the XHMQV variant from under the seal. The plain XHMQV
message has no MAC; there the session key itself determines the run (`Binds`), because the
hashed coefficients have all keys in them and every run has its own ephemeral key
(`NewEphemerals`). That the sum of points of the sender is the sum of scalars of the
receiver (`SendSecrets`, `RecvSecrets`), and that each signed pre-key of an accepted bundle
is of the installation whose key verified it (`KeysOfOne`), gives `RingCompletes`. `SessionsStarted` says that
a session is one end of a completed run; two sessions of one key are ends of one run,
hence `RingSessionsAgree`.

**Sealed sender** (`SealedSenderProofs`). Under the seal the address of a message comes from
the certificate, so the steps of `Session`, whose address is that of the sender, have to be
shown to be the only ones. `Sealed` is added to the invariant of sessions: each identity key
belongs to one device, and the sessions of an address to the identity keys of that device
(`Owned`); an envelope that was sent holds a ciphertext that was released, sealed by the
identity that sent it for the one it is encrypted for (`GoodEnvelope`); and what was
accepted is as certified (`AcceptedOk`). Parts of different envelopes only fit together when
these identities agree. Then every step of `SealedSpec` is one of `Session` or leaves its variables
alone (`SealedSenderIsSession`), and every theorem on sessions holds for sealed sender too.
The hypothesis `~Linked` says that devices do not share an identity key. Linked devices of
one account do, and a certificate binds a message to that key: one device of an account
that used the certificate of another would not be noticed, by design.

**Worker threads** (`MultiRecipientProofs`). The groups of destinations are consecutive
segments of the list (`GroupsInOrder`), the chunks consecutive segments of the groups
(`ChunksPartition`). `FanOut` says that a thread that has ended without an error has seen
none in its chunk, and one that has failed has the first of its chunk, whatever the others
did; so the first error in the order of the chunks, which `join` returns, is the first in the
order of the list (`JoinIsSequential`), although a thread with a later chunk may have failed
long before.

**Incremental MACs** (`IncrementalMacProofs`). What `update` does to an `Incremental` is a
loop over pieces; the module states its result in closed form (the MACs of the multiples of
the chunk size that the new bytes reach) and shows by well-founded induction on the number
of pieces that the loop computes it (`UpdateReaches`); likewise for the comparison with the
expected MACs (`CompareIs`). `MacInv` then says where each side stands: the sender has
produced the MACs of its whole chunks, the receiver has popped as many of the arrived ones as
it reports chunks, and those equal its own. `ValidatedIsSent` holds for every list that
consists of the sender's MACs and damaged ones: a MAC that equals the receiver's own is one
of the sender's, for the same length, so the receiver's prefix is the sender's
(`MatchedIsSent`); and when `finalize` accepts, the whole list is that of the received prefix,
whose length is one that the sender made a MAC of (`LastIsAll`).

**Only model-checked.**

* Liveness (`FairSpec`), which the prover does not support.
* `AlwaysDecryptable`, `SealedDecryptable` and `SealedAlwaysDecryptable`: they hold in
  instances whose limits are out of reach, and are not statements about all limits.
* `RoutedAsListed` and `OpenedByThoseSealedTo` of `MultiRecipient`: they are about what the
  parser reads back from the concatenation of all parts, each of its own length, which needs
  induction over the list.

## Not modelled yet, and the plan

1. Theorems: `AlwaysDecryptable` relative to the limits, as for groups; the parser of
   `MultiRecipient`.
2. A group channel that `SenderKeys` implements, and several senders per group.
3. Rotation of signed and Kyber pre-keys within one installation. A reinstallation, which
   replaces all of them at once, covers messages made for keys that are gone.

Not planned: primitives (`kem`, `crypto`, `pure_falcon.rs`, `rust/core/src/curve`,
`rust/crypto`), which are symbolic everywhere; byte layouts of messages and addresses, which
are pure conversions; `fingerprint.rs`, whose content is a hash; `pqxdh.rs`, which repeats
the key agreement of `ratchet.rs` in typed form; the ProVerif models, which state some of
the same properties against an active attacker. One hazard has no property, for the reason
given in `PROJECT.json`: the repeated sealed handshake, which the library leaves to its
caller. The 32-bit index of a chain is a natural number here: 2^32 messages on one chain are
out of reach, and nothing in the repository says what happens there.
