--------------------------- MODULE IncrementalMac ---------------------------
(***************************************************************************)
(* Incremental MACs of a long attachment                                   *)
(* (rust/protocol/src/incremental_mac.rs).  The sender feeds its data to   *)
(* an Incremental and collects the MAC of every whole chunk and, from      *)
(* finalize, that of all of it.  The receiver has the data and the MACs    *)
(* over a transport that may change, cut and extend the data, and deliver  *)
(* any list of the sender's MACs and damaged ones in place of the sender's *)
(* list.  It feeds the data to a Validating and uses the bytes that it     *)
(* reports as validated.  Each side cuts the data as it likes.             *)
(*                                                                         *)
(* Data is abstracted to its length and the first position at which the    *)
(* receiver's differs from the sender's; the MAC of a prefix is its length *)
(* and whether it is one of the sender's data.                             *)
(***************************************************************************)
EXTENDS Naturals, Sequences, SequencesExt

CONSTANTS
    MINIMUM_CHUNK_SIZE,
    MAXIMUM_CHUNK_SIZE,
    TARGET_CHUNK_COUNT,   \* TARGET_TOTAL_DIGEST_SIZE / D::OutputSize
    MaxData,              \* bound: length of the data
    MaxExtra,             \* bound: bytes that the transport adds
    MaxExtraMacs          \* bound: MACs that arrive beyond as many as were sent

(* 64 KiB, 2 MiB and 256 or 128 in the code.                               *)
ASSUME ChunkAssumption ==
    /\ MINIMUM_CHUNK_SIZE \in Nat \ {0}
    /\ MAXIMUM_CHUNK_SIZE \in Nat
    /\ MINIMUM_CHUNK_SIZE <= MAXIMUM_CHUNK_SIZE
    /\ TARGET_CHUNK_COUNT \in Nat \ {0}

ASSUME DataAssumption == MaxData \in Nat /\ MaxExtra \in Nat /\ MaxExtraMacs \in Nat

VARIABLES
    chunk_size,   \* of both sides
    size,         \* length of the sender's data
    produced,     \* the sender's MACs so far
    producer,     \* the sender's Incremental
    received,     \* length of the receiver's data
    differs,      \* first position where it differs from the sender's
    validator,    \* the receiver's Incremental
    arrived,      \* the MACs that reached the receiver
    expected,     \* the MACs that the receiver still expects, the next one first
    validated,    \* bytes that the receiver was told are validated
    phase         \* "produce", "validate", "done" or "error"

vars == << chunk_size, size, produced, producer, received, differs, validator,
           arrived, expected, validated, phase >>

-----------------------------------------------------------------------------
div_ceil(a, b) == (a + b - 1) \div b

calculate_chunk_size_floor(data_size) ==
    IF data_size < TARGET_CHUNK_COUNT * MINIMUM_CHUNK_SIZE THEN MINIMUM_CHUNK_SIZE
    ELSE IF data_size < TARGET_CHUNK_COUNT * MAXIMUM_CHUNK_SIZE
      THEN data_size \div TARGET_CHUNK_COUNT
    ELSE MAXIMUM_CHUNK_SIZE
calculate_chunk_size(data_size) ==
    IF data_size < TARGET_CHUNK_COUNT * MINIMUM_CHUNK_SIZE THEN MINIMUM_CHUNK_SIZE
    ELSE IF data_size < TARGET_CHUNK_COUNT * MAXIMUM_CHUNK_SIZE
      THEN div_ceil(data_size, TARGET_CHUNK_COUNT)
    ELSE MAXIMUM_CHUNK_SIZE

(* An Incremental: how many bytes its mac has taken, and how many more the *)
(* present chunk takes.                                                    *)
Incremental_new(cs) == [mac |-> 0, unused_length |-> cs]

update_chunk_no_reset(inc, cs, n) ==
    [mac |-> inc.mac + n, unused_length |-> inc.unused_length - n]
update_chunk(inc, cs, n) ==
    [mac           |-> inc.mac + n,
     unused_length |-> IF inc.unused_length - n = 0 THEN cs ELSE inc.unused_length - n]

EndsChunk(inc, n) == inc.unused_length - n = 0

Smaller(a, b) == IF a <= b THEN a ELSE b

(* The pieces that update cuts n bytes into: up to the end of the present  *)
(* chunk, then chunk by chunk.                                             *)
pieces_chunked(inc, cs, n) ==
    [i \in 1 .. div_ceil(n, cs) |-> Smaller(cs, n - (i - 1) * cs)]
pieces(inc, cs, n) ==
    LET split_point == Smaller(n, inc.unused_length)
        overflow    == n - split_point
    IN  << split_point >>
          \o [i \in 1 .. div_ceil(overflow, cs) |-> Smaller(cs, overflow - (i - 1) * cs)]

(* One piece fed to the Incremental; lengths are those of the MACs yielded.*)
Fed(acc, cs, piece) ==
    [inc     |-> update_chunk(acc.inc, cs, piece),
     lengths |-> IF EndsChunk(acc.inc, piece)
                   THEN Append(acc.lengths, acc.inc.mac + piece) ELSE acc.lengths]

(* update: the Incremental afterwards and the MACs yielded on the way.     *)
update(inc, cs, n) ==
    LET ps == pieces(inc, cs, n)
        after[i \in 0 .. Len(ps)] ==
            IF i = 0 THEN [inc |-> inc, lengths |-> << >>] ELSE Fed(after[i - 1], cs, ps[i])
    IN  after[Len(ps)]

pending_bytes_size(inc, cs) == cs - inc.unused_length

-----------------------------------------------------------------------------
(* The sender's MAC of a prefix, and the receiver's: intact unless it      *)
(* reaches the first difference.                                           *)
SenderMac(n) == [length |-> n, intact |-> TRUE]
ReceiverMac(n) == [length |-> n, intact |-> n < differs]

SenderMacs(lengths) == [i \in DOMAIN lengths |-> SenderMac(lengths[i])]
ReceiverMacs(lengths) == [i \in DOMAIN lengths |-> ReceiverMac(lengths[i])]

Init ==
    /\ size \in 0 .. MaxData
    /\ chunk_size = calculate_chunk_size(size)
    /\ produced = << >>
    /\ producer = Incremental_new(chunk_size)
    /\ received = 0
    /\ differs = 0
    /\ validator = Incremental_new(chunk_size)
    /\ arrived = << >>
    /\ expected = << >>
    /\ validated = 0
    /\ phase = "produce"

(* The sender calls update with the next n bytes, none too.                *)
produce(n) ==
    LET u == update(producer, chunk_size, n)
    IN  /\ phase = "produce"
        /\ producer.mac + n <= size
        /\ producer' = u.inc
        /\ produced' = produced \o SenderMacs(u.lengths)
        /\ UNCHANGED << chunk_size, size, received, differs, validator, arrived,
                        expected, validated, phase >>

(* A MAC that the sender never made: no prefix of the receiver's data has  *)
(* it, since an empty prefix has no difference.                            *)
Damaged == [length |-> 0, intact |-> FALSE]

(* The lists that may arrive: MACs dropped, repeated, swapped, replaced by *)
(* one another and damaged.  Only the sender, which has the key, can make  *)
(* a MAC of anything else.                                                 *)
Arriving(macs) == SeqOf(ToSet(macs) \cup {Damaged}, Len(macs) + MaxExtraMacs)

(* The sender calls finalize; the data and the MACs reach the receiver.    *)
finalize ==
    LET macs == Append(produced, SenderMac(producer.mac))
    IN  /\ phase = "produce"
        /\ producer.mac = size
        /\ produced' = macs
        /\ received' \in 0 .. size + MaxExtra
        /\ differs' \in 1 .. size + 1
        /\ arrived' \in Arriving(macs)
        /\ expected' = arrived'
        /\ phase' = "validate"
        /\ UNCHANGED << chunk_size, size, producer, validator, validated >>

(* Each MAC is compared with the next expected one; a mismatch leaves that *)
(* one in place, and the comparison goes on with the MACs that follow.     *)
Compared(acc, mac) ==
    IF acc.left # << >> /\ Head(acc.left) = mac
      THEN [left |-> Tail(acc.left), chunks |-> acc.chunks + 1, ok |-> acc.ok]
      ELSE [left |-> acc.left, chunks |-> acc.chunks, ok |-> FALSE]

Compare(left, macs) ==
    LET after[i \in 0 .. Len(macs)] ==
            IF i = 0 THEN [left |-> left, chunks |-> 0, ok |-> TRUE]
                     ELSE Compared(after[i - 1], macs[i])
    IN  after[Len(macs)]

(* The receiver calls Validating::update with the next n bytes; it stops   *)
(* at the first error.                                                     *)
validating_update(n) ==
    LET u == update(validator, chunk_size, n)
        c == Compare(expected, ReceiverMacs(u.lengths))
    IN  /\ phase = "validate"
        /\ validator.mac + n <= received
        /\ validator' = u.inc
        /\ expected' = c.left
        /\ validated' = IF c.ok THEN validated + c.chunks * chunk_size ELSE validated
        /\ phase' = IF c.ok THEN "validate" ELSE "error"
        /\ UNCHANGED << chunk_size, size, produced, producer, received, differs,
                        arrived >>

(* Validating::finalize: one MAC is left, and it is that of all the data.  *)
OneLeft_or_more(left, mac) == left # << >> /\ left[Len(left)] = mac
OneLeft(left, mac) == left = << mac >>

validating_finalize ==
    LET ok == OneLeft(expected, ReceiverMac(validator.mac))
    IN  /\ phase = "validate"
        /\ validator.mac = received
        /\ phase' = IF ok THEN "done" ELSE "error"
        /\ validated' = IF ok THEN validated + pending_bytes_size(validator, chunk_size)
                              ELSE validated
        /\ UNCHANGED << chunk_size, size, produced, producer, received, differs,
                        validator, arrived, expected >>

Next ==
    \/ \E n \in 0 .. MaxData : produce(n)
    \/ finalize
    \/ \E n \in 0 .. MaxData + MaxExtra : validating_update(n)
    \/ validating_finalize

Spec == Init /\ [][Next]_vars

-----------------------------------------------------------------------------
(* Properties.                                                             *)

(* The MACs do not depend on how the data was cut: those of the prefixes   *)
(* that are whole chunks, then that of all the data.  On both sides the    *)
(* room left in the present chunk is what update_chunk asserts it to be.   *)
ReferenceMacs(n) == [i \in 1 .. n \div chunk_size |-> SenderMac(i * chunk_size)]
MacsOfPrefixes ==
    /\ \A inc \in {producer, validator} :
          inc.unused_length = chunk_size - (inc.mac % chunk_size)
    /\ produced = IF phase = "produce" THEN ReferenceMacs(producer.mac)
                  ELSE Append(ReferenceMacs(size), SenderMac(size))

(* Chunks are never smaller or larger than allowed, and large enough that  *)
(* the MACs number what was planned, or one more: finalize adds its own    *)
(* MAC also when the data fills exactly the planned number of chunks.      *)
DigestsNearTarget ==
    /\ chunk_size \in MINIMUM_CHUNK_SIZE .. MAXIMUM_CHUNK_SIZE
    /\ size <= TARGET_CHUNK_COUNT * MAXIMUM_CHUNK_SIZE =>
          Len(produced) <= IF size = TARGET_CHUNK_COUNT * chunk_size
                             THEN TARGET_CHUNK_COUNT + 1 ELSE TARGET_CHUNK_COUNT

(* What the receiver was told to be validated is the sender's data, up to  *)
(* that byte, whatever happened to the data and to the list of MACs.  When *)
(* finalize accepts, that is all that was received, and the list is the    *)
(* one that a sender of just that much would have made: with the list as   *)
(* it was sent it is all of the sender's data, and data cut at the end of  *)
(* a chunk is accepted with that chunk's MAC in the place of the last.     *)
ValidatedIsSent ==
    /\ validated <= validator.mac
    /\ validated > 0 => validated < differs /\ validated <= size
    /\ phase = "done" =>
          /\ validated = received /\ received < differs
          /\ received \in {size} \cup {i * chunk_size : i \in 1 .. size \div chunk_size}
          /\ arrived = Append(ReferenceMacs(received), SenderMac(received))
          /\ arrived = produced => received = size

(* The transport changed nothing: no error, however the two sides cut the  *)
(* data, and every whole chunk is reported as soon as it was fed.          *)
IntactAccepted ==
    (phase # "produce" /\ arrived = produced /\ received = size /\ differs > size)
    => /\ phase # "error"
       /\ phase = "validate" =>
             validated = (validator.mac \div chunk_size) * chunk_size
=============================================================================
