---------------------------- MODULE HenkeEncoder ----------------------------
(* The streaming encoder of Henke's format (codec.rs, Encoder).  A call     *)
(* gives it a chunk of bytes, and then runs a byte at a time.  Values are   *)
(* the code's own: queue is the bits not written yet, the oldest one lowest. *)
(*                                                                           *)
(* queue is below 2^nbits (EncQueueBounded), so the code's `queue | byte <<  *)
(* nbits` is a sum, and no u32 overflows.  A call whose buffer is too small  *)
(* changes nothing, and is not an action.                                    *)
EXTENDS HenkeReference

CONSTANTS
    Chunks,     \* what one call may be given
    MaxBytes    \* bound: bytes given in a session

ASSUME EncoderAssumption == Chunks \subseteq Seq(Byte) /\ MaxBytes \in Nat

VARIABLES
    bytes,      \* all the bytes given in this session, this call's included
    chunk,      \* the bytes of the call in progress
    i,          \* how many of them it has read
    held,       \* nbits when it began
    n,          \* characters it has written
    queue, nbits,
    text,       \* the characters written in this session
    pc          \* "idle", "encode" or "ended" (finish returned)

encVars == <<bytes, chunk, i, held, n, queue, nbits, text, pc>>

\* Definitions named ...Bug are not part of the model: each is the definition
\* after it with a plausible mistake, which a property must notice.

\* Upper bound on what a call of size bytes writes, from bits pending ones.
EncodeLenBug(bits, size) == 2 * ((8 * size) \div 13)

EncodeLen(bits, size) == 2 * ((bits + 8 * size) \div 13)

\* A short queue is one character, whatever its value.
FinishLenBug(q, bits) == IF bits = 0 THEN 0 ELSE IF bits > 7 THEN 2 ELSE 1

FinishLen(q, bits) ==
    IF bits = 0 THEN 0 ELSE IF bits > 7 \/ q > 90 THEN 2 ELSE 1

EncInit ==
    /\ bytes = << >> /\ text = << >> /\ chunk = << >>
    /\ i = 0 /\ held = 0 /\ n = 0
    /\ queue = 0 /\ nbits = 0
    /\ pc = "idle"

----------------------------------------------------------------------------
\* encode_slice and encode, with a chunk.
Encode(c) ==
    /\ pc = "idle" /\ Len(bytes) + Len(c) <= MaxBytes
    /\ bytes' = bytes \o c
    /\ chunk' = c /\ i' = 0 /\ held' = nbits /\ n' = 0
    /\ pc' = "encode"
    /\ UNCHANGED <<queue, nbits, text>>

\* The queue with the next byte.
Loaded == queue + chunk[i + 1] * 2^nbits

NextByte ==
    /\ pc = "encode" /\ i < Len(chunk)
    /\ i' = i + 1
    /\ UNCHANGED <<bytes, chunk, held, pc>>

\* The byte does not complete a group.
Load ==
    /\ NextByte /\ nbits + 8 <= 13
    /\ queue' = Loaded /\ nbits' = nbits + 8
    /\ UNCHANGED <<n, text>>

\* A group of the low 13 bits, or of 14 when these are at most 88.
TakeBug ==
    LET bits == GroupBits(Loaded)
        val  == Loaded % 2^bits
    IN  /\ NextByte /\ nbits + 8 > 13
        /\ queue' = Loaded \div 2^13 /\ nbits' = nbits + 8 - bits
        /\ text' = text \o PairOf(val) /\ n' = n + 2

Take ==
    LET bits == GroupBits(Loaded)
        val  == Loaded % 2^bits
    IN  /\ NextByte /\ nbits + 8 > 13
        /\ queue' = Loaded \div 2^bits /\ nbits' = nbits + 8 - bits
        /\ text' = text \o PairOf(val) /\ n' = n + 2

EncReturn ==
    /\ pc = "encode" /\ i = Len(chunk)
    /\ chunk' = << >> /\ i' = 0 /\ held' = 0 /\ n' = 0
    /\ pc' = "idle"
    /\ UNCHANGED <<bytes, queue, nbits, text>>

\* The last characters are written, and the encoder left as it was.
EncFinishBug ==
    /\ pc = "idle"
    /\ text' = text \o SubSeq(PairOf(queue), 1, FinishLen(queue, nbits))
    /\ pc' = "ended"
    /\ UNCHANGED <<bytes, chunk, i, held, n, queue, nbits>>

\* finish and finish_slice: 0 to 2 characters, and the encoder is reset.
EncFinish ==
    /\ pc = "idle"
    /\ text' = text \o SubSeq(PairOf(queue), 1, FinishLen(queue, nbits))
    /\ queue' = 0 /\ nbits' = 0
    /\ pc' = "ended"
    /\ UNCHANGED <<bytes, chunk, i, held, n>>

\* Another session, with the encoder that finish left.
EncBegin ==
    /\ pc = "ended"
    /\ bytes' = << >> /\ text' = << >>
    /\ pc' = "idle"
    /\ UNCHANGED <<chunk, i, held, n, queue, nbits>>

EncWork ==
    \/ \E c \in Chunks : Encode(c)
    \/ Load \/ Take \/ EncReturn
    \/ EncFinish

EncNext == EncWork \/ EncBegin

EncSpec == EncInit /\ [][EncNext]_encVars

----------------------------------------------------------------------------
\* Properties.

\* Every variable keeps its type: the characters are indices of ENCTAB.
EncTypeOK ==
    /\ bytes \in Seq(Byte) /\ Len(bytes) <= MaxBytes
    /\ chunk \in Seq(Byte) /\ i \in 0 .. Len(chunk)
    /\ held \in Nat /\ n \in Nat
    /\ queue \in Nat /\ nbits \in Nat
    /\ text \in Seq(Char)
    /\ pc \in {"idle", "encode", "ended"}

\* Between two bytes the queue is at most 13 bits, so that it never has more
\* than 21 and the C interface may keep it in its struct: the comment of
\* encode_uninit bounds its output by this.
EncQueueBounded == nbits <= 13 /\ queue < 2^nbits

\* Bytes of the session read so far.
EncConsumed == Len(bytes) - (Len(chunk) - i)

\* A call writes no more than encode_size_hint of its chunk, whatever was
\* pending, nor than the encode_len that the C interface makes a slice of.
EncodeFits == n <= EncodeSizeHint(Len(chunk))
              /\ n <= EncodeLen(held, Len(chunk))

\* A whole session, its last characters included, fits in the
\* encode_size_hint of all its bytes: encode_unchecked and the one-shot
\* functions give the cores that much.
TextFits == Len(text) <= EncodeSizeHint(EncConsumed)

\* The Vec of a caller who reserved that much never grows, as the comment of
\* encode_size_hint says, although each call reserves for the worst case of
\* its chunk first, and finish two characters.
EncNeverReallocates ==
    /\ pc = "encode" /\ i = 0 =>
          Len(text) + EncodeSizeHint(Len(chunk)) <= EncodeSizeHint(Len(bytes))
    /\ pc = "idle" => Len(text) + 2 <= EncodeSizeHint(Len(bytes))
    /\ TextFits

\* Between calls, the encoder is where the C library's is after the same
\* bytes in one call, and finish ends the text in the same way.
EncodesAsReference ==
    LET s == EncodeAll(bytes)
    IN  /\ pc = "idle" => s = [queue |-> queue, nbits |-> nbits, text |-> text]
        /\ pc = "ended" => text = EncEnd(s)

\* Every 13 bits that were read made at most two characters.
EncAccounted ==
    /\ pc \in {"idle", "encode"} =>
          /\ 13 * Len(text) + 2 * nbits <= 16 * EncConsumed
    /\ pc = "encode" =>
          /\ 13 * n + 2 * nbits <= 2 * held + 16 * i
          /\ n % 2 = 0
    /\ held <= 13
    /\ Len(chunk) <= Len(bytes)
    /\ pc # "encode" => chunk = << >> /\ n = 0
    /\ pc = "ended" => queue = 0 /\ nbits = 0

\* The inductive invariant.
EncIInv == EncTypeOK /\ EncQueueBounded /\ EncAccounted /\ TextFits
=============================================================================
