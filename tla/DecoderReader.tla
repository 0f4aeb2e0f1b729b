--------------------------- MODULE DecoderReader ---------------------------
(* std::io::Read over a decoder (io.rs, DecoderReader): a read pulls chunks  *)
(* from an inner reader until something is decoded, and keeps what the       *)
(* caller's buffer cannot take.                                              *)
(*                                                                           *)
(* The decoder is simd::Decoder, whose answers depend on the bytes given so  *)
(* far and not on their cuts (StrictDecoder): it is a function of the prefix *)
(* read, given by the operators below.                                       *)
EXTENDS Integers, Sequences

CONSTANTS
    BufSize,        \* BUF_SIZE: most bytes of one inner read, 8192
    BufLens,        \* the lengths of the caller's buffers
    MaxTrouble,     \* bound: interruptions and errors of the inner reader
    Decoded(_, _),  \* what decode delivers of a prefix, by its format
    Whole(_, _),    \* what decode and finish deliver of it
    Rejects(_, _),  \* decode reports an error in the prefix
    RejectsEnd(_, _)    \* finish does

VARIABLES
    format, stream, \* the inner reader's bytes: those it may give
    taken,          \* how many of them it has given
    accepted,       \* how many had been decoded when no error was known
    decoded, decodedPos,
    done, failed,
    want,           \* the length of the caller's buffer
    pc,             \* "idle", "read" (in the loop of read) or "dropped"
    got,            \* the bytes the caller has
    ret,            \* the last answer
    trouble         \* interruptions and errors so far

LesserOf(a, b) == IF a <= b THEN a ELSE b
Given(n) == SubSeq(stream, 1, n)
Added(old, new) == SubSeq(new, Len(old) + 1, Len(new))

\* new, on an inner reader.
Fresh ==
    /\ taken = 0 /\ accepted = 0
    /\ decoded = << >> /\ decodedPos = 0
    /\ done = FALSE /\ failed = FALSE
    /\ want = 0 /\ pc = "idle"
    /\ got = << >> /\ ret = "none"

----------------------------------------------------------------------------
\* Definitions named ...Bug are not part of the model: each is the definition
\* after it with a plausible mistake, which a property must notice.

\* read, with a buffer of n bytes.
Read(n) ==
    /\ pc = "idle"
    /\ want' = n
    /\ IF n = 0 THEN ret' = "empty" /\ UNCHANGED pc
                ELSE pc' = "read" /\ UNCHANGED ret
    /\ UNCHANGED <<taken, accepted, decoded, decodedPos, done, failed, got,
                   trouble>>

Return(answer) ==
    /\ pc = "read" /\ pc' = "idle"
    /\ ret' = answer
    /\ UNCHANGED <<taken, accepted, decoded, done, failed, want>>

\* What is left after a short buffer is forgotten.
ReturnDataBug ==
    LET k == LesserOf(Len(decoded) - decodedPos, want)
    IN  /\ k > 0 /\ Return("data")
        /\ got' = got \o SubSeq(decoded, decodedPos + 1, decodedPos + k)
        /\ decodedPos' = Len(decoded)
        /\ UNCHANGED trouble

ReturnData ==
    LET k == LesserOf(Len(decoded) - decodedPos, want)
    IN  /\ k > 0 /\ Return("data")
        /\ got' = got \o SubSeq(decoded, decodedPos + 1, decodedPos + k)
        /\ decodedPos' = decodedPos + k
        /\ UNCHANGED trouble

Empty == pc = "read" /\ decodedPos = Len(decoded)

ReturnInvalid ==
    /\ Empty /\ failed
    /\ Return("invalid")
    /\ UNCHANGED <<decodedPos, got, trouble>>

\* The end of the inner reader hides the error that it made known.
ReturnEofBug ==
    /\ Empty /\ done
    /\ Return("eof")
    /\ UNCHANGED <<decodedPos, got, trouble>>

ReturnEof ==
    /\ Empty /\ ~ failed /\ done
    /\ Return("eof")
    /\ UNCHANGED <<decodedPos, got, trouble>>

\* The inner reader is read: decoded is cleared first.
InnerRead ==
    /\ Empty /\ ~ failed /\ ~ done
    /\ decodedPos' = 0
    /\ UNCHANGED <<want, got>>

InTrouble == trouble < MaxTrouble /\ trouble' = trouble + 1

\* An interruption is tried again, any other error returned.
InnerFails ==
    /\ InnerRead /\ InTrouble
    /\ decoded' = << >>
    /\ \/ UNCHANGED <<pc, ret>>
       \/ pc' = "idle" /\ ret' = "io"
    /\ UNCHANGED <<taken, accepted, done, failed>>

\* A chunk that decodes to nothing is taken for the end of the stream.
InnerGivesBug(n) ==
    /\ InnerRead
    /\ taken' = taken + n /\ accepted' = taken + n
    /\ failed' = FALSE
    /\ decoded' = Added(Decoded(format, Given(taken)),
                        Decoded(format, Given(taken + n)))
    /\ IF decoded' = << >> THEN pc' = "idle" /\ ret' = "eof"
                           ELSE UNCHANGED <<pc, ret>>
    /\ UNCHANGED <<done, trouble>>

\* A chunk of n bytes is decoded.
InnerGives(n) ==
    /\ InnerRead
    /\ taken' = taken + n
    /\ failed' = Rejects(format, Given(taken + n))
    /\ IF failed'
       THEN decoded' = << >> /\ UNCHANGED accepted
       ELSE /\ decoded' = Added(Decoded(format, Given(taken)),
                                Decoded(format, Given(taken + n)))
            /\ accepted' = taken + n
    /\ UNCHANGED <<done, pc, ret, trouble>>

\* The end of the inner reader is not noted: it is read again.
InnerEndsBug ==
    /\ InnerRead
    /\ failed' = RejectsEnd(format, Given(taken))
    /\ decoded' = << >>
    /\ UNCHANGED <<taken, accepted, done, pc, ret, trouble>>

\* No more bytes: the decoder is finished, and replaced by a fresh one that
\* is never used.
InnerEnds ==
    /\ InnerRead
    /\ done' = TRUE
    /\ failed' = RejectsEnd(format, Given(taken))
    /\ decoded' = IF failed' THEN << >>
                  ELSE Added(Decoded(format, Given(taken)),
                             Whole(format, Given(taken)))
    /\ UNCHANGED <<taken, accepted, pc, ret, trouble>>

\* into_inner: whatever is decoded and not delivered is lost.
IntoInner ==
    /\ pc = "idle" /\ pc' = "dropped"
    /\ UNCHANGED <<taken, accepted, decoded, decodedPos, done, failed, want,
                   got, ret, trouble>>

\* new, on another inner reader.
New ==
    /\ pc = "dropped"
    /\ taken' = 0 /\ accepted' = 0
    /\ decoded' = << >> /\ decodedPos' = 0
    /\ done' = FALSE /\ failed' = FALSE
    /\ want' = 0 /\ pc' = "idle"
    /\ got' = << >> /\ ret' = "none"
    /\ UNCHANGED trouble

\* The chunks that the inner reader may give.
Pieces == 1 .. LesserOf(BufSize, Len(stream) - taken)

\* The steps of a call in progress.
ReaderStep ==
    \/ ReturnData \/ ReturnInvalid \/ ReturnEof
    \/ InnerFails \/ (\E n \in Pieces : InnerGives(n)) \/ InnerEnds

----------------------------------------------------------------------------
\* Properties.

\* Every variable keeps its type, and the counters their order.
ReaderTypeOK ==
    /\ taken \in 0 .. Len(stream) /\ accepted \in 0 .. taken
    /\ decoded \in Seq(Nat) /\ got \in Seq(Nat)
    /\ decodedPos \in 0 .. Len(decoded)
    /\ done \in BOOLEAN /\ failed \in BOOLEAN
    /\ want \in Nat /\ trouble \in 0 .. MaxTrouble
    /\ pc \in {"idle", "read", "dropped"}
    /\ ret \in {"none", "empty", "data", "eof", "invalid", "io"}

\* What is decoded and not delivered yet.
Rest == SubSeq(decoded, decodedPos + 1, Len(decoded))

\* All that can be delivered of what was read: a chunk that is rejected adds
\* nothing, the end of a valid stream adds what finish flushes.
Deliverable ==
    IF done /\ ~ failed THEN Whole(format, Given(taken))
    ELSE Decoded(format, Given(accepted))

\* The buffer between the two readers holds exactly what the caller does not
\* have, through short buffers, interruptions, errors and the end: nothing is
\* lost but what a rejected chunk held, and nothing comes twice.
NothingLost == got \o Rest = Deliverable

\* Ok(0) is the end of the file, for read_to_end and io::copy: it comes only
\* once the inner reader has ended, and every byte of a valid stream has been
\* delivered.
EofMeansAll ==
    ret = "eof" => /\ done /\ ~ RejectsEnd(format, Given(taken))
                   /\ got = Whole(format, Given(taken))

=============================================================================
