---------------------------- MODULE StrictDecoder ----------------------------
(* What simd::Decoder promises, call by call: the answer of every call is    *)
(* the reference's answer for the bytes given so far, wherever the caller    *)
(* cut the stream into pieces.                                               *)
(*                                                                           *)
(* One session is one stream, from a fresh decoder to a successful finish,   *)
(* which resets the decoder.  Decoded bytes are written as the payload       *)
(* characters they stand for: a block is BlockChars characters for 13 bytes. *)
EXTENDS SimdOracle

CONSTANTS
    Streams,        \* the streams a caller may have
    LaterStreams,   \* those it may have after a successful finish
    ChunkSizes      \* the lengths of the pieces it gives to decode; it may
                    \* always give the rest of the stream

VARIABLES
    stream,     \* the whole stream of this session
    fed,        \* how many of its bytes the calls that returned were given
    out,        \* what those calls delivered
    ret,        \* the answer of the last call
    ended       \* finish succeeded

vars == <<stream, fed, out, ret, ended>>

BufferTooSmall == Error("BufferTooSmall", 0)
Ops == {"none", "decode", "empty", "finish"}
Answer(op, err) == [op |-> op, err |-> err]

WholeBlocks(payload) ==
    SubSeq(payload, 1, Len(payload) - (Len(payload) % BlockChars))

\* What the reference says of the first n bytes.
VerdictOn(n) == Verdict(SubSeq(stream, 1, n))

Chunks == {n \in 1 .. Len(stream) - fed :
              n \in ChunkSizes \/ n = Len(stream) - fed}

Init ==
    /\ stream \in Streams
    /\ fed = 0 /\ out = << >> /\ ended = FALSE
    /\ ret = Answer("none", NoError)

\* decode, with the next n bytes.  A call with no bytes finds no error, not
\* even one already reported.
Decode(n) ==
    LET v == VerdictOn(fed + n)
    IN  /\ ~ended
        /\ fed' = fed + n
        /\ out' = IF v.err = NoError THEN WholeBlocks(v.payload) ELSE out
        /\ ret' = Answer("decode", v.err)
        /\ UNCHANGED <<stream, ended>>

DecodeNothing ==
    /\ ~ended
    /\ ret' = Answer("empty", NoError)
    /\ UNCHANGED <<stream, fed, out, ended>>

\* A short buffer changes nothing, and the call can be made again.
TooSmall ==
    /\ ~ended
    /\ \E op \in {"decode", "finish"} : ret' = Answer(op, BufferTooSmall)
    /\ UNCHANGED <<stream, fed, out, ended>>

\* finish_slice: rules 1 to 5 first, then rule 6.  An invalid length leaves
\* the decoder as it was.
Finish ==
    LET v == VerdictOn(fed)
        err == IF v.err # NoError THEN v.err
               ELSE IF LengthValid(v.payload) THEN NoError ELSE InvalidLength
    IN  /\ ~ended
        /\ ret' = Answer("finish", err)
        /\ IF err = NoError
           THEN out' = v.payload /\ ended' = TRUE
           ELSE UNCHANGED <<out, ended>>
        /\ UNCHANGED <<stream, fed>>

\* The decoder that finish reset is used for another stream.
Begin ==
    /\ ended
    /\ stream' \in LaterStreams
    /\ fed' = 0 /\ out' = << >> /\ ended' = FALSE
    /\ ret' = Answer("none", NoError)

Next ==
    \/ \E n \in Chunks : Decode(n)
    \/ DecodeNothing
    \/ TooSmall
    \/ Finish
    \/ Begin

Spec == Init /\ [][Next]_vars
=============================================================================
