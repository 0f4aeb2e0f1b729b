---------------------------- MODULE CommandLine ----------------------------
(* The command-line tool base91 (base91-cli/src/main.rs), also called as     *)
(* b91enc and b91dec: from its options to its exit, through the loops that   *)
(* encode and decode its input.                                              *)
(*                                                                           *)
(* What it writes goes to a BufWriter, which may pass any part of what it    *)
(* holds to the file or the pipe on standard output (EncoderWriter has it in *)
(* detail).  A read or a write may fail, a read may be interrupted, and a    *)
(* write to a pipe that nobody reads ends the process.  The codecs are       *)
(* functions of the symbols read so far, given by the operators below.       *)
EXTENDS Integers, Sequences, LineFormat

CONSTANTS
    ReadSizes,          \* how many symbols a read may give; it may always
                        \* give the most it is asked for
    MaxMishaps,         \* bound: errors and interruptions of one session
    NoWrap,             \* the --wrap option is absent
    LineFeed,           \* the symbol of a line break
    Written(_, _, _),   \* what an encoder of a format and a width has
                        \* written for some bytes
    Ended(_, _, _),     \* what it has written after finish
    Decoded(_),         \* what the decoder has delivered of a text
    Whole(_),           \* what it has delivered after finish
    Rejects(_),         \* it reports an error in the text
    RejectsEnd(_)       \* it reports one at finish, or before

VARIABLES
    opts,       \* the name it was called by and the options
    source,     \* the whole input
    taken,      \* how much of it has been read
    work,       \* encoded text or decoded bytes not handed to output yet
    obuf,       \* the buffer of the BufWriter
    sink,       \* what standard output has
    pc,         \* "start", "read", "put" (write_all of work), "last" (the
                \* input is over), "flush", "failing", "done" (status 0),
                \* "error" (status 1) or "killed" (by SIGPIPE)
    mishaps     \* errors and interruptions so far

process == <<opts, source, taken, work, obuf, sink, pc, mishaps>>

Least(a, b) == IF a <= b THEN a ELSE b
Most(a, b) == IF a >= b THEN a ELSE b
Start(s, n) == SubSeq(s, 1, n)
Rest(s, n) == SubSeq(s, n + 1, Len(s))
Added(old, new) == Rest(new, Len(old))

----------------------------------------------------------------------------
\* The options.  Definitions named ...Bug are not part of the model: each is
\* the definition after it with a plausible mistake, which a property must
\* notice.

\* defaults_from_progname.
DecodeDefault(name) == name = "b91dec"
WrapDefault(name) == IF name = "base91" THEN 76 ELSE 0

\* -e prevails over -d, and both over the name.
Decoding(o) ==
    /\ ~ o.encode
    /\ o.decode \/ DecodeDefault(o.name)

Format(o) == IF o.simd THEN "simd" ELSE "henke"

\* Henke's default width is used for either format.
WrapBug(o) ==
    CASE o.wrap # NoWrap -> o.wrap
      [] o.wrap = NoWrap /\ Decoding(o) -> 0
      [] OTHER -> WrapDefault(o.name)

\* The SIMD format has a default width of its own, for any name.
Wrap(o) ==
    CASE o.wrap # NoWrap -> o.wrap
      [] o.wrap = NoWrap /\ Decoding(o) -> 0
      [] o.wrap = NoWrap /\ ~ Decoding(o) /\ o.simd -> 64
      [] OTHER -> WrapDefault(o.name)

Refused(o) == o.simd /\ ~ Decoding(o) /\ Wrap(o) % 32 # 0

\* The lines of Henke's format are laid out here, those of the SIMD format by
\* its encoder.
Wrapping(o) == ~ o.simd /\ Wrap(o) # 0
CodecWidth(o) == IF o.simd THEN Wrap(o) ELSE 0

\* A SIZE too small for the ratio leaves no buffer.
IbufBug(o) ==
    IF Decoding(o) THEN (Most(o.size - 1, 0) * 8) \div 15
                   ELSE (Most(o.size - 2, 0) * 16) \div 29

\* compute_ibuf_encode and compute_ibuf_decode: never an empty buffer, which
\* a read would answer as it does the end of the input.
Ibuf(o) ==
    Most(1, IF Decoding(o) THEN (Most(o.size - 1, 0) * 8) \div 15
                           ELSE (Most(o.size - 2, 0) * 16) \div 29)

----------------------------------------------------------------------------
\* The codecs, on what has been read.
Text(n) == Written(Format(opts), Start(source, n), CodecWidth(opts))
Closed(n) == Ended(Format(opts), Start(source, n), CodecWidth(opts))

Launch(o) ==
    /\ opts' = o
    /\ taken' = 0 /\ work' = << >> /\ obuf' = << >> /\ sink' = << >>
    /\ pc' = "start"

\* An invalid width ends it before it opens a file.
Refuse ==
    /\ pc = "start" /\ Refused(opts)
    /\ pc' = "error"
    /\ UNCHANGED <<opts, source, taken, work, obuf, sink, mishaps>>

Open ==
    /\ pc = "start" /\ ~ Refused(opts)
    /\ pc' = "read"
    /\ UNCHANGED <<opts, source, taken, work, obuf, sink, mishaps>>

\* An error propagates to main, and the BufWriter is dropped on its way.
Fail == pc' = "failing"
Mishap == mishaps < MaxMishaps /\ mishaps' = mishaps + 1

OpenFails ==
    /\ pc = "start" /\ ~ Refused(opts) /\ Mishap /\ Fail
    /\ UNCHANGED <<opts, source, taken, work, obuf, sink>>

Pieces(n) == {k \in 1 .. n : k \in ReadSizes \/ k = n}
Unread == Len(source) - taken

----------------------------------------------------------------------------
\* do_encode and do_encode_simd.
Encoding == pc = "read" /\ ~ Decoding(opts)

\* Wrapped Henke text is kept until the input is over.
EncodeRead ==
    /\ Encoding
    /\ \E n \in Pieces(Least(Ibuf(opts), Unread)) :
          /\ taken' = taken + n
          /\ work' = work \o Added(Text(taken), Text(taken + n))
    /\ pc' = IF Wrapping(opts) THEN "read" ELSE "put"
    /\ UNCHANGED <<opts, source, obuf, sink, mishaps>>

\* What finish adds is not wrapped with the rest.
EncodeEndBug ==
    /\ Encoding /\ Least(Ibuf(opts), Unread) = 0
    /\ LET tail == Added(Text(taken), Closed(taken))
       IN  work' = IF Wrapping(opts)
                   THEN Lines(work, Wrap(opts), LineFeed) \o tail
                   ELSE work \o tail
    /\ pc' = "last"
    /\ UNCHANGED <<opts, source, taken, obuf, sink, mishaps>>

\* A read of nothing ends the input.
EncodeEnd ==
    /\ Encoding /\ Least(Ibuf(opts), Unread) = 0
    /\ LET all == work \o Added(Text(taken), Closed(taken))
       IN  work' = IF Wrapping(opts) THEN Lines(all, Wrap(opts), LineFeed)
                                     ELSE all
    /\ pc' = "last"
    /\ UNCHANGED <<opts, source, taken, obuf, sink, mishaps>>

\* write_all of the text of one chunk, or of all that is left.
Put ==
    /\ pc = "put" \/ (pc = "last" /\ ~ Decoding(opts))
    /\ obuf' = obuf \o work /\ work' = << >>
    /\ pc' = IF pc = "put" THEN "read" ELSE "flush"
    /\ UNCHANGED <<opts, source, taken, sink, mishaps>>

----------------------------------------------------------------------------
\* do_decode: a loop of reads of a DecoderReader, which reads its own chunks.
Pulling == pc = "read" /\ Decoding(opts) /\ Ibuf(opts) > 0 /\ work = << >>

DecodePull ==
    /\ Pulling
    /\ \E n \in Pieces(Unread) :
          /\ ~ Rejects(Start(source, taken + n))
          /\ taken' = taken + n
          /\ work' = Added(Decoded(Start(source, taken)),
                           Decoded(Start(source, taken + n)))
    /\ UNCHANGED <<opts, source, obuf, sink, pc, mishaps>>

\* The text ends in the middle of a group, or not.
DecodeEnd ==
    /\ Pulling /\ Unread = 0 /\ ~ RejectsEnd(source)
    /\ work' = Added(Decoded(source), Whole(source))
    /\ pc' = "last"
    /\ UNCHANGED <<opts, source, taken, obuf, sink, mishaps>>

\* An invalid stream is taken for one that ends.
DecodeInvalidBug ==
    /\ Pulling
    /\ \/ Unread = 0 /\ RejectsEnd(source)
       \/ \E n \in Pieces(Unread) : Rejects(Start(source, taken + n))
    /\ pc' = "last"
    /\ UNCHANGED <<opts, source, taken, work, obuf, sink, mishaps>>

DecodeInvalid ==
    /\ Pulling
    /\ \/ Unread = 0 /\ RejectsEnd(source)
       \/ \E n \in Pieces(Unread) : Rejects(Start(source, taken + n))
    /\ Fail
    /\ UNCHANGED <<opts, source, taken, work, obuf, sink, mishaps>>

\* A read returns what ibuf can take, and it is written.
DecodeServe ==
    LET n == Least(Ibuf(opts), Len(work))
    IN  /\ pc \in {"read", "last"} /\ Decoding(opts) /\ n > 0
        /\ obuf' = obuf \o Start(work, n) /\ work' = Rest(work, n)
        /\ UNCHANGED <<opts, source, taken, sink, pc, mishaps>>

\* A read of nothing ends the loop.
DecodeOver ==
    /\ Decoding(opts)
    /\ \/ pc = "last" /\ work = << >>
       \/ pc \in {"read", "last"} /\ Ibuf(opts) = 0
    /\ pc' = "flush"
    /\ UNCHANGED <<opts, source, taken, work, obuf, sink, mishaps>>

----------------------------------------------------------------------------
\* The input and the output.

ReadFails ==
    /\ Encoding \/ Pulling
    /\ Mishap /\ Fail
    /\ UNCHANGED <<opts, source, taken, work, obuf, sink>>

\* A read interrupted by a signal: the DecoderReader reads again, the loops
\* of the encoders return the error.
ReadInterrupted ==
    /\ Encoding \/ Pulling
    /\ Mishap
    /\ pc' = IF Encoding THEN "failing" ELSE pc
    /\ UNCHANGED <<opts, source, taken, work, obuf, sink>>

\* The BufWriter may write when it is written to, flushed or dropped.
Writing ==
    /\ obuf # << >>
    /\ \/ pc \in {"put", "last", "flush", "failing"}
       \/ pc = "read" /\ Decoding(opts) /\ work # << >>

Spill ==
    /\ Writing
    /\ \E k \in {1, Len(obuf)} :
          /\ sink' = sink \o Start(obuf, k)
          /\ obuf' = Rest(obuf, k)
    /\ UNCHANGED <<opts, source, taken, work, pc, mishaps>>

\* The BufWriter is dropped: it tries once more to write what it has, and a
\* second error is not reported.
WriteFails ==
    /\ Writing /\ Mishap
    /\ IF pc = "failing" THEN obuf' = << >> /\ UNCHANGED pc
                         ELSE Fail /\ UNCHANGED obuf
    /\ UNCHANGED <<opts, source, taken, work, sink>>

\* Nobody reads the pipe: SIGPIPE has its default action.
BrokenPipe ==
    /\ Writing /\ Mishap
    /\ pc' = "killed"
    /\ UNCHANGED <<opts, source, taken, work, obuf, sink>>

\* The flush is forgotten, and its errors with it.
FinishBug ==
    /\ pc = "flush"
    /\ pc' = "done"
    /\ UNCHANGED <<opts, source, taken, work, obuf, sink, mishaps>>

\* The explicit flush has written all.
Finish ==
    /\ pc = "flush" /\ obuf = << >>
    /\ pc' = "done"
    /\ UNCHANGED <<opts, source, taken, work, obuf, sink, mishaps>>

Exit1 ==
    /\ pc = "failing" /\ obuf = << >>
    /\ pc' = "error"
    /\ UNCHANGED <<opts, source, taken, work, obuf, sink, mishaps>>

Run ==
    \/ Refuse \/ Open
    \/ EncodeRead \/ EncodeEnd \/ Put
    \/ DecodePull \/ DecodeEnd \/ DecodeInvalid \/ DecodeServe \/ DecodeOver
    \/ Spill \/ Finish \/ Exit1

Trouble ==
    OpenFails \/ ReadFails \/ ReadInterrupted \/ WriteFails \/ BrokenPipe

Over == pc \in {"done", "error", "killed"}

----------------------------------------------------------------------------
\* Properties.

\* The text is valid, or the width is one that the documentation allows, the
\* default among them.
Acceptable ==
    IF Decoding(opts) THEN ~ RejectsEnd(source)
    ELSE opts.simd /\ opts.wrap # NoWrap => opts.wrap % 32 = 0

\* What standard output is to have: the lines of the text, or the bytes of
\* the longest part of the text without an error; nothing of a width refused.
Wanted ==
    IF ~ Decoding(opts) THEN
        IF Refused(opts) THEN << >>
        ELSE IF Wrapping(opts) THEN Lines(Closed(Len(source)), Wrap(opts), LineFeed)
        ELSE Closed(Len(source))
    ELSE IF RejectsEnd(source) THEN Decoded(source) ELSE Whole(source)

\* The process exits with status 0 only if its output is whole and right, for
\* every name, option and buffer size; whatever it was given, and whatever
\* failed, standard output has only bytes that belong there, in order.
OutputHonest ==
    /\ sink = Start(Wanted, Len(sink)) /\ Len(sink) <= Len(Wanted)
    /\ pc = "done" => Acceptable /\ sink = Wanted
=============================================================================
