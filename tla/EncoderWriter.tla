--------------------------- MODULE EncoderWriter ---------------------------
(* std::io::Write over an encoder (io.rs, EncoderWriter): each write encodes *)
(* its bytes at once and hands the text to a BufWriter, whose inner writer,  *)
(* the sink, may take part of what it is given, be interrupted, or fail.     *)
(*                                                                           *)
(* BufWriter is of the standard library: it keeps text until it is full,     *)
(* writes text that could not fit directly, tries again when interrupted,    *)
(* drops what the sink has taken, and tries once more when it is dropped.    *)
(* The encoder is a function of the bytes given so far (HenkeEncoder's       *)
(* EncodesAsReference), given by the operators below.                        *)
EXTENDS Integers, Sequences

CONSTANTS
    Writes,         \* what one write may be given
    MaxBytes,       \* bound: bytes given to one writer
    Capacity,       \* BUF_SIZE: the buffer of the BufWriter, 8192
    MaxTrouble,     \* bound: interruptions and errors of the sink
    Text(_),        \* what encode writes for some bytes
    Closed(_)       \* what encode and finish write for them

VARIABLES
    given,      \* bytes that the encoder has read
    accepted,   \* bytes of the writes that succeeded
    scratch,    \* text of the call in progress, not in the buffer yet
    buf,        \* the BufWriter's buffer
    sink,       \* text that the sink has taken
    job,        \* the call: "write", "flush", "finish" or "drop"
    wpc,        \* "idle", "place" (write_all of scratch), "spill" (flush_buf
                \* in it), "direct" (it goes to the sink), "flush", "drop"
                \* (flush_buf again), or "ended"
    answer,     \* of the last call: "none", "ok" or "failed"
    reported,   \* a write or a finish has failed
    mishaps     \* interruptions and errors so far

From(old, new) == SubSeq(new, Len(old) + 1, Len(new))
After(s, k) == SubSeq(s, k + 1, Len(s))
Spare == Capacity - Len(buf)

\* new, on a sink.
Unused ==
    /\ given = << >> /\ accepted = << >> /\ scratch = << >> /\ buf = << >>
    /\ job = "write" /\ wpc = "idle" /\ answer = "none" /\ reported = FALSE

----------------------------------------------------------------------------
\* Definitions named ...Bug are not part of the model: each is the definition
\* after it with a plausible mistake, which a property must notice.

\* write: the bytes are encoded, whatever becomes of the text.
Write(c) ==
    /\ wpc = "idle" /\ Len(given) + Len(c) <= MaxBytes
    /\ given' = given \o c
    /\ scratch' = From(Text(given), Text(given \o c))
    /\ job' = "write" /\ wpc' = "place"
    /\ UNCHANGED <<accepted, buf, sink, answer, reported, mishaps>>

Flush ==
    /\ wpc = "idle"
    /\ job' = "flush" /\ wpc' = "flush"
    /\ UNCHANGED <<given, accepted, scratch, buf, sink, answer, reported,
                   mishaps>>

\* finish, which consumes the writer.
Finish ==
    /\ wpc = "idle"
    /\ scratch' = From(Text(given), Closed(given))
    /\ job' = "finish" /\ wpc' = "place"
    /\ UNCHANGED <<given, accepted, buf, sink, answer, reported, mishaps>>

\* The writer is dropped without finish: its last bits are lost, the buffer
\* is not, unless the sink fails.
Drop ==
    /\ wpc = "idle"
    /\ job' = "drop" /\ wpc' = "drop"
    /\ UNCHANGED <<given, accepted, scratch, buf, sink, answer, reported,
                   mishaps>>

\* write_all has succeeded.
Placed ==
    /\ scratch' = << >>
    /\ IF job = "write"
       THEN wpc' = "idle" /\ answer' = "ok" /\ accepted' = given
       ELSE wpc' = "flush" /\ UNCHANGED <<answer, accepted>>

\* BufWriter::write_all: into the buffer if it fits, else the buffer is
\* written first; text of the buffer's size or more never enters it.
PlaceBuffer ==
    /\ wpc = "place"
    /\ Len(scratch) <= Spare /\ Len(scratch) < Capacity
    /\ buf' = buf \o scratch
    /\ Placed
    /\ UNCHANGED <<given, sink, job, reported, mishaps>>

\* Text that does not fit in an empty buffer waits for a buffer with room.
PlaceSpillBug ==
    /\ wpc = "place" /\ Len(scratch) > Spare
    /\ wpc' = "spill"
    /\ UNCHANGED <<given, accepted, scratch, buf, sink, job, answer, reported,
                   mishaps>>

PlaceSpill ==
    /\ wpc = "place" /\ Len(scratch) > Spare /\ buf # << >>
    /\ wpc' = "spill"
    /\ UNCHANGED <<given, accepted, scratch, buf, sink, job, answer, reported,
                   mishaps>>

PlaceDirect ==
    /\ wpc = "place" /\ Len(scratch) >= Capacity /\ buf = << >>
    /\ wpc' = "direct"
    /\ UNCHANGED <<given, accepted, scratch, buf, sink, job, answer, reported,
                   mishaps>>

DirectDone ==
    /\ wpc = "direct" /\ scratch = << >>
    /\ Placed
    /\ UNCHANGED <<given, buf, sink, job, reported, mishaps>>

----------------------------------------------------------------------------
\* The sink is given the buffer, or text that did not fit in it.
Offered == CASE wpc \in {"spill", "flush", "drop"} -> buf
             [] wpc = "direct" -> scratch
             [] OTHER -> << >>

\* It takes k of it.
SinkTakes(k) ==
    /\ sink' = sink \o SubSeq(Offered, 1, k)
    /\ IF wpc = "direct" THEN scratch' = After(scratch, k) /\ UNCHANGED buf
       ELSE buf' = After(buf, k) /\ UNCHANGED scratch
    /\ UNCHANGED <<given, accepted, job, wpc, answer, reported, mishaps>>

InMishap == mishaps < MaxTrouble /\ mishaps' = mishaps + 1

SinkInterrupts ==
    /\ Offered # << >> /\ InMishap
    /\ UNCHANGED <<given, accepted, scratch, buf, sink, job, wpc, answer,
                   reported>>

\* The results of write_all and flush are ignored.
FailBug ==
    /\ scratch' = << >>
    /\ answer' = "ok"
    /\ wpc' = CASE wpc = "drop" -> "ended"
                [] wpc # "drop" /\ job = "finish" -> "drop"
                [] OTHER -> "idle"
    /\ UNCHANGED <<given, accepted, buf, sink, job, reported>>

\* The call fails.  A write that fails has encoded its bytes and forgets
\* their text; a finish that fails drops the writer.
Fail ==
    /\ scratch' = << >>
    /\ answer' = "failed"
    /\ reported' = (reported \/ job \in {"write", "finish"})
    /\ wpc' = CASE wpc = "drop" -> "ended"
                [] wpc # "drop" /\ job = "finish" -> "drop"
                [] OTHER -> "idle"
    /\ UNCHANGED <<given, accepted, buf, sink, job>>

\* A write to the sink fails, or takes nothing.
SinkFails == Offered # << >> /\ Fail

\* flush of the sink itself fails, once the buffer is empty.
SyncFails == wpc = "flush" /\ buf = << >> /\ Fail

Drained ==
    /\ buf = << >>
    /\ \/ wpc = "spill" /\ wpc' = "place" /\ UNCHANGED answer
       \/ /\ wpc = "flush" /\ answer' = "ok"
          /\ wpc' = IF job = "finish" THEN "ended" ELSE "idle"
       \/ wpc = "drop" /\ wpc' = "ended" /\ UNCHANGED answer
    /\ UNCHANGED <<given, accepted, scratch, buf, sink, job, reported,
                   mishaps>>

\* new, on another sink.
Renew ==
    /\ wpc = "ended"
    /\ given' = << >> /\ accepted' = << >> /\ scratch' = << >> /\ buf' = << >>
    /\ sink' = << >>
    /\ job' = "write" /\ wpc' = "idle" /\ answer' = "none" /\ reported' = FALSE
    /\ UNCHANGED mishaps

WriterCall == (\E c \in Writes : Write(c)) \/ Flush \/ Finish \/ Drop

\* The steps of a call in progress that need nothing of the sink.
WriterStep ==
    PlaceBuffer \/ PlaceSpill \/ PlaceDirect \/ DirectDone \/ Drained

----------------------------------------------------------------------------
\* Properties.

\* Every variable keeps its type, and the buffer its capacity.
WriterTypeOK ==
    /\ given \in Seq(0 .. 255) /\ Len(given) <= MaxBytes
    /\ accepted \in Seq(0 .. 255) /\ scratch \in Seq(Nat)
    /\ buf \in Seq(Nat) /\ sink \in Seq(Nat)
    /\ Len(buf) <= Capacity
    /\ job \in {"write", "flush", "finish", "drop"}
    /\ wpc \in {"idle", "place", "spill", "direct", "flush", "drop", "ended"}
    /\ answer \in {"none", "ok", "failed"} /\ reported \in BOOLEAN
    /\ mishaps \in 0 .. MaxTrouble

\* The text that the encoder has written, finish's included.
Written == IF job = "finish" THEN Closed(given) ELSE Text(given)

\* Whatever the sink takes at a time, and however often it is interrupted or
\* a flush fails, all the text is in the sink, the buffer and the scratch, in
\* order and once, as long as no write and no finish has failed.  (A write
\* that fails loses text that the encoder never writes again, and a caller
\* who repeats it gives its bytes twice.)
TextInOrder == ~ reported => sink \o buf \o scratch = Written

\* A finish that succeeds, after writes that did, leaves the whole text of
\* exactly the bytes of those writes in the sink.
FinishIsWhole ==
    wpc = "ended" /\ answer = "ok" /\ job = "finish" /\ ~ reported =>
        sink = Closed(accepted)
=============================================================================
