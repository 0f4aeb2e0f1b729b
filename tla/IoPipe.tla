------------------------------- MODULE IoPipe -------------------------------
(* The std::io adapters in the three ways they are used: a reader on a file  *)
(* of any format, a writer on a disk, and the two joined by a pipe, a        *)
(* program at each end.                                                      *)
(*                                                                           *)
(* The pipe holds PipeSize characters: its writer waits when it is full, its *)
(* reader when it is empty, and the reader sees the end once the writer is   *)
(* gone.  A file may end anywhere, and a disk or a file may fail.            *)
EXTENDS Integers, Sequences

CONSTANTS
    Files,          \* what a file may hold: records of a format and a text
    PipeSize,
    BufSize, BufLens, Writes, MaxBytes, Capacity, MaxTrouble,
    Decoded(_, _), Whole(_, _), Rejects(_, _), RejectsEnd(_, _),
    Text(_), Closed(_)

ASSUME PipeAssumption ==
    /\ {PipeSize, BufSize, Capacity} \subseteq Nat \ {0}
    /\ BufLens \subseteq Nat /\ {MaxBytes, MaxTrouble} \subseteq Nat
    /\ \A f \in Files : f.text \in Seq(Nat)
    /\ \A c \in Writes : c \in Seq(0 .. 255)

VARIABLES
    use,            \* "file", "disk" or "pipe"
    format,
    taken, accepted, decoded, decodedPos, done, failed, want, pc, got, ret,
    trouble,                                                \* the reader
    given, placed, scratch, buf, sink, job, wpc, answer, reported, mishaps
                                                            \* the writer

R == INSTANCE DecoderReader WITH stream <- sink
W == INSTANCE EncoderWriter WITH accepted <- placed

reader == <<taken, accepted, decoded, decodedPos, done, failed, want, pc, got,
            ret, trouble>>
writer == <<given, placed, scratch, buf, sink, job, wpc, answer, reported,
            mishaps>>
vars == <<use, format, reader, writer>>

Init ==
    /\ R!Fresh /\ W!Unused /\ trouble = 0 /\ mishaps = 0
    /\ \/ /\ use = "file"
          /\ \E f \in Files : format = f.format /\ sink = f.text
       \/ use \in {"disk", "pipe"} /\ format = "henke" /\ sink = << >>

\* A pipe takes what it has room for, and nothing once its reader is gone.
Room == CASE use = "disk" -> Len(W!Offered)
          [] use = "pipe" /\ pc # "dropped" -> PipeSize - (Len(sink) - taken)
          [] OTHER -> 0

Write ==
    /\ use # "file"
    /\ \/ W!WriterCall \/ W!WriterStep
       \/ \E k \in 1 .. Len(W!Offered) :
              k <= Room /\ W!SinkTakes(k)
       \/ W!SinkInterrupts
       \/ use = "pipe" /\ pc = "dropped" /\ W!SinkFails /\ UNCHANGED mishaps
       \/ use = "disk" /\ W!InMishap /\ (W!SinkFails \/ W!SyncFails)
       \/ use = "disk" /\ W!Renew
    /\ UNCHANGED <<use, format, reader>>

\* What the inner reader may do next.
Supply ==
    \/ R!InnerFails
    \/ \E n \in R!Pieces : R!InnerGives(n)
    \/ (use = "pipe" => wpc = "ended" /\ taken = Len(sink)) /\ R!InnerEnds

ReadStep ==
    /\ use # "disk"
    /\ R!ReturnData \/ R!ReturnInvalid \/ R!ReturnEof \/ Supply
    /\ UNCHANGED <<use, format, writer>>

ReadCall ==
    /\ use # "disk"
    /\ \/ \E n \in BufLens : R!Read(n)
       \/ R!IntoInner
       \/ use = "file" /\ R!New
    /\ UNCHANGED <<use, format, writer>>

\* Both programs are gone: another two.
Reopen ==
    /\ use = "pipe" /\ W!Renew /\ R!New
    /\ UNCHANGED <<use, format>>

Next == Write \/ ReadStep \/ ReadCall \/ Reopen

\* A call in progress runs on, when what it waits for is there.
Fairness ==
    /\ WF_vars(ReadStep)
    /\ WF_vars(Write /\ wpc \notin {"idle", "ended"})

Spec == Init /\ [][Next]_vars /\ Fairness

----------------------------------------------------------------------------
\* Properties.

TypeOK == R!ReaderTypeOK /\ W!WriterTypeOK

\* The two, joined by a pipe, lose nothing and add nothing: the reader has
\* the first bytes given to the writer, and all those of its writes once the
\* writer has finished and the reader says that the stream has ended.
PipeRoundTrip ==
    use = "pipe" /\ ~ reported =>
        /\ Len(got) <= Len(given) /\ got = SubSeq(given, 1, Len(got))
        /\ ret = "eof" /\ answer = "ok" /\ job = "finish" => got = placed

\* A reader stays in its buffers' bounds and a read returns: chunks that
\* decode to nothing and interruptions are followed by others, and the inner
\* reader does not interrupt for ever (trouble is bounded).
ReadsReturn == pc = "read" /\ (use = "file" \/ wpc = "ended") ~> pc # "read"

\* A call of the writer returns: a sink that takes part of the buffer is
\* given the rest.
WritesReturn ==
    use = "disk" /\ wpc \notin {"idle", "ended"} ~> wpc \in {"idle", "ended"}

\* The reader's own properties, and the writer's.
NothingLost == R!NothingLost
EofMeansAll == R!EofMeansAll
TextInOrder == use # "file" => W!TextInOrder
FinishIsWhole == use # "file" => W!FinishIsWhole

\* The reader is a source of bytes: what a caller may rely on.
Source == INSTANCE ByteSource WITH
              ready <- got \o R!Rest,
              over <- CASE failed -> "invalid"
                        [] ~ failed /\ done -> "end"
                        [] OTHER -> "open"
ImplementsSource == Source!Spec
=============================================================================
