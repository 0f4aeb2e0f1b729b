--------------------------- MODULE PythonClasses ---------------------------
(* The streaming classes of the Python binding (python.rs): Encoder,         *)
(* Decoder, SimdEncoder and SimdDecoder.  Each owns a codec and a buffer of  *)
(* its output, which finish returns; finish puts a fresh codec in the place  *)
(* of the one it ends, so that an object has one session after another.      *)
EXTENDS Integers, Sequences

CONSTANTS
    Written(_, _, _), Ended(_, _, _),   \* as in CommandLine
    Decoded(_), Whole(_), Rejects(_), RejectsEnd(_)

VARIABLES
    object,     \* its class and the wrap it was created with
    inner,      \* what its codec has read
    invalid,    \* its codec has reported an error
    buf,        \* the output so far
    session,    \* what update was given since the last finish
    asked,      \* what it was given before the last finish, since the one
                \* before
    result      \* the answer of the last call: its kind, and what finish
                \* returned

binding == <<object, inner, invalid, buf, session, asked, result>>

Encodes == object.class \in {"Encoder", "SimdEncoder"}
ClassFormat == IF object.class = "SimdEncoder" THEN "simd" ELSE "henke"
Extra(old, new) == SubSeq(new, Len(old) + 1, Len(new))

None == [kind |-> "none", out |-> << >>]
Returned(out) == [kind |-> "bytes", out |-> out]
Raised == [kind |-> "raised", out |-> << >>]

\* What the codec has written for some input, and with finish.
Output(data) == IF Encodes THEN Written(ClassFormat, data, object.wrap)
                           ELSE Decoded(data)
Complete(data) == IF Encodes THEN Ended(ClassFormat, data, object.wrap)
                             ELSE Whole(data)

\* A class for a width that is not a multiple of 32 cannot be created.
Create(o) ==
    /\ o.class = "SimdEncoder" => o.wrap % 32 = 0
    /\ object' = o
    /\ inner' = << >> /\ invalid' = FALSE /\ buf' = << >>
    /\ session' = << >> /\ asked' = << >> /\ result' = None

----------------------------------------------------------------------------
\* update: the decoder that reported an error reports it again, except to a
\* call that gives it nothing.
Update(data) ==
    LET bad == /\ ~ Encodes /\ data # << >>
               /\ invalid \/ Rejects(inner \o data)
    IN  /\ session' = session \o data
        /\ invalid' = (invalid \/ bad)
        /\ IF bad
           THEN result' = Raised /\ UNCHANGED <<inner, buf>>
           ELSE /\ inner' = inner \o data
                /\ buf' = buf \o Extra(Output(inner), Output(inner \o data))
                /\ result' = None
        /\ UNCHANGED <<object, asked>>

\* The error leaves finish before the buffer is taken.
FinishBug ==
    LET bad == ~ Encodes /\ (invalid \/ RejectsEnd(inner))
    IN  /\ inner' = << >> /\ invalid' = FALSE
        /\ buf' = IF bad THEN buf ELSE << >>
        /\ result' = IF bad THEN Raised
                     ELSE Returned(buf \o Extra(Output(inner), Complete(inner)))
        /\ asked' = session /\ session' = << >>
        /\ UNCHANGED object

\* finish: the codec is replaced and the buffer taken before the error is
\* raised, so that what was decoded before it is lost, and does not show in
\* the next session.
Finish ==
    LET bad == ~ Encodes /\ (invalid \/ RejectsEnd(inner))
    IN  /\ inner' = << >> /\ invalid' = FALSE
        /\ buf' = << >>
        /\ result' = IF bad THEN Raised
                     ELSE Returned(buf \o Extra(Output(inner), Complete(inner)))
        /\ asked' = session /\ session' = << >>
        /\ UNCHANGED object

----------------------------------------------------------------------------
\* What finish answers is the answer of one codec on exactly what update was
\* given since the finish before: no session shows in a later one, even
\* after an error.
SessionsApart ==
    result.kind = "bytes" \/ (result.kind = "raised" /\ session = << >>) =>
        result = IF ~ Encodes /\ RejectsEnd(asked) THEN Raised
                 ELSE Returned(Complete(asked))
=============================================================================
