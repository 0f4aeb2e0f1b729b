------------------------------ MODULE FrontEnds ------------------------------
(* The two front ends of the Rust crate, the command-line tool and the       *)
(* Python classes, used one after the other: what one of them encoded is     *)
(* decoded by the same or by the other, with any options that do.            *)
EXTENDS Integers, Sequences

CONSTANTS
    Inputs,             \* bytes that may be encoded
    Texts,              \* texts that may be decoded, invalid ones included
    Options,            \* of the tool
    Objects,            \* the classes, and their wraps
    IsHenke(_),         \* the text is of Henke's format
    ReadSizes, MaxMishaps, NoWrap, LineFeed,
    Written(_, _, _), Ended(_, _, _),
    Decoded(_), Whole(_), Rejects(_), RejectsEnd(_)

\* Each option is on or off or a number, and a class has no other width than
\* its own: SimdEncoder lines of whole blocks of 32, the others none.
ASSUME FrontEndsAssumption ==
    /\ Inputs \subseteq Seq(0 .. 255) /\ Texts \subseteq Seq(Nat)
    /\ MaxMishaps \in Nat /\ LineFeed \in Nat /\ NoWrap \notin Nat
    /\ Options \subseteq [name : {"base91", "b91enc", "b91dec"},
                          encode : BOOLEAN, decode : BOOLEAN, simd : BOOLEAN,
                          wrap : Nat \cup {NoWrap}, size : Nat]
    /\ Objects \subseteq
          [class : {"Encoder", "Decoder", "SimdDecoder"}, wrap : {0}]
          \cup [class : {"SimdEncoder"}, wrap : {w \in Nat : w % 32 = 0}]

VARIABLES
    user,       \* "tool" or "class": the front end in use
    original,   \* what the first one was given
    stage,      \* "first" or "second"
    opts, source, taken, work, obuf, sink, pc, mishaps,     \* the tool
    object, inner, invalid, buf, session, asked, result     \* the class

Tool == INSTANCE CommandLine
Class == INSTANCE PythonClasses

process == <<opts, taken, work, obuf, sink, pc, mishaps>>
binding == <<object, inner, invalid, buf, session, asked, result>>
vars == <<user, original, stage, source, process, binding>>

Decoders == {o \in Objects : o.class \in {"Decoder", "SimdDecoder"}}
DecodeOptions == {o \in Options : Tool!Decoding(o)}

\* Decoder is for Henke's format only.
Reads(o, text) == o.class = "Decoder" => IsHenke(text)

\* A front end that is not used stays as it is.
Unused == "-"
NoTool ==
    /\ opts = Unused /\ pc = Unused /\ taken = 0
    /\ work = << >> /\ obuf = << >> /\ sink = << >>
NoClass ==
    /\ object = Unused /\ inner = << >> /\ invalid = FALSE /\ buf = << >>
    /\ session = << >> /\ asked = << >> /\ result = Class!None

ToolStarts ==
    /\ user = "tool" /\ opts \in Options
    /\ source \in IF Tool!Decoding(opts) THEN Texts ELSE Inputs
    /\ taken = 0 /\ work = << >> /\ obuf = << >> /\ sink = << >>
    /\ pc = "start"

ClassStarts ==
    /\ user = "class" /\ object \in Objects
    /\ source \in IF object \in Decoders THEN Texts ELSE Inputs
    /\ object \in Decoders => Reads(object, source)
    /\ inner = << >> /\ invalid = FALSE /\ buf = << >>
    /\ session = << >> /\ asked = << >> /\ result = Class!None

Init ==
    /\ stage = "first" /\ mishaps = 0
    /\ \/ ToolStarts /\ NoClass
       \/ ClassStarts /\ NoTool
    /\ original = source

ToolRuns ==
    /\ user = "tool" /\ Tool!Run
    /\ UNCHANGED <<user, original, stage, binding>>

ToolInTrouble ==
    /\ user = "tool" /\ Tool!Trouble
    /\ UNCHANGED <<user, original, stage, binding>>

\* A program gives the object its input piece by piece, and finishes when it
\* likes: the next session starts with the input's first byte again.
ClassUpdates ==
    LET left == Len(source) - Len(session)
    IN  /\ user = "class"
        /\ \E n \in {0} \cup {k \in 1 .. left : k \in ReadSizes \/ k = left} :
              Class!Update(SubSeq(source, Len(session) + 1, Len(session) + n))
        /\ UNCHANGED <<user, original, stage, source, process>>

ClassFinishes ==
    /\ user = "class" /\ Class!Finish
    /\ UNCHANGED <<user, original, stage, source, process>>

\* What the first front end has encoded.
Product ==
    CASE user = "tool" /\ pc = "done" /\ ~ Tool!Decoding(opts) -> {sink}
      [] user = "class" /\ object \notin Decoders
         /\ result.kind = "bytes" /\ asked = source -> {result.out}
      [] OTHER -> {}

\* It is handed to another front end.
Relay ==
    /\ stage = "first" /\ stage' = "second"
    /\ source' \in Product
    /\ \/ /\ user' = "tool"
          /\ \E o \in DecodeOptions : Tool!Launch(o)
          /\ object' = Unused /\ inner' = << >> /\ invalid' = FALSE
          /\ buf' = << >> /\ session' = << >> /\ asked' = << >>
          /\ result' = Class!None
       \/ /\ user' = "class"
          /\ \E o \in Decoders : Reads(o, source') /\ Class!Create(o)
          /\ opts' = Unused /\ pc' = Unused /\ taken' = 0
          /\ work' = << >> /\ obuf' = << >> /\ sink' = << >>
    /\ UNCHANGED <<original, mishaps>>

Next == ToolRuns \/ ToolInTrouble \/ ClassUpdates \/ ClassFinishes \/ Relay

\* A process runs on, and its input ends.
Spec == Init /\ [][Next]_vars /\ WF_vars(ToolRuns)

----------------------------------------------------------------------------
\* Properties.

\* The tool's output is honest, whatever fails (CommandLine).
ToolIsHonest == user = "tool" => Tool!OutputHonest

\* The sessions of an object are independent (PythonClasses).
SessionsApart == user = "class" => Class!SessionsApart

\* What one front end encodes, any other decodes to the same bytes, without
\* an error: line breaks of either format, every width and buffer size, and
\* the detection of the format.
RoundTrip ==
    stage = "second" =>
        /\ user = "tool" =>
              /\ pc = "done" => sink = original
              /\ pc = "error" => mishaps > 0
        /\ user = "class" =>
              /\ result.kind = "bytes" /\ asked = source =>
                    result.out = original
              /\ session = source => ~ invalid

\* The tool ends, and with status 0 when it can do what it was asked and
\* nothing failed.
ToolEnds ==
    user = "tool" /\ pc = "start" ~>
        \/ pc = "done"
        \/ pc = "error" /\ (~ Tool!Acceptable \/ mishaps > 0)
        \/ pc = "killed"
=============================================================================
