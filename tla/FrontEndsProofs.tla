--------------------------- MODULE FrontEndsProofs ---------------------------
(* The tool is honest, the sessions of an object are apart, and what either  *)
(* front end encodes either decodes: for any options, inputs, buffer sizes,  *)
(* reads and failures, and for codecs that do what their own models show.    *)
EXTENDS FrontEnds, Arithmetic, SequenceTheorems, TLAPS

\* The widths that a format's codec is given.
WidthsOf(f) == IF f = "simd" THEN {w \in Nat : w % 32 = 0} ELSE {0}

\* What a decoder promises, of either format: a longer text gives more bytes,
\* and finish more again; an error stays an error when more follows, and at the
\* end.
DecoderAdds ==
    /\ Decoded(<< >>) = << >>
    /\ \A t \in Seq(Nat) :
        /\ Decoded(t) \in Seq(Nat) /\ Whole(t) \in Seq(Nat)
        /\ ~ RejectsEnd(t) => Starts(Decoded(t), Whole(t))
        /\ Rejects(t) => RejectsEnd(t)
        /\ \A n \in 0 .. Len(t) :
              /\ Starts(Decoded(SubSeq(t, 1, n)), Decoded(t))
              /\ Rejects(SubSeq(t, 1, n)) => Rejects(t)

\* What an encoder promises: more bytes give a longer text, and finish a
\* longer one again.
EncoderAdds ==
    \A f \in {"henke", "simd"} : \A w \in WidthsOf(f) :
      /\ Written(f, << >>, w) = << >>
      /\ \A b \in Seq(Byte) :
          /\ Written(f, b, w) \in Seq(Nat) /\ Ended(f, b, w) \in Seq(Nat)
          /\ Starts(Written(f, b, w), Ended(f, b, w))
          /\ \A n \in 0 .. Len(b) :
                Starts(Written(f, SubSeq(b, 1, n), w), Written(f, b, w))

\* A text that some encoder makes of b: of the SIMD format with its own lines,
\* or of Henke's, with those of the tool or without.
MadeFrom(t, b) ==
    \/ \E w \in WidthsOf("simd") : t = Ended("simd", b, w)
    \/ \E w \in Nat : t = Tool!Lines(Ended("henke", b, 0), w, LineFeed)

\* What the two halves of each format promise together.  (HenkeProofs shows it
\* of Henke's, whose decoder skips line breaks.)
FormatsAgree ==
    \A b \in Inputs : \A t \in Seq(Nat) :
        MadeFrom(t, b) => ~ RejectsEnd(t) /\ Whole(t) = b

\* Either kind of codec, by the tool's options ...
SoFar(o, s, n) ==
    IF Tool!Decoding(o) THEN Decoded(SubSeq(s, 1, n))
    ELSE Written(Tool!Format(o), SubSeq(s, 1, n), Tool!CodecWidth(o))
Final(o, s) ==
    IF Tool!Decoding(o) THEN Whole(s)
    ELSE Ended(Tool!Format(o), s, Tool!CodecWidth(o))
Laid(o) == ~ Tool!Decoding(o) /\ Tool!Wrapping(o)
Goal(o, s) ==
    IF Tool!Decoding(o) THEN IF RejectsEnd(s) THEN Decoded(s) ELSE Final(o, s)
    ELSE IF Tool!Refused(o) THEN << >>
    ELSE IF Laid(o) THEN Tool!Lines(Final(o, s), Tool!Wrap(o), LineFeed)
    ELSE Final(o, s)
Readable(o, s) ==
    o \in Options /\ s \in Seq(Nat) /\ (~ Tool!Decoding(o) => s \in Seq(Byte))

\* ... and by an object.
Encoder(o) == o.class \in {"Encoder", "SimdEncoder"}
FormatOf(o) == IF o.class = "SimdEncoder" THEN "simd" ELSE "henke"
Makes(o, d) == IF Encoder(o) THEN Written(FormatOf(o), d, o.wrap) ELSE Decoded(d)
Ends(o, d) == IF Encoder(o) THEN Ended(FormatOf(o), d, o.wrap) ELSE Whole(d)
Answer(o, d) ==
    IF ~ Encoder(o) /\ RejectsEnd(d) THEN Class!Raised
    ELSE Class!Returned(Ends(o, d))
Suits(o, d) == o \in Objects /\ d \in Seq(Nat) /\ (Encoder(o) => d \in Seq(Byte))

----------------------------------------------------------------------------
\* The tool.

Places == {"start", "read", "put", "last", "flush", "failing", "done", "error",
           "killed"}
Sent == sink \o obuf
Held == Sent \o work

\* What is sent, and what is held with it, is what the codec has made so far;
\* lines are laid out at the end only, before anything is sent.
ToolSound ==
    /\ Readable(opts, source) /\ taken \in 0 .. Len(source)
    /\ work \in Seq(Nat) /\ obuf \in Seq(Nat) /\ sink \in Seq(Nat)
    /\ pc \in Places /\ mishaps \in Nat
    /\ Starts(Sent, Goal(opts, source))
    /\ pc = "start" => taken = 0 /\ Sent = << >> /\ Held = << >>
    /\ pc \notin {"start", "error"} => ~ Tool!Refused(opts)
    /\ pc \in {"read", "put"} => Held = SoFar(opts, source, taken)
    /\ pc \in {"read", "put"} /\ Laid(opts) => Sent = << >>
    /\ pc = "put" => ~ Laid(opts)
    /\ pc \in {"last", "flush", "done"} => Held = Goal(opts, source)
    /\ pc \in {"last", "flush", "done"} /\ Tool!Decoding(opts) =>
           ~ RejectsEnd(source)
    /\ pc \in {"flush", "done"} => work = << >>
    /\ pc = "done" => obuf = << >>
    /\ pc \in {"failing", "error"} =>
           \/ mishaps > 0
           \/ Tool!Refused(opts)
           \/ Tool!Decoding(opts) /\ RejectsEnd(source)

ToolElse == UNCHANGED <<user, original, stage, binding>>

\* The object: what its codec has read is what it was given, until the codec
\* reports an error; what finish answered is what one codec answers.
ClassSound ==
    /\ Suits(object, source) /\ session \in Seq(Nat)
    /\ Len(session) <= Len(source) /\ session = SubSeq(source, 1, Len(session))
    /\ inner \in Seq(Nat) /\ buf \in Seq(Nat) /\ invalid \in BOOLEAN
    /\ Suits(object, inner)
    /\ buf = Makes(object, inner)
    /\ ~ invalid => inner = session
    /\ invalid => ~ Encoder(object) /\ Rejects(session)
    /\ result.kind = "bytes" \/ (result.kind = "raised" /\ session = << >>) =>
           result = Answer(object, asked)

\* The second front end decodes what the first one made.
Relayed ==
    /\ user \in {"tool", "class"} /\ stage \in {"first", "second"}
    /\ mishaps \in Nat
    /\ stage = "first" =>
         /\ source = original
         /\ user = "tool" /\ ~ Tool!Decoding(opts) => original \in Inputs
         /\ user = "class" /\ Encoder(object) => original \in Inputs
    /\ stage = "second" =>
         /\ original \in Inputs /\ MadeFrom(source, original)
         /\ user = "tool" => Tool!Decoding(opts)
         /\ user = "class" => ~ Encoder(object)

IInv ==
    /\ Relayed
    /\ user = "tool" => ToolSound
    /\ user = "class" => ClassSound

----------------------------------------------------------------------------
\* Sequences.

LEMMA StartsItself ==
    ASSUME NEW s \in Seq(Nat)
    PROVE  Starts(s, s) /\ Starts(<< >>, s)
<1>1. << >> \in Seq(Nat) /\ s = s \o << >> /\ s = << >> \o s
  BY ConcatEmptySeq, EmptySeq
<1> QED
  BY <1>1 DEF Starts

LEMMA StartsOn ==
    ASSUME NEW s \in Seq(Nat), NEW t, NEW u, Starts(s, t), Starts(t, u)
    PROVE  Starts(s, u)
<1>1. PICK x \in Seq(Nat) : t = s \o x
  BY DEF Starts
<1>2. PICK y \in Seq(Nat) : u = t \o y
  BY DEF Starts
<1>3. x \o y \in Seq(Nat)
  BY ConcatProperties
<1>4. (s \o x) \o y = s \o (x \o y)
  BY SeqJoined
<1> QED
  BY <1>1, <1>2, <1>3, <1>4 DEF Starts

\* Of a sequence in two parts.
LEMMA StartsPart ==
    ASSUME NEW s \in Seq(Nat), NEW t \in Seq(Nat), NEW u, Starts(s \o t, u)
    PROVE  Starts(s, u)
<1>1. Starts(s, s \o t)
  BY DEF Starts
<1> QED
  BY <1>1, StartsOn

\* A sequence that begins another is its first elements.
LEMMA StartsIs ==
    ASSUME NEW s \in Seq(Nat), NEW t, Starts(s, t)
    PROVE  t \in Seq(Nat) /\ Len(s) <= Len(t) /\ s = SubSeq(t, 1, Len(s))
<1>1. PICK u \in Seq(Nat) : t = s \o u
  BY DEF Starts
<1>2. t \in Seq(Nat) /\ Len(t) = Len(s) + Len(u) /\ Len(s) \in Nat /\ Len(u) \in Nat
  BY <1>1, ConcatProperties, LenProperties
<1>3. Len(s) \in 0 .. Len(s)
  BY <1>2
<1>4. SubSeq(s \o u, 1, Len(s)) = SubSeq(s, 1, Len(s))
  BY <1>3, SeqFront, Zenon
<1> QED
  BY <1>1, <1>2, <1>4, SubSeqFull

\* The first elements of the first elements.
LEMMA FrontOf ==
    ASSUME NEW S, NEW s \in Seq(S), NEW n \in 0 .. Len(s), NEW m \in 0 .. n
    PROVE  /\ SubSeq(s, 1, n) \in Seq(S) /\ Len(SubSeq(s, 1, n)) = n
           /\ SubSeq(SubSeq(s, 1, n), 1, m) = SubSeq(s, 1, m)
<1>1. Len(s) \in Nat
  BY LenProperties
<1>2. \A i \in 1 .. n : s[i] \in S
  BY <1>1, ElementOfSeq
<1>3. SubSeq(s, 1, n) \in Seq(S) /\ Len(SubSeq(s, 1, n)) = n
  BY <1>1, <1>2, SubSeqProperties
<1>4. SubSeq(SubSeq(s, 1, n), 1, m) = SubSeq(s, 1, m)
  <2>1. CASE m = 0
    BY <2>1, SubSeqEmpty
  <2>2. CASE m # 0
    BY <1>1, <2>2, SubSeqOfSubSeq
  <2> QED
    BY <2>1, <2>2
<1> QED
  BY <1>3, <1>4

LEMMA BytesAreNumbers ==
    ASSUME NEW s \in Seq(Byte)
    PROVE  s \in Seq(Nat)
<1>1. Byte \subseteq Nat
  BY DEF Byte
<1> QED
  BY <1>1, SeqMonotonic

\* Lines of numbers are numbers.
LEMMA LinesAreNumbers ==
    ASSUME NEW text \in Seq(Nat), NEW w \in Nat, NEW lf \in Nat
    PROVE  /\ Tool!Lines(text, w, lf) \in Seq(Nat)
           /\ Tool!Lines(text, 0, lf) = text
<1>1. Tool!Flow(text, w, lf) \in Seq(Nat)
  <2>1. CASE w = 0
    BY <2>1 DEF Tool!Flow
  <2>2. CASE w # 0
    <3> DEFINE n == Len(text)
               N == n + (n \div w)
               f == [k \in 1 .. N |-> IF k % (w + 1) = 0 THEN lf
                                      ELSE text[k - (k \div (w + 1))]]
    <3>1. n \in Nat /\ w \in Nat \ {0}
      BY <2>2, LenProperties
    <3>2. N \in Nat
      <4>1. n \div w \in Nat
        BY <3>1, Division, Zenon
      <4> QED
        BY <3>1, <4>1
    <3>3. ASSUME NEW k \in 1 .. N PROVE f[k] \in Nat
      <4>1. CASE k % (w + 1) = 0
        BY <4>1
      <4>2. CASE k % (w + 1) # 0
        <5>1. k - (k \div (w + 1)) \in 1 .. n
          BY <3>1, <4>2, InText
        <5>2. text[k - (k \div (w + 1))] \in Nat
          BY <5>1, ElementOfSeq, Zenon
        <5> QED
          BY <4>2, <5>2
      <4> QED
        BY <4>1, <4>2
    <3>4. f \in [1 .. N -> Nat]
      BY <3>3
    <3>5. f = Tool!Flow(text, w, lf)
      BY <3>1 DEF Tool!Flow
    <3> HIDE DEF N, f
    <3> QED
      BY <3>2, <3>4, <3>5, SeqDef
  <2> QED
    BY <2>1, <2>2
<1>2. /\ << >> \in Seq(Nat) /\ <<lf>> \in Seq(Nat)
      /\ \A s \in Seq(Nat), t \in Seq(Nat) : s \o t \in Seq(Nat)
  BY ConcatProperties, EmptySeq
<1>3. Tool!Lines(text, w, lf) \in Seq(Nat)
  <2>1. Tool!Lines(text, w, lf) = Tool!Flow(text, w, lf) \o <<lf>>
        \/ Tool!Lines(text, w, lf) = Tool!Flow(text, w, lf) \o << >>
    BY DEF Tool!Lines
  <2> QED
    BY <1>1, <1>2, <2>1
<1>4. Tool!Lines(text, 0, lf) = text \o << >>
  BY DEF Tool!Lines, Tool!Flow
<1> QED
  BY <1>3, <1>4, ConcatEmptySeq

----------------------------------------------------------------------------
\* The codecs of the tool.

LEMMA OptionsAre ==
    ASSUME NEW o \in Options
    PROVE  /\ o.encode \in BOOLEAN /\ o.decode \in BOOLEAN /\ o.simd \in BOOLEAN
           /\ o.wrap \in Nat \cup {NoWrap} /\ o.size \in Nat /\ NoWrap \notin Nat
BY FrontEndsAssumption

LEMMA WrapIs ==
    ASSUME NEW o \in Options, ~ Tool!Decoding(o)
    PROVE  /\ Tool!Wrap(o) \in Nat
           /\ o.wrap # NoWrap => Tool!Wrap(o) = o.wrap
<1>1. CASE o.wrap # NoWrap
  <2>1. Tool!Wrap(o) = o.wrap
    BY <1>1, Zenon DEF Tool!Wrap
  <2> QED
    BY <1>1, <2>1, OptionsAre
<1>2. CASE o.wrap = NoWrap /\ o.simd
  <2>1. Tool!Wrap(o) = 64
    BY <1>2, Zenon DEF Tool!Wrap
  <2> QED
    BY <1>2, <2>1
<1>3. CASE o.wrap = NoWrap /\ ~ o.simd
  <2>1. Tool!Wrap(o) = Tool!WrapDefault(o.name)
    BY <1>3, Zenon DEF Tool!Wrap
  <2> QED
    BY <1>3, <2>1 DEF Tool!WrapDefault
<1> QED
  BY <1>1, <1>2, <1>3

\* An accepted width is one of the codec's.
LEMMA WidthIs ==
    ASSUME NEW o \in Options, ~ Tool!Decoding(o), ~ Tool!Refused(o)
    PROVE  /\ Tool!Format(o) \in {"henke", "simd"}
           /\ Tool!CodecWidth(o) \in WidthsOf(Tool!Format(o))
<1>1. CASE o.simd
  <2>1. Tool!Wrap(o) \in Nat /\ Tool!Wrap(o) % 32 = 0
    BY <1>1, WrapIs DEF Tool!Refused
  <2> QED
    BY <1>1, <2>1 DEF Tool!Format, Tool!CodecWidth, WidthsOf
<1>2. CASE ~ o.simd
  BY <1>2 DEF Tool!Format, Tool!CodecWidth, WidthsOf
<1> QED
  BY <1>1, <1>2

LEMMA Encodes ==
    ASSUME EncoderAdds, NEW f \in {"henke", "simd"}, NEW w \in WidthsOf(f),
           NEW s \in Seq(Byte), NEW n \in 0 .. Len(s), NEW m \in 0 .. n
    PROVE  /\ Written(f, << >>, w) = << >>
           /\ Written(f, SubSeq(s, 1, n), w) \in Seq(Nat)
           /\ Ended(f, s, w) \in Seq(Nat)
           /\ Starts(Written(f, SubSeq(s, 1, m), w), Written(f, SubSeq(s, 1, n), w))
           /\ Starts(Written(f, SubSeq(s, 1, n), w), Ended(f, s, w))
<1> DEFINE t == SubSeq(s, 1, n)
<1>1. t \in Seq(Byte) /\ Len(t) = n /\ SubSeq(t, 1, m) = SubSeq(s, 1, m)
  BY FrontOf
<1> HIDE DEF t
<1>2. /\ Written(f, << >>, w) = << >>
      /\ \A b \in Seq(Byte) :
          /\ Written(f, b, w) \in Seq(Nat) /\ Ended(f, b, w) \in Seq(Nat)
          /\ Starts(Written(f, b, w), Ended(f, b, w))
          /\ \A k \in 0 .. Len(b) :
                Starts(Written(f, SubSeq(b, 1, k), w), Written(f, b, w))
  BY Zenon DEF EncoderAdds
<1>3. Starts(Written(f, SubSeq(t, 1, m), w), Written(f, t, w))
  BY <1>1, <1>2
<1>4. Starts(Written(f, t, w), Written(f, s, w))
  BY <1>2 DEF t
<1>5. Starts(Written(f, t, w), Ended(f, s, w))
  BY <1>1, <1>2, <1>4, StartsOn, Zenon
<1> QED
  BY <1>1, <1>2, <1>3, <1>5 DEF t

LEMMA Decodes ==
    ASSUME DecoderAdds, NEW s \in Seq(Nat), NEW n \in 0 .. Len(s), NEW m \in 0 .. n
    PROVE  /\ Decoded(SubSeq(s, 1, n)) \in Seq(Nat) /\ Whole(s) \in Seq(Nat)
           /\ Decoded(s) \in Seq(Nat)
           /\ Starts(Decoded(SubSeq(s, 1, m)), Decoded(SubSeq(s, 1, n)))
           /\ Starts(Decoded(SubSeq(s, 1, n)), Decoded(s))
           /\ ~ RejectsEnd(s) => Starts(Decoded(SubSeq(s, 1, n)), Whole(s))
           /\ Rejects(SubSeq(s, 1, n)) => Rejects(s)
           /\ Rejects(s) => RejectsEnd(s)
<1> DEFINE t == SubSeq(s, 1, n)
<1>1. t \in Seq(Nat) /\ Len(t) = n /\ SubSeq(t, 1, m) = SubSeq(s, 1, m)
  BY FrontOf
<1> HIDE DEF t
<1>2. \A b \in Seq(Nat) :
        /\ Decoded(b) \in Seq(Nat) /\ Whole(b) \in Seq(Nat)
        /\ ~ RejectsEnd(b) => Starts(Decoded(b), Whole(b))
        /\ Rejects(b) => RejectsEnd(b)
        /\ \A k \in 0 .. Len(b) :
              /\ Starts(Decoded(SubSeq(b, 1, k)), Decoded(b))
              /\ Rejects(SubSeq(b, 1, k)) => Rejects(b)
  BY Zenon DEF DecoderAdds
<1>3. Starts(Decoded(SubSeq(t, 1, m)), Decoded(t))
  BY <1>1, <1>2
<1>4. Starts(Decoded(t), Decoded(s)) /\ (Rejects(t) => Rejects(s))
  BY <1>2 DEF t
<1>5. ~ RejectsEnd(s) => Starts(Decoded(t), Whole(s))
  BY <1>1, <1>2, <1>4, StartsOn, Zenon
<1>6. Decoded(t) \in Seq(Nat) /\ Whole(s) \in Seq(Nat) /\ Decoded(s) \in Seq(Nat)
      /\ (Rejects(s) => RejectsEnd(s))
  BY <1>1, <1>2, Zenon
<1> QED
  BY <1>1, <1>3, <1>4, <1>5, <1>6, Zenon DEF t

\* What the codec of the tool makes of the first n symbols is how its output
\* begins, and the whole is the goal, but for the lines.
LEMMA CodecAdds ==
    ASSUME DecoderAdds, EncoderAdds, NEW o, NEW s, Readable(o, s),
           ~ Tool!Refused(o), NEW n \in 0 .. Len(s), NEW m \in 0 .. n
    PROVE  /\ SoFar(o, s, 0) = << >>
           /\ SoFar(o, s, n) \in Seq(Nat) /\ SoFar(o, s, m) \in Seq(Nat)
           /\ Final(o, s) \in Seq(Nat)
           /\ Goal(o, s) \in Seq(Nat)
           /\ Starts(SoFar(o, s, m), SoFar(o, s, n))
           /\ ~ (Tool!Decoding(o) /\ RejectsEnd(s)) => Starts(SoFar(o, s, n), Final(o, s))
           /\ ~ Laid(o) => Starts(SoFar(o, s, n), Goal(o, s))
<1>0. o \in Options /\ s \in Seq(Nat) /\ SubSeq(s, 1, 0) = << >> /\ m \in 0 .. Len(s)
      /\ m \in 0 .. m
  BY LenProperties, SubSeqEmpty DEF Readable
<1>1. CASE Tool!Decoding(o)
  <2>1. /\ Decoded(SubSeq(s, 1, n)) \in Seq(Nat) /\ Whole(s) \in Seq(Nat)
        /\ Decoded(s) \in Seq(Nat)
        /\ Starts(Decoded(SubSeq(s, 1, m)), Decoded(SubSeq(s, 1, n)))
        /\ Starts(Decoded(SubSeq(s, 1, n)), Decoded(s))
        /\ ~ RejectsEnd(s) => Starts(Decoded(SubSeq(s, 1, n)), Whole(s))
    BY <1>0, Decodes, Zenon
  <2>2. Decoded(SubSeq(s, 1, m)) \in Seq(Nat)
    BY <1>0, Decodes, Zenon
  <2>3. Decoded(<< >>) = << >>
    BY DEF DecoderAdds
  <2> QED
    BY <1>0, <1>1, <2>1, <2>2, <2>3, Zenon DEF SoFar, Final, Goal
<1>2. CASE ~ Tool!Decoding(o)
  <2> DEFINE f == Tool!Format(o)
             w == Tool!CodecWidth(o)
  <2>1. f \in {"henke", "simd"} /\ w \in WidthsOf(f) /\ s \in Seq(Byte)
    BY <1>0, <1>2, WidthIs DEF Readable
  <2> HIDE DEF f, w
  <2>2. /\ Written(f, << >>, w) = << >>
        /\ Written(f, SubSeq(s, 1, n), w) \in Seq(Nat)
        /\ Ended(f, s, w) \in Seq(Nat)
        /\ Starts(Written(f, SubSeq(s, 1, m), w), Written(f, SubSeq(s, 1, n), w))
        /\ Starts(Written(f, SubSeq(s, 1, n), w), Ended(f, s, w))
    BY <2>1, Encodes, Zenon
  <2>3. Written(f, SubSeq(s, 1, m), w) \in Seq(Nat)
    BY <1>0, <2>1, Encodes, Zenon
  <2>4. Tool!Lines(Ended(f, s, w), Tool!Wrap(o), LineFeed) \in Seq(Nat)
    BY <1>0, <1>2, <2>2, WrapIs, LinesAreNumbers, FrontEndsAssumption, Zenon
  <2>5. /\ SoFar(o, s, 0) = << >>
        /\ SoFar(o, s, n) = Written(f, SubSeq(s, 1, n), w)
        /\ SoFar(o, s, m) = Written(f, SubSeq(s, 1, m), w)
        /\ Final(o, s) = Ended(f, s, w)
    BY <1>0, <1>2, <2>2, Zenon DEF SoFar, Final, f, w
  <2>6. /\ Goal(o, s) \in Seq(Nat)
        /\ ~ Laid(o) => Goal(o, s) = Final(o, s)
    BY <1>2, <2>2, <2>4, <2>5, Zenon DEF Goal
  <2> QED
    BY <1>2, <2>2, <2>3, <2>5, <2>6, Zenon
<1> QED
  BY <1>1, <1>2

----------------------------------------------------------------------------
\* The tool, step by step.

LEMMA Parted ==
    ASSUME NEW s \in Seq(Nat), NEW t \in Seq(Nat), NEW u \in Seq(Nat)
    PROVE  /\ s \o t \in Seq(Nat) /\ (s \o t) \o u \in Seq(Nat)
           /\ t \o u \in Seq(Nat)
           /\ s \o (t \o u) = (s \o t) \o u
           /\ s \o << >> = s /\ << >> \o s = s /\ << >> \in Seq(Nat)
<1>1. s \o t \in Seq(Nat) /\ (s \o t) \o u \in Seq(Nat) /\ t \o u \in Seq(Nat)
  BY ConcatProperties
<1>2. s \o (t \o u) = (s \o t) \o u
  BY SeqJoined
<1>3. s \o << >> = s /\ << >> \o s = s /\ << >> \in Seq(Nat)
  BY ConcatEmptySeq, EmptySeq
<1> QED
  BY <1>1, <1>2, <1>3

LEMMA SentAndHeld ==
    ASSUME ToolSound
    PROVE  /\ Sent \in Seq(Nat) /\ Held \in Seq(Nat)
           /\ work = << >> => Held = Sent
           /\ obuf = << >> => Sent = sink
BY Parted DEF ToolSound, Sent, Held

\* A read has room for a symbol.
LEMMA IbufIs ==
    ASSUME NEW o \in Options
    PROVE  Tool!Ibuf(o) \in Nat /\ Tool!Ibuf(o) > 0
<1>1. o.size \in Nat
  BY OptionsAre
<1>2. /\ Tool!Most(o.size - 1, 0) \in Nat /\ Tool!Most(o.size - 2, 0) \in Nat
  BY <1>1 DEF Tool!Most
<1>3. /\ (Tool!Most(o.size - 1, 0) * 8) \div 15 \in Nat
      /\ (Tool!Most(o.size - 2, 0) * 16) \div 29 \in Nat
  BY <1>2
<1> QED
  BY <1>3 DEF Tool!Ibuf, Tool!Most

LEMMA StartKeeps ==
    ASSUME DecoderAdds, EncoderAdds, ToolSound,
           Tool!Refuse \/ Tool!Open \/ Tool!OpenFails
    PROVE  ToolSound'
<1>1. /\ UNCHANGED <<opts, source, taken, work, obuf, sink>> /\ pc = "start"
      /\ Held = << >> /\ Sent = << >> /\ taken = 0
      /\ \/ Tool!Refused(opts) /\ pc' = "error" /\ mishaps' = mishaps
         \/ ~ Tool!Refused(opts) /\ pc' = "read" /\ mishaps' = mishaps
         \/ ~ Tool!Refused(opts) /\ pc' = "failing" /\ mishaps' = mishaps + 1
  BY DEF Tool!Refuse, Tool!Open, Tool!OpenFails, Tool!Mishap, Tool!Fail, ToolSound
<1>2. Held' = Held /\ Sent' = Sent
  BY <1>1 DEF Held, Sent
<1>3. ~ Tool!Refused(opts) => SoFar(opts, source, 0) = << >>
  <2>1. 0 \in 0 .. Len(source) /\ 0 \in 0 .. 0
    BY <1>1 DEF ToolSound
  <2> QED
    BY <2>1, CodecAdds, Zenon DEF ToolSound
<1> QED
  BY <1>1, <1>2, <1>3 DEF ToolSound, Places

\* The text of a chunk, or all that is left of it, goes to the buffer.
LEMMA PutKeeps ==
    ASSUME DecoderAdds, EncoderAdds, ToolSound, Tool!Put
    PROVE  ToolSound'
<1>1. /\ UNCHANGED <<opts, source, taken, sink, mishaps>>
      /\ obuf' = obuf \o work /\ work' = << >>
      /\ \/ pc = "put" /\ pc' = "read"
         \/ pc = "last" /\ ~ Tool!Decoding(opts) /\ pc' = "flush"
  BY DEF Tool!Put
<1>2. /\ obuf \in Seq(Nat) /\ sink \in Seq(Nat) /\ work \in Seq(Nat)
      /\ taken \in 0 .. Len(source) /\ Readable(opts, source)
  BY DEF ToolSound
<1>3. /\ obuf' \in Seq(Nat) /\ work' \in Seq(Nat)
      /\ Sent' = Held /\ Held' = Held
  <2>1. /\ obuf \o work \in Seq(Nat) /\ sink \o (obuf \o work) \in Seq(Nat)
        /\ << >> \in Seq(Nat)
    BY <1>2, ConcatProperties, EmptySeq
  <2>4. (sink \o obuf) \o work = sink \o (obuf \o work)
    BY <1>2, SeqJoined
  <2>2. Sent' = sink \o (obuf \o work) /\ Held = (sink \o obuf) \o work
        /\ Held' = Sent' \o << >>
    BY <1>1 DEF Sent, Held
  <2>3. Sent' \o << >> = Sent'
    BY <2>1, <2>2, ConcatEmptySeq
  <2> QED
    BY <1>1, <2>1, <2>2, <2>3, <2>4, Zenon
<1>4. Starts(Held, Goal(opts, source))
  <2>1. CASE pc = "put"
    <3>1. ~ Tool!Refused(opts) /\ ~ Laid(opts) /\ Held = SoFar(opts, source, taken)
      BY <2>1 DEF ToolSound
    <3>2. taken \in 0 .. taken
      BY <1>2
    <3> QED
      BY <1>2, <3>1, <3>2, CodecAdds, Zenon
  <2>2. CASE pc = "last"
    BY <2>2, SentAndHeld, StartsItself DEF ToolSound
  <2> QED
    BY <1>1, <2>1, <2>2
<1> QED
  BY <1>1, <1>2, <1>3, <1>4 DEF ToolSound, Places

\* What the codec adds goes behind what is held.
LEMMA HeldGrows ==
    ASSUME ToolSound, NEW t, Starts(Held, t), UNCHANGED <<obuf, sink>>,
           work' = work \o Tool!Added(Held, t)
    PROVE  work' \in Seq(Nat) /\ Sent' = Sent /\ Held' = t
<1>1. Held \in Seq(Nat) /\ Sent \in Seq(Nat) /\ work \in Seq(Nat) /\ t \in Seq(Nat)
  BY SentAndHeld, StartsIs DEF ToolSound
<1>2. Tool!Added(Held, t) \in Seq(Nat) /\ Held \o Tool!Added(Held, t) = t
  BY <1>1, SeqAddition DEF Tool!Added, Tool!Rest
<1>3. Sent' = Sent
  BY DEF Sent
<1> HIDE DEF Sent
<1> DEFINE a == Tool!Added(Held, t)
<1>4. a \in Seq(Nat) /\ work' = work \o a
  BY <1>2
<1> HIDE DEF a
<1>5. work \o a \in Seq(Nat)
  BY <1>1, <1>4, ConcatProperties
<1>7. (Sent \o work) \o a = Sent \o (work \o a)
  BY <1>1, <1>4, SeqJoined
<1>6. Held = Sent \o work /\ Held' = Sent' \o work'
  BY DEF Held
<1> QED
  BY <1>2, <1>3, <1>4, <1>5, <1>6, <1>7 DEF a

LEMMA EncodeReadKeeps ==
    ASSUME DecoderAdds, EncoderAdds, ToolSound, Tool!EncodeRead
    PROVE  ToolSound'
<1>1. PICK n \in Tool!Pieces(Tool!Least(Tool!Ibuf(opts), Tool!Unread)) :
          /\ taken' = taken + n
          /\ work' = work \o Tool!Added(Tool!Text(taken), Tool!Text(taken + n))
  BY DEF Tool!EncodeRead
<1>2. /\ UNCHANGED <<opts, source, obuf, sink, mishaps>>
      /\ pc = "read" /\ ~ Tool!Decoding(opts) /\ ~ Tool!Refused(opts)
      /\ pc' = IF Tool!Wrapping(opts) THEN "read" ELSE "put"
  BY DEF Tool!EncodeRead, Tool!Encoding, ToolSound
<1>3. /\ taken \in 0 .. Len(source) /\ Readable(opts, source) /\ opts \in Options
      /\ source \in Seq(Nat)
  BY DEF ToolSound, Readable
<1>4. /\ taken + n \in 0 .. Len(source) /\ taken \in 0 .. taken + n
  <2>1. Len(source) \in Nat /\ Tool!Ibuf(opts) \in Nat
    BY <1>3, LenProperties, IbufIs
  <2> QED
    BY <1>3, <2>1 DEF Tool!Pieces, Tool!Least, Tool!Unread
<1>5. /\ Tool!Text(taken) = SoFar(opts, source, taken)
      /\ Tool!Text(taken + n) = SoFar(opts, source, taken + n)
      /\ Held = SoFar(opts, source, taken)
  BY <1>2 DEF Tool!Text, Tool!Start, SoFar, ToolSound
<1>6. Starts(Held, SoFar(opts, source, taken + n))
  BY <1>2, <1>3, <1>4, <1>5, CodecAdds, Zenon
<1>7. work' \in Seq(Nat) /\ Sent' = Sent /\ Held' = SoFar(opts, source, taken + n)
  BY <1>1, <1>2, <1>5, <1>6, HeldGrows, Zenon
<1> QED
  BY <1>1, <1>2, <1>3, <1>4, <1>7 DEF ToolSound, Places, Laid

\* finish, and the lines.
LEMMA EncodeEndKeeps ==
    ASSUME DecoderAdds, EncoderAdds, ToolSound, Tool!EncodeEnd
    PROVE  ToolSound'
<1> DEFINE all == work \o Tool!Added(Tool!Text(taken), Tool!Closed(taken))
<1>1. /\ UNCHANGED <<opts, source, taken, obuf, sink, mishaps>>
      /\ pc = "read" /\ ~ Tool!Decoding(opts) /\ ~ Tool!Refused(opts)
      /\ pc' = "last"
      /\ work' = IF Tool!Wrapping(opts)
                 THEN Tool!Lines(all, Tool!Wrap(opts), LineFeed) ELSE all
      /\ Tool!Least(Tool!Ibuf(opts), Tool!Unread) = 0
  BY DEF Tool!EncodeEnd, Tool!Encoding, ToolSound
<1>2. /\ taken \in 0 .. Len(source) /\ Readable(opts, source) /\ opts \in Options
      /\ source \in Seq(Nat)
      /\ work \in Seq(Nat)
  BY DEF ToolSound, Readable
<1>3. taken = Len(source) /\ taken \in 0 .. taken
  <2>1. Len(source) \in Nat /\ Tool!Ibuf(opts) \in Nat /\ Tool!Ibuf(opts) > 0
    BY <1>2, LenProperties, IbufIs
  <2> QED
    BY <1>1, <1>2, <2>1 DEF Tool!Least, Tool!Unread
<1>4. SubSeq(source, 1, taken) = source
  BY <1>2, <1>3, SubSeqFull
<1>5. /\ Tool!Text(taken) = SoFar(opts, source, taken)
      /\ Tool!Closed(taken) = Final(opts, source)
      /\ Held = SoFar(opts, source, taken)
  BY <1>1, <1>4 DEF Tool!Text, Tool!Closed, Tool!Start, SoFar, Final, ToolSound
<1>6. /\ Starts(Held, Final(opts, source)) /\ Final(opts, source) \in Seq(Nat)
      /\ Goal(opts, source) \in Seq(Nat)
  BY <1>1, <1>2, <1>3, <1>5, CodecAdds, Zenon
<1>7. Held \in Seq(Nat) /\ Sent \in Seq(Nat) /\ Sent' = Sent
  BY <1>1, SentAndHeld DEF Sent
<1>8. work' \in Seq(Nat) /\ Held' = Goal(opts, source)
  <2>1. CASE Tool!Wrapping(opts)
    <3>1. Sent = << >> /\ Laid(opts)
      BY <1>1, <2>1 DEF ToolSound, Laid
    <3>2. Held = work
      BY <1>2, <3>1, Parted DEF Held
    <3>3. all = Final(opts, source)
      <4>1. Held \o Tool!Added(Held, Final(opts, source)) = Final(opts, source)
        BY <1>6, <1>7, SeqAddition DEF Tool!Added, Tool!Rest
      <4> QED
        BY <1>5, <3>2, <4>1, Zenon
    <3>4. work' = Goal(opts, source)
      BY <1>1, <2>1, <3>1, <3>3, Zenon DEF Goal
    <3>5. Held' = Sent' \o work'
      BY DEF Held
    <3> QED
      BY <1>6, <1>7, <3>1, <3>4, <3>5, Parted
  <2>2. CASE ~ Tool!Wrapping(opts)
    <3>1. work' = work \o Tool!Added(Held, Final(opts, source))
      BY <1>1, <1>5, <2>2
    <3>2. work' \in Seq(Nat) /\ Held' = Final(opts, source)
      BY <1>1, <1>6, <3>1, HeldGrows, Zenon
    <3> QED
      BY <1>1, <2>2, <3>2 DEF Goal, Laid
  <2> QED
    BY <2>1, <2>2
<1> QED
  BY <1>1, <1>2, <1>7, <1>8 DEF ToolSound, Places

\* A read of the decoder: a valid piece.
LEMMA DecodePullKeeps ==
    ASSUME DecoderAdds, EncoderAdds, ToolSound, Tool!DecodePull
    PROVE  ToolSound'
<1>1. PICK n \in Tool!Pieces(Tool!Unread) :
          /\ taken' = taken + n
          /\ work' = Tool!Added(Decoded(Tool!Start(source, taken)),
                                Decoded(Tool!Start(source, taken + n)))
  BY DEF Tool!DecodePull
<1>2. /\ UNCHANGED <<opts, source, obuf, sink, pc, mishaps>>
      /\ pc = "read" /\ Tool!Decoding(opts) /\ ~ Tool!Refused(opts) /\ work = << >>
  BY DEF Tool!DecodePull, Tool!Pulling, Tool!Refused
<1>3. /\ taken \in 0 .. Len(source) /\ Readable(opts, source)
      /\ source \in Seq(Nat)
  BY DEF ToolSound, Readable
<1>4. /\ taken + n \in 0 .. Len(source) /\ taken \in 0 .. taken + n
  <2>1. Len(source) \in Nat
    BY <1>3, LenProperties
  <2> QED
    BY <1>3, <2>1 DEF Tool!Pieces, Tool!Unread
<1>5. /\ Decoded(Tool!Start(source, taken)) = SoFar(opts, source, taken)
      /\ Decoded(Tool!Start(source, taken + n)) = SoFar(opts, source, taken + n)
      /\ Held = SoFar(opts, source, taken)
  BY <1>2 DEF Tool!Start, SoFar, ToolSound
<1>6. /\ Starts(Held, SoFar(opts, source, taken + n))
      /\ SoFar(opts, source, taken + n) \in Seq(Nat)
  BY <1>2, <1>3, <1>4, <1>5, CodecAdds, Zenon
<1>7. work' \in Seq(Nat) /\ Sent' = Sent /\ Held' = SoFar(opts, source, taken + n)
  <2>1. Held \in Seq(Nat)
    BY SentAndHeld
  <2>2. Tool!Added(Held, SoFar(opts, source, taken + n)) \in Seq(Nat)
    BY <1>6, <2>1, SeqAddition DEF Tool!Added, Tool!Rest
  <2>3. work' = work \o Tool!Added(Held, SoFar(opts, source, taken + n))
    BY <1>1, <1>2, <1>5, <2>2, ConcatEmptySeq
  <2> QED
    BY <1>2, <1>6, <2>3, HeldGrows, Zenon
<1> QED
  BY <1>1, <1>2, <1>3, <1>4, <1>7 DEF ToolSound, Laid

\* The end of a valid text.
LEMMA DecodeEndKeeps ==
    ASSUME DecoderAdds, EncoderAdds, ToolSound, Tool!DecodeEnd
    PROVE  ToolSound'
<1>1. /\ UNCHANGED <<opts, source, taken, obuf, sink, mishaps>>
      /\ pc = "read" /\ Tool!Decoding(opts) /\ ~ Tool!Refused(opts) /\ work = << >>
      /\ pc' = "last" /\ ~ RejectsEnd(source) /\ Tool!Unread = 0
      /\ work' = Tool!Added(Decoded(source), Whole(source))
  BY DEF Tool!DecodeEnd, Tool!Pulling, Tool!Refused
<1>2. /\ taken \in 0 .. Len(source) /\ Readable(opts, source)
      /\ source \in Seq(Nat)
  BY DEF ToolSound, Readable
<1>3. taken = Len(source) /\ taken \in 0 .. taken
  <2>1. Len(source) \in Nat
    BY <1>2, LenProperties
  <2> QED
    BY <1>1, <1>2, <2>1 DEF Tool!Unread
<1>4. SubSeq(source, 1, taken) = source
  BY <1>2, <1>3, SubSeqFull
<1>5. /\ Decoded(source) = SoFar(opts, source, taken)
      /\ Whole(source) = Final(opts, source)
      /\ Held = SoFar(opts, source, taken)
      /\ Final(opts, source) = Goal(opts, source)
  BY <1>1, <1>4 DEF SoFar, Final, Goal, ToolSound
<1>6. /\ Starts(Held, Goal(opts, source)) /\ Goal(opts, source) \in Seq(Nat)
  BY <1>1, <1>2, <1>3, <1>5, CodecAdds, Zenon
<1>7. work' \in Seq(Nat) /\ Sent' = Sent /\ Held' = Goal(opts, source)
  <2>1. Held \in Seq(Nat)
    BY SentAndHeld
  <2>2. Tool!Added(Held, Goal(opts, source)) \in Seq(Nat)
    BY <1>6, <2>1, SeqAddition DEF Tool!Added, Tool!Rest
  <2>3. work' = work \o Tool!Added(Held, Goal(opts, source))
    BY <1>1, <1>5, <2>2, ConcatEmptySeq
  <2> QED
    BY <1>1, <1>6, <2>3, HeldGrows, Zenon
<1> QED
  BY <1>1, <1>2, <1>7 DEF ToolSound, Places

\* An error in what was read is an error of the whole.
LEMMA DecodeInvalidKeeps ==
    ASSUME DecoderAdds, EncoderAdds, ToolSound, Tool!DecodeInvalid
    PROVE  ToolSound'
<1>1. /\ UNCHANGED <<opts, source, taken, work, obuf, sink, mishaps>>
      /\ pc = "read" /\ Tool!Decoding(opts) /\ ~ Tool!Refused(opts) /\ work = << >>
      /\ pc' = "failing"
  BY DEF Tool!DecodeInvalid, Tool!Pulling, Tool!Fail, Tool!Refused
<1>2. /\ taken \in 0 .. Len(source) /\ source \in Seq(Nat)
  BY DEF ToolSound, Readable
<1>3. RejectsEnd(source)
  <2>1. CASE RejectsEnd(source)
    BY <2>1
  <2>2. ASSUME NEW n \in Tool!Pieces(Tool!Unread),
               Rejects(Tool!Start(source, taken + n))
        PROVE  RejectsEnd(source)
    <3>1. Len(source) \in Nat
      BY <1>2, LenProperties
    <3>2. taken + n \in 0 .. Len(source) /\ 0 \in 0 .. taken + n
      BY <1>2, <3>1 DEF Tool!Pieces, Tool!Unread
    <3>3. Rejects(SubSeq(source, 1, taken + n))
      BY <2>2 DEF Tool!Start
    <3> QED
      BY <1>2, <3>2, <3>3, Decodes, Zenon
  <2> QED
    BY <2>1, <2>2 DEF Tool!DecodeInvalid
<1>4. Held' = Held /\ Sent' = Sent
  BY <1>1 DEF Held, Sent
<1> QED
  BY <1>1, <1>3, <1>4 DEF ToolSound, Places, Laid

\* A read returns the first bytes that are held.
LEMMA DecodeServeKeeps ==
    ASSUME DecoderAdds, EncoderAdds, ToolSound, Tool!DecodeServe
    PROVE  ToolSound'
<1> DEFINE n == Tool!Least(Tool!Ibuf(opts), Len(work))
           s == SubSeq(work, 1, n)
           t == SubSeq(work, n + 1, Len(work))
<1>1. /\ UNCHANGED <<opts, source, taken, sink, pc, mishaps>>
      /\ pc \in {"read", "last"} /\ Tool!Decoding(opts) /\ ~ Tool!Refused(opts)
      /\ obuf' = obuf \o s /\ work' = t
  BY DEF Tool!DecodeServe, Tool!Refused, Tool!Start, Tool!Rest
<1>2. /\ taken \in 0 .. Len(source) /\ Readable(opts, source) /\ opts \in Options
      /\ work \in Seq(Nat) /\ obuf \in Seq(Nat) /\ sink \in Seq(Nat)
  BY DEF ToolSound, Readable
<1>3. n \in 0 .. Len(work)
  <2>1. Len(work) \in Nat /\ Tool!Ibuf(opts) \in Nat
    BY <1>2, LenProperties, IbufIs
  <2> QED
    BY <2>1 DEF Tool!Least
<1> HIDE DEF n
<1>4. s \in Seq(Nat) /\ t \in Seq(Nat) /\ s \o t = work
  BY <1>2, <1>3, SeqHalves
<1> HIDE DEF s, t
<1>5. /\ obuf \o s \in Seq(Nat) /\ sink \o obuf \in Seq(Nat)
      /\ (sink \o obuf) \o s \in Seq(Nat)
  BY <1>2, <1>4, ConcatProperties
<1>6. (sink \o obuf) \o s = sink \o (obuf \o s)
  BY <1>2, <1>4, SeqJoined
<1>7. ((sink \o obuf) \o s) \o t = (sink \o obuf) \o (s \o t)
  BY <1>4, <1>5, SeqJoined
<1>8. Sent' = sink \o (obuf \o s) /\ Held' = Sent' \o t
      /\ Held = (sink \o obuf) \o work
  BY <1>1 DEF Sent, Held
<1>9. Held' = Held /\ Sent' \in Seq(Nat)
  BY <1>4, <1>5, <1>6, <1>7, <1>8
<1>10. Starts(Sent', Goal(opts, source))
  <2>1. Starts(Held, Goal(opts, source))
    <3>1. CASE pc = "read"
      <4>1. ~ Laid(opts) /\ Held = SoFar(opts, source, taken)
        BY <1>1, <3>1 DEF ToolSound, Laid
      <4>2. taken \in 0 .. taken
        BY <1>2
      <4> QED
        BY <1>1, <1>2, <4>1, <4>2, CodecAdds, Zenon
    <3>2. CASE pc = "last"
      BY <3>2, SentAndHeld, StartsItself DEF ToolSound
    <3> QED
      BY <1>1, <3>1, <3>2
  <2>2. Starts(Sent' \o t, Goal(opts, source))
    BY <1>8, <1>9, <2>1
  <2> QED
    BY <1>4, <1>9, <2>2, StartsPart
<1> QED
  BY <1>1, <1>2, <1>4, <1>5, <1>9, <1>10 DEF ToolSound, Laid

LEMMA DecodeOverKeeps ==
    ASSUME ToolSound, Tool!DecodeOver
    PROVE  ToolSound'
<1>1. opts \in Options
  BY DEF ToolSound, Readable
<1>2. Tool!Ibuf(opts) # 0
  BY <1>1, IbufIs
<1>3. /\ UNCHANGED <<opts, source, taken, work, obuf, sink, mishaps>>
      /\ pc = "last" /\ work = << >> /\ pc' = "flush"
  BY <1>2 DEF Tool!DecodeOver
<1>4. Held' = Held /\ Sent' = Sent
  BY <1>3 DEF Held, Sent
<1> QED
  BY <1>3, <1>4 DEF ToolSound, Places

\* Errors and interruptions, of the input or of the output.
LEMMA TroubleKeeps ==
    ASSUME ToolSound,
           \/ Tool!ReadFails \/ Tool!ReadInterrupted \/ Tool!WriteFails
           \/ Tool!BrokenPipe
    PROVE  ToolSound'
<1>1. /\ UNCHANGED <<opts, source, taken, work, sink>> /\ mishaps' = mishaps + 1
      /\ \/ obuf' = obuf /\ pc' \in {"failing", "killed", pc}
         \/ obuf' = << >> /\ pc' = pc /\ pc = "failing"
      /\ pc \in {"read", "put", "last", "flush", "failing"}
  BY DEF Tool!ReadFails, Tool!ReadInterrupted, Tool!WriteFails, Tool!BrokenPipe,
     Tool!Mishap, Tool!Fail, Tool!Encoding, Tool!Pulling, Tool!Writing
<1>2. mishaps' \in Nat /\ mishaps' > 0 /\ ~ Tool!Refused(opts)
  BY <1>1 DEF ToolSound
<1>3. CASE obuf' = obuf /\ pc' \in {"failing", "killed", pc}
  <2>1. Held' = Held /\ Sent' = Sent
    BY <1>1, <1>3 DEF Held, Sent
  <2> QED
    BY <1>1, <1>2, <1>3, <2>1 DEF ToolSound, Places
<1>4. CASE obuf' = << >> /\ pc' = pc /\ pc = "failing"
  <2>1. << >> \in Seq(Nat) /\ sink \in Seq(Nat) /\ obuf \in Seq(Nat)
    BY EmptySeq DEF ToolSound
  <2>2. Sent' = sink
    BY <1>1, <1>4, <2>1, ConcatEmptySeq DEF Sent
  <2>3. Starts(sink, Goal(opts, source))
    <3>1. Starts(sink \o obuf, Goal(opts, source))
      BY DEF ToolSound, Sent
    <3> QED
      BY <2>1, <3>1, StartsPart
  <2> QED
    BY <1>1, <1>2, <1>4, <2>1, <2>2, <2>3 DEF ToolSound, Places
<1> QED
  BY <1>1, <1>3, <1>4

\* The BufWriter writes some of its buffer.
LEMMA SpillKeeps ==
    ASSUME ToolSound, Tool!Spill
    PROVE  ToolSound'
<1>1. PICK k \in {1, Len(obuf)} :
        sink' = sink \o SubSeq(obuf, 1, k) /\ obuf' = SubSeq(obuf, k + 1, Len(obuf))
  BY DEF Tool!Spill, Tool!Start, Tool!Rest
<1>2. /\ UNCHANGED <<opts, source, taken, work, pc, mishaps>> /\ obuf # << >>
      /\ pc # "done"
  BY DEF Tool!Spill, Tool!Writing
<1>3. sink \in Seq(Nat) /\ obuf \in Seq(Nat)
  BY DEF ToolSound
<1>4. k \in 0 .. Len(obuf)
  <2>1. Len(obuf) \in Nat \ {0}
    BY <1>2, <1>3, EmptySeq
  <2> QED
    BY <2>1
<1> DEFINE s == SubSeq(obuf, 1, k)
           t == SubSeq(obuf, k + 1, Len(obuf))
<1>5. s \in Seq(Nat) /\ t \in Seq(Nat) /\ s \o t = obuf
  BY <1>3, <1>4, SeqHalves
<1>6. sink' = sink \o s /\ obuf' = t
  BY <1>1
<1> HIDE DEF s, t
<1>7. sink' \in Seq(Nat) /\ obuf' \in Seq(Nat)
  BY <1>3, <1>5, <1>6, ConcatProperties
<1>8. (sink \o s) \o t = sink \o (s \o t)
  BY <1>3, <1>5, SeqJoined
<1>9. Sent' = Sent /\ Held' = Held
  BY <1>2, <1>5, <1>6, <1>8 DEF Sent, Held
<1> QED
  BY <1>2, <1>7, <1>9 DEF ToolSound, Laid

LEMMA OverKeeps ==
    ASSUME ToolSound, Tool!Finish \/ Tool!Exit1
    PROVE  ToolSound'
<1>1. /\ UNCHANGED <<opts, source, taken, work, obuf, sink, mishaps>> /\ obuf = << >>
      /\ \/ pc = "flush" /\ pc' = "done"
         \/ pc = "failing" /\ pc' = "error"
  BY DEF Tool!Finish, Tool!Exit1
<1>2. Held' = Held /\ Sent' = Sent
  BY <1>1 DEF Held, Sent
<1> QED
  BY <1>1, <1>2 DEF ToolSound, Places

LEMMA ToolKeeps ==
    ASSUME DecoderAdds, EncoderAdds, ToolSound, Tool!Run \/ Tool!Trouble
    PROVE  ToolSound' /\ UNCHANGED <<opts, source>> /\ mishaps' \in Nat
<1>1. UNCHANGED <<opts, source>>
  BY DEF Tool!Run, Tool!Trouble, Tool!Refuse, Tool!Open, Tool!EncodeRead,
     Tool!EncodeEnd, Tool!Put, Tool!DecodePull, Tool!DecodeEnd,
     Tool!DecodeInvalid, Tool!DecodeServe, Tool!DecodeOver, Tool!Spill,
     Tool!Finish, Tool!Exit1, Tool!OpenFails, Tool!ReadFails,
     Tool!ReadInterrupted, Tool!WriteFails, Tool!BrokenPipe
<1>2. ToolSound'
  BY StartKeeps, EncodeReadKeeps, EncodeEndKeeps, PutKeeps, DecodePullKeeps,
     DecodeEndKeeps, DecodeInvalidKeeps, DecodeServeKeeps, DecodeOverKeeps,
     SpillKeeps, OverKeeps, TroubleKeeps, Zenon DEF Tool!Run, Tool!Trouble
<1>3. mishaps' \in Nat
  BY <1>2 DEF ToolSound
<1> QED
  BY <1>1, <1>2, <1>3

----------------------------------------------------------------------------
\* The objects.

LEMMA ObjectsAre ==
    ASSUME NEW o \in Objects
    PROVE  FormatOf(o) \in {"henke", "simd"} /\ o.wrap \in WidthsOf(FormatOf(o))
<1>1. \/ o \in [class : {"Encoder", "Decoder", "SimdDecoder"}, wrap : {0}]
      \/ o \in [class : {"SimdEncoder"}, wrap : {w \in Nat : w % 32 = 0}]
  BY FrontEndsAssumption
<1>2. CASE o \in [class : {"Encoder", "Decoder", "SimdDecoder"}, wrap : {0}]
  <2>1. o.class # "SimdEncoder" /\ o.wrap = 0
    BY <1>2
  <2> QED
    BY <2>1 DEF FormatOf, WidthsOf
<1>3. CASE o \in [class : {"SimdEncoder"}, wrap : {w \in Nat : w % 32 = 0}]
  <2>1. o.class = "SimdEncoder" /\ o.wrap \in {w \in Nat : w % 32 = 0}
    BY <1>3
  <2> QED
    BY <2>1, Zenon DEF FormatOf, WidthsOf
<1> QED
  BY <1>1, <1>2, <1>3

LEMMA MakesAdds ==
    ASSUME DecoderAdds, EncoderAdds, NEW o, NEW d, Suits(o, d),
           NEW n \in 0 .. Len(d)
    PROVE  /\ Makes(o, << >>) = << >>
           /\ Makes(o, d) \in Seq(Nat) /\ Ends(o, d) \in Seq(Nat)
           /\ Starts(Makes(o, SubSeq(d, 1, n)), Makes(o, d))
           /\ Encoder(o) \/ ~ RejectsEnd(d) => Starts(Makes(o, d), Ends(o, d))
<1>0. /\ o \in Objects /\ d \in Seq(Nat) /\ Len(d) \in 0 .. Len(d)
      /\ n \in 0 .. Len(d)
      /\ SubSeq(d, 1, Len(d)) = d
  BY LenProperties, SubSeqFull DEF Suits
<1>1. CASE Encoder(o)
  <2> DEFINE f == FormatOf(o)
             w == o.wrap
  <2>1. f \in {"henke", "simd"} /\ w \in WidthsOf(f) /\ d \in Seq(Byte)
    BY <1>0, <1>1, ObjectsAre DEF Suits
  <2> HIDE DEF f, w
  <2>2. /\ Written(f, << >>, w) = << >>
        /\ Written(f, SubSeq(d, 1, Len(d)), w) \in Seq(Nat)
        /\ Ended(f, d, w) \in Seq(Nat)
        /\ Starts(Written(f, SubSeq(d, 1, n), w), Written(f, SubSeq(d, 1, Len(d)), w))
        /\ Starts(Written(f, SubSeq(d, 1, Len(d)), w), Ended(f, d, w))
    BY <1>0, <2>1, Encodes, Zenon
  <2> QED
    BY <1>0, <1>1, <2>2, Zenon DEF Makes, Ends, f, w
<1>2. CASE ~ Encoder(o)
  <2>1. /\ Decoded(SubSeq(d, 1, Len(d))) \in Seq(Nat) /\ Whole(d) \in Seq(Nat)
        /\ Starts(Decoded(SubSeq(d, 1, n)), Decoded(SubSeq(d, 1, Len(d))))
        /\ ~ RejectsEnd(d) => Starts(Decoded(SubSeq(d, 1, Len(d))), Whole(d))
    BY <1>0, Decodes, Zenon
  <2>2. Decoded(<< >>) = << >>
    BY DEF DecoderAdds
  <2> QED
    BY <1>0, <1>2, <2>1, <2>2, Zenon DEF Makes, Ends
<1> QED
  BY <1>1, <1>2

LEMMA ClassIs ==
    /\ Class!Encodes <=> Encoder(object)
    /\ \A d : Class!Output(d) = Makes(object, d)
    /\ \A d : Class!Complete(d) = Ends(object, d)
BY Zenon DEF Class!Encodes, Class!Output, Class!Complete, Class!ClassFormat, Encoder,
   Makes, Ends, FormatOf

\* What is made of more, behind what was made before.
LEMMA ExtraAdds ==
    ASSUME NEW s \in Seq(Nat), NEW t, Starts(s, t)
    PROVE  s \o Class!Extra(s, t) = t
<1>1. t \in Seq(Nat)
  BY StartsIs
<1> QED
  BY <1>1, SeqAddition DEF Class!Extra

LEMMA UpdateKeeps ==
    ASSUME DecoderAdds, EncoderAdds, ClassSound, UNCHANGED source,
           NEW n \in 0 .. Len(source) - Len(session),
           Class!Update(SubSeq(source, Len(session) + 1, Len(session) + n))
    PROVE  ClassSound'
<1> DEFINE k == Len(session)
           data == SubSeq(source, k + 1, k + n)
           bad == ~ Encoder(object) /\ data # << >> /\ (invalid \/ Rejects(inner \o data))
<1>1. /\ Suits(object, source) /\ session \in Seq(Nat) /\ inner \in Seq(Nat)
      /\ source \in Seq(Nat) /\ buf \in Seq(Nat) /\ invalid \in BOOLEAN
      /\ k <= Len(source) /\ session = SubSeq(source, 1, k)
  BY DEF ClassSound, Suits
<1>2. Len(source) \in Nat /\ k \in Nat /\ k + n \in Nat /\ k + n <= Len(source)
      /\ (k + n) - k = n /\ k <= k + n
  BY <1>1, LenProperties
<1>3. /\ session' = session \o data /\ object' = object /\ asked' = asked
      /\ invalid' = (invalid \/ bad)
      /\ bad => result' = Class!Raised /\ inner' = inner /\ buf' = buf
      /\ ~ bad => /\ inner' = inner \o data /\ result' = Class!None
                 /\ buf' = buf \o Class!Extra(Makes(object, inner),
                                              Makes(object, inner \o data))
  BY ClassIs, Zenon DEF Class!Update
<1>4. data \in Seq(Nat) /\ Len(data) = n
  BY <1>1, <1>2, SeqCut
<1> HIDE DEF k
<1>5. SubSeq(source, 1, k) \o data = SubSeq(source, 1, k + n)
  <2> DEFINE e == k + n
  <2>1. /\ 0 \in Nat /\ 0 <= k /\ 0 + 1 = 1 /\ e \in Nat /\ k <= e
        /\ e <= Len(source) /\ k \in Nat /\ source \in Seq(Nat)
    BY <1>1, <1>2
  <2> HIDE DEF e
  <2>2. SubSeq(source, 0 + 1, k) \o SubSeq(source, k + 1, e) = SubSeq(source, 0 + 1, e)
    BY <2>1, SeqParts, Zenon
  <2> QED
    BY <2>1, <2>2 DEF e
<1> HIDE DEF data
<1>6. /\ session' \in Seq(Nat) /\ Len(session') = k + n
      /\ session' = SubSeq(source, 1, k + n)
  BY <1>1, <1>3, <1>4, <1>5, ConcatProperties DEF k
<1>7. Encoder(object) => session' \in Seq(Byte)
  <2>1. k + n \in 0 .. Len(source) /\ 0 \in 0 .. k + n
    BY <1>2
  <2>2. Encoder(object) => source \in Seq(Byte)
    BY <1>1 DEF Suits
  <2> QED
    BY <1>6, <2>1, <2>2, FrontOf, Zenon
<1>8. ~ invalid => inner = session
  BY DEF ClassSound
<1>9. invalid => ~ Encoder(object) /\ Rejects(session)
  BY DEF ClassSound
<1>10. CASE bad
  <2>1. /\ ~ Encoder(object) /\ result' = Class!Raised /\ inner' = inner /\ buf' = buf
        /\ invalid' /\ data # << >>
    BY <1>3, <1>10
  <2>2. session' # << >>
    <3>1. n # 0
      BY <1>4, <2>1, EmptySeq
    <3> QED
      BY <1>2, <1>6, <3>1, EmptySeq
  <2>3. Rejects(session')
    <3>1. CASE invalid
      <4>1. k + n \in 0 .. Len(source) /\ k \in 0 .. k + n /\ k \in 0 .. Len(session')
            /\ 0 \in 0 .. k
        BY <1>2, <1>6
      <4>2. session = SubSeq(session', 1, k)
        <5>1. SubSeq(SubSeq(source, 1, k + n), 1, k) = SubSeq(source, 1, k)
          BY <1>1, <4>1, FrontOf, Zenon
        <5> QED
          BY <1>1, <1>6, <5>1
      <4> QED
        BY <1>6, <1>9, <3>1, <4>1, <4>2, Decodes, Zenon
    <3>2. CASE ~ invalid
      BY <1>3, <1>8, <1>10, <3>2 DEF bad
    <3> QED
      BY <3>1, <3>2
  <2> HIDE DEF bad
  <2>4. result'.kind = "raised"
    BY <2>1 DEF Class!Raised
  <2> QED
    BY <1>1, <1>2, <1>3, <1>6, <2>1, <2>2, <2>3, <2>4 DEF ClassSound, Suits
<1>11. CASE ~ bad
  <2>1. /\ inner' = inner \o data /\ result' = Class!None
        /\ buf' = buf \o Class!Extra(Makes(object, inner), Makes(object, inner'))
        /\ invalid' = invalid
    BY <1>1, <1>3, <1>11
  <2>2. inner' \in Seq(Nat) /\ Len(inner) \in 0 .. Len(inner')
    BY <1>1, <1>4, <2>1, ConcatProperties, LenProperties
  <2>3. SubSeq(inner', 1, Len(inner)) = inner
    <3>1. Len(inner) \in 0 .. Len(inner)
      BY <1>1, LenProperties
    <3> QED
      BY <1>1, <1>4, <2>1, <3>1, SeqFront, SubSeqFull
  <2>4. ~ invalid => inner' = session'
    BY <1>3, <1>8, <2>1
  <2>5. Suits(object, inner')
    BY <1>1, <1>7, <1>9, <2>2, <2>4 DEF Suits
  <2>6. buf = Makes(object, inner)
    BY DEF ClassSound
  <2>7. Starts(buf, Makes(object, inner')) /\ Makes(object, inner') \in Seq(Nat)
    BY <2>2, <2>3, <2>5, <2>6, MakesAdds, Zenon
  <2>8. buf' = Makes(object, inner')
    BY <1>1, <2>1, <2>6, <2>7, ExtraAdds, Zenon
  <2>9. invalid => Rejects(session')
    <3> SUFFICES ASSUME invalid PROVE Rejects(session')
      OBVIOUS
    <3>1. data = << >>
      BY <1>9, <1>11
    <3>2. session' = session
      BY <1>1, <1>3, <3>1, ConcatEmptySeq
    <3> QED
      BY <1>9, <3>2
  <2>10. result'.kind = "none"
    BY <2>1 DEF Class!None
  <2> HIDE DEF bad
  <2>11. /\ Suits(object', source') /\ Suits(object', inner')
         /\ buf' = Makes(object', inner') /\ buf' \in Seq(Nat)
    BY <1>1, <1>3, <2>5, <2>7, <2>8
  <2>12. /\ Len(session') <= Len(source') /\ session' = SubSeq(source', 1, Len(session'))
         /\ invalid' \in BOOLEAN
    BY <1>1, <1>2, <1>6, <2>1
  <2>13. /\ ~ invalid' => inner' = session'
         /\ invalid' => ~ Encoder(object') /\ Rejects(session')
    BY <1>3, <1>9, <2>1, <2>4, <2>9
  <2>14. ~ (result'.kind = "bytes" \/ (result'.kind = "raised" /\ session' = << >>))
    BY <2>10
  <2> QED
    BY <1>6, <2>2, <2>11, <2>12, <2>13, <2>14, Zenon DEF ClassSound
<1> QED
  BY <1>10, <1>11

LEMMA FinishKeeps ==
    ASSUME DecoderAdds, EncoderAdds, ClassSound, UNCHANGED source, Class!Finish
    PROVE  ClassSound'
<1> DEFINE bad == ~ Encoder(object) /\ (invalid \/ RejectsEnd(inner))
<1>1. /\ inner' = << >> /\ invalid' = FALSE /\ buf' = << >> /\ session' = << >>
      /\ asked' = session /\ object' = object
      /\ bad => result' = Class!Raised
      /\ ~ bad => result' = Class!Returned(
              buf \o Class!Extra(Makes(object, inner), Ends(object, inner)))
  BY ClassIs, Zenon DEF Class!Finish
<1>2. /\ Suits(object, source) /\ Suits(object, inner) /\ session \in Seq(Nat)
      /\ inner \in Seq(Nat) /\ buf \in Seq(Nat) /\ buf = Makes(object, inner)
      /\ ~ invalid => inner = session
      /\ invalid => ~ Encoder(object) /\ Rejects(session)
  BY DEF ClassSound
<1>3. Rejects(session) => RejectsEnd(session)
  BY <1>2 DEF DecoderAdds
<1>4. result' = Answer(object, session)
  <2>1. CASE bad
    <3>1. RejectsEnd(session) /\ ~ Encoder(object)
      BY <1>2, <1>3, <2>1
    <3> QED
      BY <1>1, <2>1, <3>1 DEF Answer
  <2>2. CASE ~ bad
    <3>1. inner = session /\ (Encoder(object) \/ ~ RejectsEnd(inner))
      BY <1>2, <2>2
    <3>2. 0 \in 0 .. Len(inner)
      BY <1>2, LenProperties
    <3>3. Starts(buf, Ends(object, inner))
      BY <1>2, <3>1, <3>2, MakesAdds, Zenon
    <3>4. buf \o Class!Extra(buf, Ends(object, inner)) = Ends(object, inner)
      BY <1>2, <3>3, ExtraAdds, Zenon
    <3> QED
      BY <1>1, <1>2, <2>2, <3>1, <3>4, Zenon DEF Answer
  <2> QED
    BY <2>1, <2>2
<1>5. /\ << >> \in Seq(Nat) /\ << >> \in Seq(Byte) /\ Len(<< >>) = 0
      /\ SubSeq(source, 1, 0) = << >> /\ Len(source) \in Nat
  BY <1>2, EmptySeq, SubSeqEmpty, LenProperties DEF Suits
<1>6. Suits(object, << >>)
  BY <1>2, <1>5 DEF Suits
<1>7. Makes(object, << >>) = << >>
  <2>1. 0 \in 0 .. Len(<< >>)
    BY <1>5
  <2> QED
    BY <1>6, <2>1, MakesAdds, Zenon
<1> HIDE DEF bad
<1>8. /\ Suits(object', source') /\ Suits(object', inner')
      /\ buf' = Makes(object', inner') /\ buf' \in Seq(Nat) /\ inner' \in Seq(Nat)
      /\ session' \in Seq(Nat) /\ inner' = session' /\ invalid' = FALSE
  BY <1>1, <1>2, <1>5, <1>6, <1>7
<1>9. Len(session') <= Len(source') /\ session' = SubSeq(source', 1, Len(session'))
  BY <1>1, <1>5
<1>10. result' = Answer(object', asked')
  BY <1>1, <1>4
<1> QED
  BY <1>8, <1>9, <1>10, Zenon DEF ClassSound

----------------------------------------------------------------------------
\* One front end and then another.

LEMMA GivenIs ==
    /\ \A s \in Inputs : s \in Seq(Byte) /\ s \in Seq(Nat)
    /\ \A s \in Texts : s \in Seq(Nat)
<1>1. Inputs \subseteq Seq(Byte) /\ Texts \subseteq Seq(Nat)
  BY FrontEndsAssumption DEF Byte
<1> QED
  BY <1>1, BytesAreNumbers

LEMMA DecodersAre ==
    /\ Decoders \subseteq Objects
    /\ \A o \in Decoders : ~ Encoder(o)
    /\ \A o \in Objects : o \notin Decoders => Encoder(o)
<1>1. ASSUME NEW o \in Objects, o \notin Decoders PROVE Encoder(o)
  <2>1. \/ o \in [class : {"Encoder", "Decoder", "SimdDecoder"}, wrap : {0}]
        \/ o \in [class : {"SimdEncoder"}, wrap : {w \in Nat : w % 32 = 0}]
    BY FrontEndsAssumption
  <2>2. o.class \in {"Encoder", "Decoder", "SimdDecoder", "SimdEncoder"}
    BY <2>1
  <2> QED
    BY <1>1, <2>2 DEF Decoders, Encoder
<1> QED
  BY <1>1 DEF Decoders, Encoder

\* A tool that starts.
ToolFresh ==
    /\ Readable(opts, source) /\ taken = 0 /\ work = << >> /\ obuf = << >>
    /\ sink = << >> /\ pc = "start" /\ mishaps \in Nat

LEMMA ToolBegins == DecoderAdds /\ EncoderAdds /\ ToolFresh => ToolSound
<1> SUFFICES ASSUME DecoderAdds, EncoderAdds, ToolFresh PROVE ToolSound
  OBVIOUS
<1> USE DEF ToolFresh
<1>1. source \in Seq(Nat) /\ << >> \in Seq(Nat)
  BY EmptySeq DEF Readable
<1>2. taken \in 0 .. Len(source) /\ taken \in 0 .. taken
  BY <1>1, LenProperties
<1>3. Sent = << >> /\ Held = << >>
  BY <1>1, ConcatEmptySeq DEF Sent, Held
<1>4. Starts(<< >>, Goal(opts, source))
  <2>1. CASE Tool!Refused(opts)
    BY <1>1, <2>1, StartsItself DEF Goal, Tool!Refused
  <2>2. CASE ~ Tool!Refused(opts)
    <3>1. Goal(opts, source) \in Seq(Nat)
      BY <1>2, <2>2, CodecAdds, Zenon
    <3> QED
      BY <3>1, StartsItself
  <2> QED
    BY <2>1, <2>2
<1> QED
  BY <1>1, <1>2, <1>3, <1>4 DEF ToolSound, Places

\* An object that is created.
ClassFresh ==
    /\ Suits(object, source) /\ inner = << >> /\ invalid = FALSE /\ buf = << >>
    /\ session = << >> /\ result = Class!None

LEMMA ClassBegins == DecoderAdds /\ EncoderAdds /\ ClassFresh => ClassSound
<1> SUFFICES ASSUME DecoderAdds, EncoderAdds, ClassFresh PROVE ClassSound
  OBVIOUS
<1> USE DEF ClassFresh
<1>1. << >> \in Seq(Nat) /\ << >> \in Seq(Byte) /\ Len(<< >>) = 0 /\ 0 \in 0 .. Len(<< >>)
  BY EmptySeq
<1>2. Suits(object, << >>)
  BY <1>1 DEF Suits
<1>3. Makes(object, << >>) = << >>
  BY <1>1, <1>2, MakesAdds, Zenon
<1>4. Len(session) <= Len(source) /\ session = SubSeq(source, 1, Len(session))
  <2>1. Len(source) \in Nat
    BY LenProperties DEF Suits
  <2> QED
    BY <1>1, <2>1, SubSeqEmpty
<1>5. result.kind = "none"
  BY DEF Class!None
<1> QED
  BY <1>1, <1>2, <1>3, <1>4, <1>5 DEF ClassSound

LEMMA InitIInv ==
    ASSUME DecoderAdds, EncoderAdds, Init
    PROVE  IInv
<1>1. stage = "first" /\ mishaps = 0 /\ original = source
  BY DEF Init
<1>2. CASE ToolStarts
  <2>1. /\ user = "tool" /\ opts \in Options /\ taken = 0 /\ work = << >>
        /\ obuf = << >> /\ sink = << >> /\ pc = "start"
        /\ Tool!Decoding(opts) => source \in Texts
        /\ ~ Tool!Decoding(opts) => source \in Inputs
    BY <1>2 DEF ToolStarts
  <2>2. Readable(opts, source)
    BY <2>1, GivenIs DEF Readable
  <2>3. ToolSound
    BY <1>1, <2>1, <2>2, ToolBegins DEF ToolFresh
  <2> QED
    BY <1>1, <2>1, <2>3 DEF IInv, Relayed
<1>3. CASE ClassStarts
  <2>1. /\ user = "class" /\ object \in Objects /\ inner = << >> /\ invalid = FALSE
        /\ buf = << >> /\ session = << >> /\ result = Class!None
        /\ object \in Decoders => source \in Texts
        /\ object \notin Decoders => source \in Inputs
    BY <1>3 DEF ClassStarts
  <2>2. Suits(object, source) /\ (Encoder(object) => source \in Inputs)
    BY <2>1, GivenIs, DecodersAre DEF Suits
  <2>3. ClassSound
    BY <2>1, <2>2, ClassBegins DEF ClassFresh
  <2> QED
    BY <1>1, <2>1, <2>2, <2>3 DEF IInv, Relayed
<1> QED
  BY <1>2, <1>3 DEF Init

\* What is handed on is a text made from what was given.
LEMMA ProductIs ==
    ASSUME DecoderAdds, EncoderAdds, IInv, stage = "first", NEW t \in Product
    PROVE  original \in Inputs /\ MadeFrom(t, original) /\ t \in Seq(Nat)
<1>1. \/ /\ user = "tool" /\ pc = "done" /\ ~ Tool!Decoding(opts) /\ t = sink
      \/ /\ user = "class" /\ object \notin Decoders
         /\ result.kind = "bytes" /\ asked = source /\ t = result.out
  BY DEF Product
<1>2. CASE user = "tool" /\ pc = "done" /\ ~ Tool!Decoding(opts) /\ t = sink
  <2>1. source = original /\ original \in Inputs /\ ToolSound
    BY <1>2 DEF IInv, Relayed
  <2>2. /\ Held = Goal(opts, source) /\ work = << >> /\ obuf = << >>
        /\ ~ Tool!Refused(opts) /\ opts \in Options /\ sink \in Seq(Nat)
        /\ source \in Seq(Byte)
    BY <1>2, <2>1 DEF ToolSound, Readable
  <2>3. t = Goal(opts, source)
    BY <1>2, <2>1, <2>2, SentAndHeld
  <2>4. /\ Tool!Format(opts) \in {"henke", "simd"}
        /\ Tool!CodecWidth(opts) \in WidthsOf(Tool!Format(opts))
    BY <1>2, <2>2, WidthIs
  <2>5. CASE opts.simd
    <3>1. /\ Tool!Format(opts) = "simd" /\ ~ Laid(opts)
      BY <2>5 DEF Tool!Format, Laid, Tool!Wrapping
    <3>2. t = Ended("simd", original, Tool!CodecWidth(opts))
      BY <1>2, <2>1, <2>2, <2>3, <3>1, Zenon DEF Goal, Final
    <3> QED
      BY <1>2, <2>1, <2>2, <2>4, <3>1, <3>2 DEF MadeFrom
  <2>6. CASE ~ opts.simd
    <3>1. /\ Tool!Format(opts) = "henke" /\ Tool!CodecWidth(opts) = 0
          /\ Laid(opts) <=> Tool!Wrap(opts) # 0
      BY <1>2, <2>6 DEF Tool!Format, Tool!CodecWidth, Laid, Tool!Wrapping
    <3>2. Tool!Wrap(opts) \in Nat
      BY <1>2, <2>2, WrapIs
    <3>3. Final(opts, source) = Ended("henke", original, 0)
      BY <1>2, <2>1, <3>1, Zenon DEF Final
    <3>4. Final(opts, source) \in Seq(Nat)
      <4>1. Readable(opts, source) /\ 0 \in 0 .. Len(source) /\ 0 \in 0 .. 0
        BY <2>1, <2>2, LenProperties DEF ToolSound
      <4> QED
        BY <2>2, <4>1, CodecAdds, Zenon
    <3>5. t = Tool!Lines(Ended("henke", original, 0), Tool!Wrap(opts), LineFeed)
      <4>1. CASE Laid(opts)
        BY <1>2, <2>2, <2>3, <3>3, <4>1, Zenon DEF Goal
      <4>2. CASE ~ Laid(opts)
        <5>1. t = Final(opts, source)
          BY <1>2, <2>2, <2>3, <4>2, Zenon DEF Goal
        <5>2. Tool!Wrap(opts) = 0 /\ 0 \in Nat /\ LineFeed \in Nat
          BY <3>1, <4>2, FrontEndsAssumption
        <5>3. Tool!Lines(Final(opts, source), 0, LineFeed) = Final(opts, source)
          BY <3>4, <5>2, LinesAreNumbers, Zenon
        <5> QED
          BY <3>3, <5>1, <5>2, <5>3
      <4> QED
        BY <4>1, <4>2
    <3> QED
      BY <1>2, <2>1, <2>2, <3>2, <3>5 DEF MadeFrom
  <2> QED
    BY <2>5, <2>6
<1>3. CASE /\ user = "class" /\ object \notin Decoders
           /\ result.kind = "bytes" /\ asked = source /\ t = result.out
  <2>1. /\ source = original /\ ClassSound /\ Encoder(object) /\ object \in Objects
        /\ Suits(object, source)
    BY <1>3, DecodersAre DEF IInv, Relayed, ClassSound, Suits
  <2>2. original \in Inputs
    BY <1>3, <2>1 DEF IInv, Relayed
  <2>3. result = Class!Returned(Ends(object, source))
    BY <1>3, <2>1 DEF ClassSound, Answer
  <2>4. t = Ended(FormatOf(object), original, object.wrap)
    BY <1>3, <2>1, <2>3 DEF Class!Returned, Ends
  <2>5. Ends(object, source) \in Seq(Nat)
    <3>1. 0 \in 0 .. Len(source)
      BY <2>1, LenProperties DEF Suits
    <3> QED
      BY <2>1, <3>1, MakesAdds, Zenon
  <2>6. t \in Seq(Nat)
    BY <2>1, <2>4, <2>5 DEF Ends
  <2>7. FormatOf(object) \in {"henke", "simd"} /\ object.wrap \in WidthsOf(FormatOf(object))
    BY <2>1, ObjectsAre
  <2>8. MadeFrom(t, original)
    <3>1. CASE FormatOf(object) = "simd"
      BY <2>4, <2>7, <3>1 DEF MadeFrom
    <3>2. CASE FormatOf(object) = "henke"
      <4>1. object.wrap = 0
        BY <2>7, <3>2 DEF WidthsOf
      <4>2. t = Ended("henke", original, 0) /\ 0 \in Nat /\ LineFeed \in Nat
        BY <2>4, <3>2, <4>1, FrontEndsAssumption
      <4>3. Tool!Lines(t, 0, LineFeed) = t
        BY <2>6, <4>2, LinesAreNumbers, Zenon
      <4>4. \E w \in Nat : t = Tool!Lines(Ended("henke", original, 0), w, LineFeed)
        BY <4>2, <4>3, Zenon
      <4> QED
        BY <4>4, Zenon DEF MadeFrom
    <3> QED
      BY <2>7, <3>1, <3>2
  <2> QED
    BY <2>2, <2>6, <2>8
<1> QED
  BY <1>1, <1>2, <1>3

LEMMA RelayKeeps ==
    ASSUME DecoderAdds, EncoderAdds, IInv, Relay
    PROVE  IInv'
<1>1. /\ stage = "first" /\ stage' = "second" /\ source' \in Product
      /\ original' = original /\ mishaps' = mishaps
  BY DEF Relay
<1>2. original \in Inputs /\ MadeFrom(source', original) /\ source' \in Seq(Nat)
  BY <1>1, ProductIs
<1>3. mishaps \in Nat
  BY DEF IInv, Relayed
<1>4. ASSUME user' = "tool", NEW o \in DecodeOptions, Tool!Launch(o)
      PROVE  IInv'
  <2>1. /\ opts' = o /\ taken' = 0 /\ work' = << >> /\ obuf' = << >> /\ sink' = << >>
        /\ pc' = "start" /\ Tool!Decoding(o) /\ o \in Options
    BY <1>4 DEF Tool!Launch, DecodeOptions
  <2>2. Readable(opts', source')
    BY <1>2, <2>1 DEF Readable
  <2>3. (DecoderAdds /\ EncoderAdds /\ ToolFresh => ToolSound)'
    BY ToolBegins, PTL
  <2>4. ToolSound'
    BY <1>1, <1>3, <2>1, <2>2, <2>3 DEF ToolFresh
  <2> QED
    BY <1>1, <1>2, <1>3, <1>4, <2>1, <2>4 DEF IInv, Relayed
<1>5. ASSUME user' = "class", NEW o \in Decoders, Class!Create(o)
      PROVE  IInv'
  <2>1. /\ object' = o /\ inner' = << >> /\ invalid' = FALSE /\ buf' = << >>
        /\ session' = << >> /\ result' = Class!None
    BY <1>5 DEF Class!Create
  <2>2. Suits(object', source') /\ ~ Encoder(object')
    BY <1>2, <1>5, <2>1, DecodersAre DEF Suits
  <2>3. (DecoderAdds /\ EncoderAdds /\ ClassFresh => ClassSound)'
    BY ClassBegins, PTL
  <2>4. ClassSound'
    BY <2>1, <2>2, <2>3 DEF ClassFresh
  <2> QED
    BY <1>1, <1>2, <1>3, <1>5, <2>2, <2>4 DEF IInv, Relayed
<1> QED
  BY <1>4, <1>5 DEF Relay

LEMMA StepIInv ==
    ASSUME DecoderAdds, EncoderAdds, IInv, [Next]_vars
    PROVE  IInv'
<1>1. CASE ToolRuns \/ ToolInTrouble
  <2>1. /\ user = "tool" /\ (Tool!Run \/ Tool!Trouble) /\ ToolSound
        /\ UNCHANGED <<user, original, stage>>
    BY <1>1 DEF ToolRuns, ToolInTrouble, IInv
  <2>2. ToolSound' /\ UNCHANGED <<opts, source>> /\ mishaps' \in Nat
    BY <2>1, ToolKeeps
  <2> QED
    BY <2>1, <2>2 DEF IInv, Relayed
<1>2. CASE ClassUpdates
  <2>1. PICK n \in {0} \cup {k \in 1 .. Len(source) - Len(session) :
                               k \in ReadSizes \/ k = Len(source) - Len(session)} :
          Class!Update(SubSeq(source, Len(session) + 1, Len(session) + n))
    BY <1>2 DEF ClassUpdates
  <2>2. /\ user = "class" /\ ClassSound
        /\ UNCHANGED <<user, original, stage, source, mishaps>>
    BY <1>2 DEF ClassUpdates, process, IInv
  <2>3. n \in 0 .. Len(source) - Len(session)
    <3>1. Len(source) \in Nat /\ Len(session) \in Nat /\ Len(session) <= Len(source)
      BY <2>2, LenProperties DEF ClassSound, Suits
    <3> QED
      BY <3>1
  <2>4. ClassSound'
    BY <2>1, <2>2, <2>3, UpdateKeeps
  <2>5. object' = object
    BY <2>1 DEF Class!Update
  <2> QED
    BY <2>2, <2>4, <2>5 DEF IInv, Relayed
<1>3. CASE ClassFinishes
  <2>1. /\ user = "class" /\ ClassSound /\ Class!Finish
        /\ UNCHANGED <<user, original, stage, source, mishaps>>
    BY <1>3 DEF ClassFinishes, process, IInv
  <2>2. ClassSound'
    BY <2>1, FinishKeeps
  <2>3. object' = object
    BY <2>1 DEF Class!Finish
  <2> QED
    BY <2>1, <2>2, <2>3 DEF IInv, Relayed
<1>4. CASE Relay
  BY <1>4, RelayKeeps
<1>5. CASE UNCHANGED vars
  BY <1>5 DEF vars, process, binding, IInv, Relayed, ToolSound, ClassSound, Sent, Held
<1> QED
  BY <1>1, <1>2, <1>3, <1>4, <1>5 DEF Next

----------------------------------------------------------------------------
\* The theorems.

LEMMA WantedIs ==
    ASSUME user = "tool", ToolSound
    PROVE  Tool!Wanted = Goal(opts, source)
<1>1. SubSeq(source, 1, Len(source)) = source
  BY SubSeqFull DEF ToolSound, Readable
<1>2. CASE Tool!Decoding(opts)
  BY <1>2, Zenon DEF Tool!Wanted, Goal, Final
<1>3. CASE ~ Tool!Decoding(opts)
  <2>1. Tool!Closed(Len(source)) = Final(opts, source)
    BY <1>1, <1>3 DEF Tool!Closed, Tool!Start, Final
  <2> QED
    BY <1>3, <2>1, Zenon DEF Tool!Wanted, Goal, Laid
<1> QED
  BY <1>2, <1>3

LEMMA HonestNow ==
    ASSUME IInv
    PROVE  ToolIsHonest
<1> SUFFICES ASSUME user = "tool", ToolSound PROVE Tool!OutputHonest
  BY DEF ToolIsHonest, IInv
<1>1. Tool!Wanted = Goal(opts, source)
  BY WantedIs
<1>2. sink \in Seq(Nat) /\ obuf \in Seq(Nat) /\ opts \in Options
      /\ Starts(sink \o obuf, Goal(opts, source))
  BY DEF ToolSound, Sent, Readable
<1>3. Starts(sink, Goal(opts, source))
  BY <1>2, StartsPart
<1>4. Len(sink) <= Len(Goal(opts, source)) /\ sink = SubSeq(Goal(opts, source), 1, Len(sink))
  BY <1>2, <1>3, StartsIs
<1>5. ASSUME pc = "done" PROVE Tool!Acceptable /\ sink = Goal(opts, source)
  <2>1. /\ Held = Goal(opts, source) /\ work = << >> /\ obuf = << >>
        /\ ~ Tool!Refused(opts) /\ (Tool!Decoding(opts) => ~ RejectsEnd(source))
    BY <1>5 DEF ToolSound
  <2>2. sink = Goal(opts, source)
    BY <2>1, SentAndHeld
  <2>3. Tool!Acceptable
    <3>1. CASE Tool!Decoding(opts)
      BY <2>1, <3>1 DEF Tool!Acceptable
    <3>2. CASE ~ Tool!Decoding(opts)
      <4>1. opts.wrap # NoWrap => Tool!Wrap(opts) = opts.wrap
        BY <1>2, <3>2, WrapIs
      <4> QED
        BY <2>1, <3>2, <4>1 DEF Tool!Acceptable, Tool!Refused
    <3> QED
      BY <3>1, <3>2
  <2> QED
    BY <2>2, <2>3
<1> QED
  BY <1>1, <1>4, <1>5 DEF Tool!OutputHonest, Tool!Start

LEMMA ApartNow ==
    ASSUME IInv
    PROVE  SessionsApart
<1> SUFFICES ASSUME user = "class", ClassSound PROVE Class!SessionsApart
  BY DEF SessionsApart, IInv
<1> QED
  BY ClassIs, Zenon DEF ClassSound, Class!SessionsApart, Answer

LEMMA RoundTripNow ==
    ASSUME DecoderAdds, FormatsAgree, IInv
    PROVE  RoundTrip
<1> SUFFICES ASSUME stage = "second" PROVE RoundTrip
  BY DEF RoundTrip
<1>1. original \in Inputs /\ MadeFrom(source, original)
  BY DEF IInv, Relayed
<1>2. ASSUME user = "tool"
      PROVE  (pc = "done" => sink = original) /\ (pc = "error" => mishaps > 0)
  <2>1. ToolSound /\ Tool!Decoding(opts) /\ ~ Tool!Refused(opts)
    BY <1>2 DEF IInv, Relayed, Tool!Refused
  <2>2. source \in Seq(Nat)
    BY <2>1 DEF ToolSound, Readable
  <2>3. ~ RejectsEnd(source) /\ Whole(source) = original
    BY <1>1, <2>2, Zenon DEF FormatsAgree
  <2>4. pc = "done" => sink = Goal(opts, source)
    BY <2>1, SentAndHeld DEF ToolSound
  <2>5. Goal(opts, source) = original
    BY <2>1, <2>3, Zenon DEF Goal, Final
  <2> QED
    BY <2>1, <2>3, <2>4, <2>5 DEF ToolSound
<1>3. ASSUME user = "class"
      PROVE  /\ result.kind = "bytes" /\ asked = source => result.out = original
             /\ session = source => ~ invalid
  <2>1. ClassSound /\ ~ Encoder(object)
    BY <1>3 DEF IInv, Relayed
  <2>2. source \in Seq(Nat)
    BY <2>1 DEF ClassSound, Suits
  <2>3. ~ RejectsEnd(source) /\ Whole(source) = original
    BY <1>1, <2>2, Zenon DEF FormatsAgree
  <2>4. result.kind = "bytes" /\ asked = source => result = Class!Returned(original)
    BY <2>1, <2>3, Zenon DEF ClassSound, Answer, Ends
  <2>5. Class!Returned(original).out = original
    BY DEF Class!Returned
  <2>6. Rejects(source) => RejectsEnd(source)
    BY <2>2 DEF DecoderAdds
  <2>7. session = source => ~ invalid
    BY <2>1, <2>3, <2>6 DEF ClassSound
  <2> QED
    BY <2>4, <2>5, <2>7
<1> QED
  BY <1>2, <1>3 DEF RoundTrip

\* The inductive invariant.
THEOREM Invariance ==
    ASSUME DecoderAdds, EncoderAdds
    PROVE  Spec => []IInv
<1>1. Init => IInv
  BY InitIInv
<1>2. IInv /\ [Next]_vars => IInv'
  BY StepIInv
<1> QED
  BY <1>1, <1>2, PTL DEF Spec

\* Status 0 means a whole and right output; whatever the options, the input and
\* the failures, standard output has only bytes that belong there, in order.
THEOREM OutputIsHonest ==
    ASSUME DecoderAdds, EncoderAdds
    PROVE  Spec => []ToolIsHonest
<1>1. IInv => ToolIsHonest
  BY HonestNow
<1> QED
  BY <1>1, Invariance, PTL

\* finish answers what one codec answers on the bytes given since the finish
\* before, after an error too.
THEOREM ObjectsForget ==
    ASSUME DecoderAdds, EncoderAdds
    PROVE  Spec => []SessionsApart
<1>1. IInv => SessionsApart
  BY ApartNow
<1> QED
  BY <1>1, Invariance, PTL

\* What the tool or a class encodes, the other or the same gives back.
THEOREM EitherReadsEither ==
    ASSUME DecoderAdds, EncoderAdds, FormatsAgree
    PROVE  Spec => []RoundTrip
<1>1. IInv => RoundTrip
  BY RoundTripNow
<1> QED
  BY <1>1, Invariance, PTL
=============================================================================
