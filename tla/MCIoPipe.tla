------------------------------ MODULE MCIoPipe ------------------------------
(* Codecs, files and calls for model-checking IoPipe: Henke's format as its  *)
(* reference decodes it, the SIMD format in blocks of 2 characters.  The     *)
(* codecs are tabulated, for TLC's sake.                                     *)
EXTENDS IoPipe, SequencesExt

Henke == INSTANCE HenkeReference
Simd == INSTANCE StrictDecoder WITH
            BlockChars <- 2, WidthUnit <- 2, InvalidTails <- {1},
            Streams <- {}, LaterStreams <- {}, ChunkSizes <- {},
            stream <- sink, fed <- taken, out <- << >>, ret <- "", ended <- FALSE

\* The symbols of the SIMD format by number, as Henke's are.
Symbols == <<"dash", "hash", "lf", "sp", "bad">>
Verdict(text) == Simd!Verdict([i \in DOMAIN text |-> Symbols[text[i]]])

\* Every stream of a '-' and a few bytes of which one is a mistake or none,
\* a wrapped stream, blanks, and Henke's text with junk.
SimdTexts ==
    {<<1>> \o t : t \in [1 .. 4 -> {1, 2, 5}]}
    \cup {<<1, 3, 2, 1, 3, 2, 3>>, <<4, 3, 1, 2>>, <<4, 4>>, << >>}
HenkeTexts == {<<0, 1, 91, 91, 88, 90>>, <<91, 7>>, <<80, 1, 2, 3, 4>>}
MCFiles ==
    [format : {"simd"}, text : SimdTexts]
    \cup [format : {"henke"}, text : HenkeTexts]

\* A byte that the encoder keeps, two, and text that the buffer cannot hold.
MCWrites == {<<88>>, <<255, 0>>, <<0, 88, 255, 255>>}
Sent == {FlattenSeq(s) : s \in BoundedSeq(MCWrites, MaxBytes)}

TextTable == [b \in Sent |-> Henke!EncodeAll(b).text]
ClosedTable == [b \in Sent |-> Henke!EncEnd(Henke!EncodeAll(b))]
TextOf(bytes) == TextTable[bytes]
ClosedOf(bytes) == ClosedTable[bytes]

\* A payload character stands for the bytes it decodes to.
Bytes(payload) == [i \in DOMAIN payload |-> Simd!Index[payload[i]]]

PrefixesOf(texts) == UNION {{SubSeq(t, 1, n) : n \in 0 .. Len(t)} : t \in texts}
Answers == [
    simd |-> [t \in PrefixesOf(SimdTexts) |->
        LET v == Verdict(t)
            rejects == v.err # Simd!NoError
        IN  [decoded |-> Bytes(Simd!WholeBlocks(v.payload)),
             whole |-> Bytes(v.payload),
             rejects |-> rejects,
             rejectsEnd |-> rejects \/ ~ Simd!LengthValid(v.payload)]],
    henke |-> [t \in PrefixesOf(HenkeTexts \cup Range(ClosedTable)) |->
        LET s == Henke!DecodeAll(t)
        IN  [decoded |-> s.out, whole |-> Henke!DecEnd(s),
             rejects |-> FALSE, rejectsEnd |-> FALSE]]]
DecodedBy(f, text) == Answers[f][text].decoded
WholeBy(f, text) == Answers[f][text].whole
RejectsBy(f, text) == Answers[f][text].rejects
RejectsEndBy(f, text) == Answers[f][text].rejectsEnd
=============================================================================
