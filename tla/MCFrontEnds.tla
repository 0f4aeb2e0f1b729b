---------------------------- MODULE MCFrontEnds ----------------------------
(* Inputs, texts and options for model-checking FrontEnds, with the formats  *)
(* as HenkeReference and CanonicalText write them.  A symbol of a text is a  *)
(* Henke character by number, 91 for LF, or 100 and more for a character of  *)
(* the SIMD alphabet.                                                        *)
EXTENDS FrontEnds, SequencesExt, FiniteSetsExt

Henke == INSTANCE HenkeReference
Canon == INSTANCE CanonicalText WITH
             width <- 0, given <- << >>, text <- << >>, done <- FALSE
Strict == INSTANCE SimdOracle WITH
              BlockChars <- 16, WidthUnit <- 32, InvalidTails <- {1, 6, 11}

Break == 91
Dash == 109

\* Nothing, a few bytes, and a block of 13 with one more.
Bytes14 == [k \in 1 .. 14 |-> (37 * k * k) % 256]
MCInputs == {<< >>, <<255, 0, 88>>, Bytes14}
Heads == UNION {{SubSeq(b, 1, n) : n \in 0 .. Len(b)} : b \in MCInputs}
Widths == {0, 32, 64}

Symbols(canonical) ==
    [k \in DOMAIN canonical |->
        IF canonical[k] = Canon!LF THEN Break ELSE 100 + canonical[k]]

HenkeWritten == [b \in Heads |-> Henke!EncodeAll(b).text]
HenkeEnded == [b \in Heads |-> Henke!EncEnd(Henke!EncodeAll(b))]
SimdWritten ==
    [b \in Heads, w \in Widths |-> Symbols(Canon!SettledText(b, w))]
SimdEnded == [b \in Heads, w \in Widths |-> Symbols(Canon!Text(b, w))]

MCWritten(f, b, w) == IF f = "henke" THEN HenkeWritten[b] ELSE SimdWritten[b, w]
MCEnded(f, b, w) == IF f = "henke" THEN HenkeEnded[b] ELSE SimdEnded[b, w]

----------------------------------------------------------------------------
\* A valid stream in lines with a character outside the alphabet late in it,
\* and one whose last group is not complete.
Bad == 99
SimdTexts == {SimdEnded[b, w] : b \in MCInputs, w \in Widths}
Spoilt ==
    {[SimdEnded[Bytes14, 0] EXCEPT ![19] = Bad], SubSeq(SimdEnded[Bytes14, 0], 1, 18)}
HenkeTexts ==
    {Tool!Lines(HenkeEnded[b], w, Break) : b \in MCInputs, w \in {0, 2, 32, 76}}
MCTexts == Spoilt \cup {<<Break, 80, 1, Break, 2>>}

PrefixesOf(texts) == UNION {{SubSeq(t, 1, n) : n \in 0 .. Len(t)} : t \in texts}

MCIsHenke(t) == ~ \E n \in 1 .. Len(t) :
                    t[n] = Dash /\ \A k \in 1 .. n - 1 : t[k] = Break

\* The reference's verdict looks at the layout and the alphabet only.
Layout(t) ==
    [k \in DOMAIN t |-> CASE t[k] = Dash -> "dash" [] t[k] = Break -> "lf"
                          [] t[k] = Bad -> "bad" [] OTHER -> "hash"]

\* The bytes whose text begins with these characters.
Payload(t) == SelectSeq(Tail(t), LAMBDA c : c # Break)
Origin(t, n) ==
    CHOOSE b \in MCInputs :
        IsPrefix(SubSeq(Payload(t), 1, n),
                 [k \in 1 .. Canon!PayloadLen(b) |->
                     100 + Canon!Chars(b, Canon!PayloadLen(b))[k]])

SimdAnswer(t) ==
    LET v == Strict!Verdict(Layout(t))
        n == Len(v.payload)
        blocks == n \div 16
        b == Origin(t, n)
        bad == v.err # Strict!NoError
        short == ~ Strict!LengthValid(v.payload)
    IN  [decoded |-> SubSeq(b, 1, 13 * blocks), rejects |-> bad,
         rejectsEnd |-> bad \/ short,
         whole |-> IF bad \/ short THEN << >>
                   ELSE CHOOSE h \in {SubSeq(b, 1, m) : m \in 0 .. Len(b)} :
                            Canon!PayloadLen(h) = n]

HenkeAnswer(t) ==
    LET s == Henke!DecodeAll(t)
    IN  [decoded |-> s.out, whole |-> Henke!DecEnd(s),
         rejects |-> FALSE, rejectsEnd |-> FALSE]

Answers ==
    [t \in PrefixesOf(MCTexts \cup SimdTexts \cup HenkeTexts) |->
        IF MCIsHenke(t) THEN HenkeAnswer(t) ELSE SimdAnswer(t)]
MCDecoded(t) == Answers[t].decoded
MCWhole(t) == Answers[t].whole
MCRejects(t) == Answers[t].rejects
MCRejectsEnd(t) == Answers[t].rejectsEnd

----------------------------------------------------------------------------
\* What FrontEndsProofs assumes of the codecs, for these inputs and texts: more
\* input only adds to the output, an error stays one, and either format's two
\* halves agree.
ASSUME MCCodecsAdd ==
    /\ MCDecoded(<< >>) = << >>
    /\ \A t \in DOMAIN Answers :
        /\ ~ MCRejectsEnd(t) => IsPrefix(MCDecoded(t), MCWhole(t))
        /\ MCRejects(t) => MCRejectsEnd(t)
        /\ \A n \in 0 .. Len(t) :
              /\ IsPrefix(MCDecoded(SubSeq(t, 1, n)), MCDecoded(t))
              /\ MCRejects(SubSeq(t, 1, n)) => MCRejects(t)
    /\ \A f \in {"henke", "simd"}, w \in Widths : f = "simd" \/ w = 0 =>
        /\ MCWritten(f, << >>, w) = << >>
        /\ \A b \in Heads :
              /\ IsPrefix(MCWritten(f, b, w), MCEnded(f, b, w))
              /\ \A n \in 0 .. Len(b) :
                    IsPrefix(MCWritten(f, SubSeq(b, 1, n), w), MCWritten(f, b, w))

ASSUME MCFormatsAgree ==
    \A b \in MCInputs :
        \A t \in {SimdEnded[b, w] : w \in Widths}
                 \cup {Tool!Lines(HenkeEnded[b], w, Break) : w \in {0, 2, 32, 76}} :
            ~ MCRejectsEnd(t) /\ MCWhole(t) = b

----------------------------------------------------------------------------
\* SIZE 3 leaves an input buffer of a byte, 40 one of more than a block.
MCNoWrap == -1
Sizes == {3, 40}
MCOptions ==
    [name : {"base91", "b91enc", "b91dec"}, encode : BOOLEAN,
     decode : BOOLEAN, simd : BOOLEAN, wrap : {MCNoWrap, 0, 2, 32}, size : Sizes]

MCObjects ==
    {[class |-> "Encoder", wrap |-> 0], [class |-> "Decoder", wrap |-> 0],
     [class |-> "SimdDecoder", wrap |-> 0]}
    \cup {[class |-> "SimdEncoder", wrap |-> w] : w \in {0, 32}}
=============================================================================
