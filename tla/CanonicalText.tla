---------------------------- MODULE CanonicalText ----------------------------
(* The SIMD format's text of some bytes, as the test kit's oracle.rs writes  *)
(* it, bit by bit and in one piece; and what a streaming encoder promises    *)
(* about it.  A symbol is a character's index, or LF.                        *)
EXTENDS Integers, Sequences, FiniteSetsExt, SequencesExt

Char == 0 .. 90
Dash == 9
LF == 91
Symbol == Char \cup {LF}

----------------------------------------------------------------------------
\* Bit k of the stream: the least significant one of each byte first.
Bit(bytes, k) == (bytes[k \div 8 + 1] \div 2^(k % 8)) % 2

\* The value of group g: 13 consecutive bits, fewer in the last group.
GroupValue(bytes, g) ==
    LET bits == Min({13, 8 * Len(bytes) - 13 * g})
    IN  MapThenSumSet(LAMBDA j : Bit(bytes, 13 * g + j) * 2^j, 0 .. bits - 1)

\* The first n characters: two for each group, the low one first.
Chars(bytes, n) ==
    [k \in 1 .. n |->
        LET v == GroupValue(bytes, (k - 1) \div 2)
        IN  IF k % 2 = 1 THEN v % 91 ELSE v \div 91]

WholeGroups(bytes) == (8 * Len(bytes)) \div 13

\* A group of 6 bits or less at the end is one character.
PayloadLen(bytes) ==
    LET rest == (8 * Len(bytes)) % 13
    IN  2 * WholeGroups(bytes)
        + (IF rest = 0 THEN 0 ELSE IF rest <= 6 THEN 1 ELSE 2)

\* Lines of width characters, each followed by LF, and what is left.
Lines(payload, width) ==
    LET full == Len(payload) \div width
        line(l) == SubSeq(payload, (l - 1) * width + 1, l * width)
    IN  FlattenSeq([l \in 1 .. full |-> Append(line(l), LF)])
        \o SubSeq(payload, full * width + 1, Len(payload))

Laid(payload, width) ==
    IF width = 0 THEN <<Dash>> \o payload
    ELSE <<Dash, LF>> \o Lines(payload, width)

\* The complete stream: the last line has its LF too.
Text(bytes, width) ==
    IF bytes = << >> THEN << >>
    ELSE LET payload == Chars(bytes, PayloadLen(bytes))
         IN  Laid(payload, width)
             \o (IF width > 0 /\ Len(payload) % width > 0 THEN <<LF>>
                                                          ELSE << >>)

\* The part of it that no byte to come can change.
SettledText(bytes, width) ==
    IF bytes = << >> THEN << >>
    ELSE Laid(Chars(bytes, 2 * WholeGroups(bytes)), width)

----------------------------------------------------------------------------
\* A streaming encoder writes what is settled as soon as it has the bytes,
\* and the rest when it is finished.
VARIABLES width, given, text, done

Init == width \in Nat /\ given = << >> /\ text = << >> /\ done = FALSE

Give ==
    /\ ~ done
    /\ IsPrefix(given, given')
    /\ text' = SettledText(given', width)
    /\ UNCHANGED <<width, done>>

Finish ==
    /\ ~ done
    /\ text' = Text(given, width) /\ done' = TRUE
    /\ UNCHANGED <<width, given>>

Begin ==
    /\ done
    /\ given' = << >> /\ text' = << >> /\ done' = FALSE
    /\ UNCHANGED width

Next == Give \/ Finish \/ Begin

Spec == Init /\ [][Next]_<<width, given, text, done>>
=============================================================================
