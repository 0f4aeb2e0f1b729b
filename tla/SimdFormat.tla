----------------------------- MODULE SimdFormat -----------------------------
(* The SIMD wire format's vocabulary, shared by the decoder core, the       *)
(* strict abstract decoder and the reference scanner: bytes, terminators,   *)
(* block and width units, and errors.                                       *)
(*                                                                          *)
(* A byte is one of seven representatives.  Three are characters of the     *)
(* 91-character alphabet, with their real indices, so that a pair's value   *)
(* is computed exactly; three are whitespace; "bad" stands for every other  *)
(* byte.                                                                    *)
EXTENDS Integers, Sequences

CONSTANTS
    BlockChars,     \* characters of a block: 16 in the code
    WidthUnit,      \* a line width is a multiple of it: 32 in the code
    InvalidTails    \* the payload lengths mod BlockChars that no encoder
                    \* produces: {1, 6, 11} in the code

ASSUME FormatAssumption ==
    /\ BlockChars \in Nat \ {0} /\ BlockChars % 2 = 0
    /\ WidthUnit \in Nat \ {0} /\ WidthUnit % BlockChars = 0
    /\ InvalidTails \subseteq 1 .. (BlockChars - 1)

Alphabet == {"dash", "hash", "tilde"}
Whitespace == {"sp", "cr", "lf"}
Byte == Alphabet \cup Whitespace \cup {"bad"}

\* INDEX: '-' is character 9 of the alphabet, '#' the first, '~' the last.
Index == [dash |-> 9, hash |-> 0, tilde |-> 90]

\* A pair is two characters, low one first; 13 bits hold at most 0x1FFF.
PairTooBig(lo, hi) == Index[lo] + 91 * Index[hi] > 8191

LF == <<"lf">>
CRLF == <<"cr", "lf">>
Unwrapped == << >>
Terminator == {Unwrapped, LF, CRLF}

StartsWith(s, t) == Len(t) <= Len(s) /\ SubSeq(s, 1, Len(t)) = t

\* Errors carry the offset of a byte of the whole stream, except
\* InvalidLength; NoError is the absence of one.
Error(kind, offset) == [kind |-> kind, offset |-> offset]
NoError == Error("None", 0)
InvalidLength == Error("InvalidLength", 0)
ErrorKinds == {"None", "InvalidCharacter", "InvalidLayout",
               "InvalidValue", "InvalidLength"}
Errors == [kind : ErrorKinds, offset : Nat]

\* The error for a whitespace run that is not a line break, by the text that
\* starts at its first byte out of place.
RunError(text, offset) ==
    Error(IF StartsWith(text, LF) \/ StartsWith(text, CRLF)
          THEN "InvalidLayout" ELSE "InvalidCharacter", offset)
=============================================================================
