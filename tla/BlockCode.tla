----------------------------- MODULE BlockCode ------------------------------
(* The code of one block of the SIMD variant, as the scalar kernel computes  *)
(* it (driver.rs): 13 bytes are eight groups of 13 bits, the lowest first,   *)
(* and each group is two characters.                                         *)
(*                                                                           *)
(* A block is a function from 0 .. 12 (bytes) or 0 .. 15 (characters) to     *)
(* byte values.                                                              *)
EXTENDS Integers

Byte == 0 .. 255

BlockBytes == 13
BlockChars == 16

\* The alphabet skips the apostrophe, 39.
AlphabetChar(x) == IF x <= 3 THEN 35 + x ELSE 36 + x

InAlphabet(c) == c \in 35 .. 126 /\ c # 39

NotAlphabet == 255

Index(c) ==
    IF ~InAlphabet(c) THEN NotAlphabet ELSE IF c < 39 THEN c - 35 ELSE c - 36

\* Byte j of a block, in the 128 bits it is padded to.
PaddedByte(block, j) == IF j < BlockBytes THEN block[j] ELSE 0

\* Group k: the 13 bits from bit 13 * k on.
Group(block, k) ==
    LET q == (13 * k) \div 8
    IN  ((PaddedByte(block, q) + 256 * PaddedByte(block, q + 1)
            + 65536 * PaddedByte(block, q + 2)) \div 2^((13 * k) % 8)) % 8192

EncodeScalar(block) ==
    [x \in 0 .. BlockChars - 1 |->
        LET v == Group(block, x \div 2)
        IN  AlphabetChar(IF x % 2 = 0 THEN v % 91 ELSE v \div 91)]

\* The value of pair k of the characters, and whether the block is valid.
PairValue(chars, k) == Index(chars[2 * k]) + 91 * Index(chars[2 * k + 1])

ValidScalar(chars) ==
    /\ \A x \in 0 .. BlockChars - 1 : InAlphabet(chars[x])
    /\ \A k \in 0 .. 7 : PairValue(chars, k) <= 8191

\* Byte j: the 8 bits from bit 8 * j on, of one group or of two.
DecodeScalar(chars) ==
    [j \in 0 .. BlockBytes - 1 |->
        LET k == (8 * j) \div 13
            r == (8 * j) % 13
            g == PairValue(chars, k) % 8192
            h == IF k < 7 THEN PairValue(chars, k + 1) % 8192 ELSE 0
        IN  (g \div 2^r + h * 2^(13 - r)) % 256]
=============================================================================
