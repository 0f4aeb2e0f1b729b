---------------------------- MODULE VectorKernel ----------------------------
(* The SSE4.1 kernels of x86.rs, and the AVX2 ones, which are the same on    *)
(* each half of their registers.                                             *)
EXTENDS Lanes

\* Encoding.  data is the 16 bytes loaded, the first 13 of them the block's.

\* Bytes 3k .. 3k + 3 hold groups 2k and 2k + 1, from bit 2k on; aligned, the
\* groups are at bits 6 and 19.
Aligned(data, k) ==
    ShiftLeft(FromBytes(data[3 * k], data[3 * k + 1], data[3 * k + 2], data[3 * k + 3]),
              6 - 2 * k)

GroupValue(data, g) ==
    IF g % 2 = 0 THEN ShiftRight(Aligned(data, g \div 2), 6)[1] % 8192
    ELSE ShiftRight(Aligned(data, g \div 2), 3)[2] % 8192

\* Word g divided by 91: a multiplication, and a shift of the double word
\* whose words are g and its neighbor, of which a mask keeps a byte.
Magic91 == 2881
Shift91 == 2

Quotient91(data, g) ==
    LET high(x) == MulHighWord(GroupValue(data, x), Magic91)
        k       == g \div 2
    IN  LowByte(ShiftRight(Double(high(2 * k), high(2 * k + 1)), Shift91)[(g % 2) + 1])

\* lo + 256 * hi, with lo = v - 91 * hi.
Interleaved(data, g) ==
    AddWord(GroupValue(data, g), MulLowWord(Quotient91(data, g), 165))

\* The character of an index: one more from the apostrophe on.
VectorChar(x) == LET c == AddByte(x, 35) IN SubByte(c, GreaterByte(c, 38))

EncodeVector(data) ==
    [x \in 0 .. 15 |->
        LET w == Interleaved(data, x \div 2)
        IN  VectorChar(IF x % 2 = 0 THEN LowByte(w) ELSE HighByte(w))]

----------------------------------------------------------------------------
\* Decoding: the index of a character, and the one that is checked.
VectorIndex(c) == AddByte(SubByte(c, 35), GreaterByte(c, 38))

CheckedIndex(c) == IF EqualByte(c, 39) = 255 THEN 255 ELSE VectorIndex(c)

VectorValue(chars, g) ==
    PairSum(VectorIndex(chars[2 * g]), VectorIndex(chars[2 * g + 1]), 91)

\* Groups 2k and 2k + 1 as a field, shifted to where it begins in byte 3k.
Placed(chars, k) ==
    ShiftLeft(WordSum(VectorValue(chars, 2 * k), VectorValue(chars, 2 * k + 1), 8192), 2 * k)

\* What is stored: byte j is of field (j - 1) div 3, and bytes 3, 6 and 9 of
\* the field before it too; the three bytes past the block are 0.
StoredByte(chars, j) ==
    IF j = 0 THEN DoubleByte(Placed(chars, 0), 0)
    ELSE IF j > 12 THEN 0
    ELSE IF j \in {3, 6, 9}
         THEN OrByte(DoubleByte(Placed(chars, j \div 3), 0),
                     DoubleByte(Placed(chars, j \div 3 - 1), 3))
    ELSE LET k == IF j > 9 THEN 3 ELSE j \div 3
         IN  DoubleByte(Placed(chars, k), j - 3 * k)

DecodeVector(chars) == [j \in 0 .. 15 |-> StoredByte(chars, j)]
=============================================================================
