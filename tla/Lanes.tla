------------------------------- MODULE Lanes --------------------------------
(* The vector instructions that the kernels of x86.rs use, lane by lane: a   *)
(* byte is a number below 2^8, a word below 2^16, and a double word the pair *)
(* of its low and its high word.  Nothing crosses a 128-bit lane, so one     *)
(* register stands for either half of a 256-bit one.                         *)
EXTENDS Integers

\* Bytes, with wrap-around; greater-than is that of signed bytes.
SignedByte(b) == IF b < 128 THEN b ELSE b - 256
AddByte(a, b) == (a + b) % 256
SubByte(a, b) == (a - b) % 256
GreaterByte(a, b) == IF SignedByte(a) > SignedByte(b) THEN 255 ELSE 0
EqualByte(a, b) == IF a = b THEN 255 ELSE 0

Bit(b, i) == (b \div 2^i) % 2
OrBit(a, b, i) == IF Bit(a, i) + Bit(b, i) > 0 THEN 2^i ELSE 0
OrByte(a, b) ==
    OrBit(a, b, 0) + OrBit(a, b, 1) + OrBit(a, b, 2) + OrBit(a, b, 3)
      + OrBit(a, b, 4) + OrBit(a, b, 5) + OrBit(a, b, 6) + OrBit(a, b, 7)

\* Words.
AddWord(a, b) == (a + b) % 65536
MulLowWord(a, b) == (a * b) % 65536
MulHighWord(a, b) == (a * b) \div 65536
LowByte(w) == w % 256
HighByte(w) == w \div 256

\* Two unsigned bytes times small signed weights, saturated (maddubs).
PairSum(lo, hi, weight) ==
    LET sum == lo + weight * hi IN IF sum > 32767 THEN 32767 ELSE sum

\* Double words.
Double(lo, hi) == <<lo, hi>>
FromBytes(b0, b1, b2, b3) == Double(b0 + 256 * b1, b2 + 256 * b3)
ShiftLeft(d, s) ==
    LET lo == d[1] * 2^s
    IN  Double(lo % 65536, (d[2] * 2^s + lo \div 65536) % 65536)
ShiftRight(d, s) ==
    Double(d[1] \div 2^s + (d[2] % 2^s) * 2^(16 - s), d[2] \div 2^s)
DoubleByte(d, i) ==
    IF i < 2 THEN (IF i = 0 THEN LowByte(d[1]) ELSE HighByte(d[1]))
    ELSE (IF i = 2 THEN LowByte(d[2]) ELSE HighByte(d[2]))

\* Two signed words, the second times weight (madd); neither is negative.
WordSum(lo, hi, weight) ==
    LET sum == lo + weight * hi IN Double(sum % 65536, sum \div 65536)
=============================================================================
