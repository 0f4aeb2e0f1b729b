----------------------------- MODULE KernelProofs ----------------------------
(* The arithmetic of the vector kernels, for every block: they encode and    *)
(* decode as the scalar code does, and report exactly the blocks that it     *)
(* finds invalid; and what it encodes, it decodes.  Then the batches that    *)
(* run them: every access stays inside its buffer, and every batch, at every *)
(* level, leaves what the scalar code leaves.                                *)
(*                                                                           *)
(* A lane at a time: powers of two are numerals, and each field of four      *)
(* bytes or two groups is a lemma about those bytes or groups.               *)
EXTENDS BlockRuns, TLAPS

Num == INSTANCE Arithmetic

LEMMA Powers ==
    /\ 2^0 = 1 /\ 2^1 = 2 /\ 2^2 = 4 /\ 2^3 = 8 /\ 2^4 = 16 /\ 2^5 = 32
    /\ 2^6 = 64 /\ 2^7 = 128 /\ 2^8 = 256 /\ 2^9 = 512 /\ 2^10 = 1024
    /\ 2^11 = 2048 /\ 2^12 = 4096 /\ 2^13 = 8192 /\ 2^14 = 16384
    /\ 2^15 = 32768 /\ 2^16 = 65536
PROOF
  BY SMT

Value13 == 0 .. 8191

----------------------------------------------------------------------------
\* The digits of a group.
Quotient(v) == v \div 91
Remainder(v) == v % 91
Digit == 0 .. 90
High91 == 0 .. 360

\* The multiplication and the shift: 2881 is 2^18 / 91 rounded up, and the
\* error stays below one for 13 bits.
LEMMA Reciprocal ==
    ASSUME NEW v \in Value13
    PROVE  /\ MulHighWord(v, Magic91) \div 4 = Quotient(v)
           /\ MulHighWord(v, Magic91) \in High91
PROOF
  BY Z3 DEF MulHighWord, Value13, Magic91, Quotient, High91

\* The quotients of two groups, out of the double word of their products.
LEMMA Quotients ==
    ASSUME NEW h0 \in 0 .. 360, NEW h1 \in 0 .. 360
    PROVE  /\ LowByte(ShiftRight(Double(h0, h1), 2)[1]) = h0 \div 4
           /\ LowByte(ShiftRight(Double(h0, h1), 2)[2]) = h1 \div 4
PROOF
<1>1. LowByte(ShiftRight(Double(h0, h1), 2)[1]) = h0 \div 4
  BY Powers, Z3 DEF ShiftRight, Double, LowByte
<1>2. LowByte(ShiftRight(Double(h0, h1), 2)[2]) = h1 \div 4
  BY Powers, Z3 DEF ShiftRight, Double, LowByte
<1> QED
  BY <1>1, <1>2

LEMMA QuotientLanes ==
    ASSUME NEW v0 \in Value13, NEW v1 \in Value13
    PROVE  LET d == ShiftRight(Double(MulHighWord(v0, Magic91),
                                      MulHighWord(v1, Magic91)), Shift91)
           IN  LowByte(d[1]) = Quotient(v0) /\ LowByte(d[2]) = Quotient(v1)
PROOF
<1>1. PICK h0 \in High91 : h0 = MulHighWord(v0, Magic91) /\ h0 \div 4 = Quotient(v0)
  BY Reciprocal, Zenon
<1>2. PICK h1 \in High91 : h1 = MulHighWord(v1, Magic91) /\ h1 \div 4 = Quotient(v1)
  BY Reciprocal, Zenon
<1>3. /\ LowByte(ShiftRight(Double(h0, h1), Shift91)[1]) = h0 \div 4
      /\ LowByte(ShiftRight(Double(h0, h1), Shift91)[2]) = h1 \div 4
  BY Quotients DEF Shift91, High91
<1> QED
  BY <1>1, <1>2, <1>3, Zenon

\* The word that holds the remainder and the quotient as its two bytes.
LEMMA TwoDigits ==
    ASSUME NEW v \in Value13
    PROVE  LET w == AddWord(v, MulLowWord(Quotient(v), 165))
           IN  /\ LowByte(w) = Remainder(v) /\ HighByte(w) = Quotient(v)
               /\ Remainder(v) \in Digit /\ Quotient(v) \in Digit
               /\ v = Remainder(v) + 91 * Quotient(v)
PROOF
<1> USE DEF Value13, Digit
<1>1. PICK q \in Nat, r \in Nat : q = Quotient(v) /\ r = Remainder(v)
  <2>1. Quotient(v) \in Nat /\ Remainder(v) \in Nat
    BY Z3 DEF Quotient, Remainder
  <2> QED
    BY <2>1
<1>2. q \in 0 .. 90 /\ r \in 0 .. 90 /\ v = r + 91 * q
  BY <1>1, Z3 DEF Quotient, Remainder
<1>3. MulLowWord(q, 165) = q * 165
  BY <1>2, Z3 DEF MulLowWord
<1>4. AddWord(v, q * 165) = r + 256 * q
  BY <1>2, Z3 DEF AddWord
<1>5. LowByte(r + 256 * q) = r /\ HighByte(r + 256 * q) = q
  <2>1. (r + 256 * q) % 256 = r
    BY <1>2, Z3
  <2>2. (r + 256 * q) \div 256 = q
    BY <1>2, Z3
  <2> QED
    BY <2>1, <2>2 DEF LowByte, HighByte
<1> QED
  BY <1>1, <1>2, <1>3, <1>4, <1>5

----------------------------------------------------------------------------
\* Characters, for every byte, in the alphabet or not.

\* What the kernels call an index above 90 is what the scalar code finds
\* outside the alphabet, and the others are the same.
LEMMA Indexes ==
    ASSUME NEW c \in Byte
    PROVE  /\ VectorIndex(c) \in Byte
           /\ CheckedIndex(c) \in Byte
           /\ CheckedIndex(c) <= 90 <=> InAlphabet(c)
           /\ InAlphabet(c) => VectorIndex(c) = Index(c) /\ Index(c) \in Digit
PROOF
<1> USE DEF Byte, Digit, AddByte, SubByte, GreaterByte, EqualByte, SignedByte,
            VectorIndex, CheckedIndex, InAlphabet, Index
<1>1. CASE c < 35
  BY <1>1, Z3
<1>2. CASE c \in 35 .. 38
  BY <1>2, Z3T(60)
<1>3. CASE c = 39
  BY <1>3, Z3T(60)
<1>4. CASE c \in 40 .. 126
  BY <1>4, Z3T(60)
<1>5. CASE c = 127
  BY <1>5, Z3T(60)
<1>6. CASE c > 127
  BY <1>6, Z3T(60)
<1> QED
  BY <1>1, <1>2, <1>3, <1>4, <1>5, <1>6, Z3T(60)

\* The characters of an index, and back.
LEMMA Characters ==
    ASSUME NEW x \in Digit
    PROVE  /\ VectorChar(x) = AlphabetChar(x)
           /\ AlphabetChar(x) \in Byte
           /\ InAlphabet(AlphabetChar(x))
           /\ Index(AlphabetChar(x)) = x
PROOF
<1> USE DEF Byte, Digit, AddByte, SubByte, GreaterByte, SignedByte, VectorChar,
            AlphabetChar, InAlphabet, Index
<1>1. CASE x <= 3
  BY <1>1, Z3
<1>2. CASE x > 3
  BY <1>2, Z3
<1> QED
  BY <1>1, <1>2

\* The sum of a pair is never saturated, whatever the bytes are.
LEMMA Pairs ==
    ASSUME NEW lo \in Byte, NEW hi \in Byte
    PROVE  PairSum(lo, hi, 91) = lo + 91 * hi
PROOF
  BY Z3 DEF Byte, PairSum

----------------------------------------------------------------------------
\* The groups of a field: two are in four bytes, and the shifts to the left
\* and to the right leave them in the two words.
\* 13 bits of three bytes, from bit r on.
Slice(a, b, c, r) == ((a + 256 * b + 65536 * c) \div 2^r) % 8192

\* The groups that the shifts to the right leave in the words.
LowGroup(d) == ShiftRight(d, 6)[1] % 8192
HighGroup(d) == ShiftRight(d, 3)[2] % 8192

LEMMA Bytes == ASSUME NEW b \in Byte PROVE b \in Nat /\ b < 256
PROOF
  BY DEF Byte

LEMMA Field0 ==
    ASSUME NEW b0 \in Byte, NEW b1 \in Byte, NEW b2 \in Byte, NEW b3 \in Byte
    PROVE  LET d == ShiftLeft(FromBytes(b0, b1, b2, b3), 6)
           IN  LowGroup(d) = Slice(b0, b1, b2, 0) /\ HighGroup(d) = Slice(b1, b2, b3, 5)
PROOF
<1>0. /\ b0 \in Nat /\ b0 < 256
      /\ b1 \in Nat /\ b1 < 256
      /\ b2 \in Nat /\ b2 < 256
      /\ b3 \in Nat /\ b3 < 256
  BY Bytes
<1>1. LowGroup(ShiftLeft(FromBytes(b0, b1, b2, b3), 6)) = Slice(b0, b1, b2, 0)
  BY <1>0, Powers, Z3T(60) DEF LowGroup, ShiftRight, ShiftLeft, FromBytes, Double, Slice
<1>2. HighGroup(ShiftLeft(FromBytes(b0, b1, b2, b3), 6)) = Slice(b1, b2, b3, 5)
  BY <1>0, Powers, Z3T(60) DEF HighGroup, ShiftRight, ShiftLeft, FromBytes, Double, Slice
<1> QED
  BY <1>1, <1>2, Zenon

LEMMA Field1 ==
    ASSUME NEW b0 \in Byte, NEW b1 \in Byte, NEW b2 \in Byte, NEW b3 \in Byte
    PROVE  LET d == ShiftLeft(FromBytes(b0, b1, b2, b3), 4)
           IN  LowGroup(d) = Slice(b0, b1, b2, 2) /\ HighGroup(d) = Slice(b1, b2, b3, 7)
PROOF
<1>0. /\ b0 \in Nat /\ b0 < 256
      /\ b1 \in Nat /\ b1 < 256
      /\ b2 \in Nat /\ b2 < 256
      /\ b3 \in Nat /\ b3 < 256
  BY Bytes
<1>1. LowGroup(ShiftLeft(FromBytes(b0, b1, b2, b3), 4)) = Slice(b0, b1, b2, 2)
  BY <1>0, Powers, Z3T(60) DEF LowGroup, ShiftRight, ShiftLeft, FromBytes, Double, Slice
<1>2. HighGroup(ShiftLeft(FromBytes(b0, b1, b2, b3), 4)) = Slice(b1, b2, b3, 7)
  BY <1>0, Powers, Z3T(60) DEF HighGroup, ShiftRight, ShiftLeft, FromBytes, Double, Slice
<1> QED
  BY <1>1, <1>2, Zenon

LEMMA Field2 ==
    ASSUME NEW b0 \in Byte, NEW b1 \in Byte, NEW b2 \in Byte, NEW b3 \in Byte,
           NEW c \in Byte
    PROVE  LET d == ShiftLeft(FromBytes(b0, b1, b2, b3), 2)
           IN  LowGroup(d) = Slice(b0, b1, b2, 4) /\ HighGroup(d) = Slice(b2, b3, c, 1)
PROOF
<1>0. /\ b0 \in Nat /\ b0 < 256
      /\ b1 \in Nat /\ b1 < 256
      /\ b2 \in Nat /\ b2 < 256
      /\ b3 \in Nat /\ b3 < 256
      /\ c \in Nat /\ c < 256
  BY Bytes
<1>1. LowGroup(ShiftLeft(FromBytes(b0, b1, b2, b3), 2)) = Slice(b0, b1, b2, 4)
  BY <1>0, Powers, Z3T(60) DEF LowGroup, ShiftRight, ShiftLeft, FromBytes, Double, Slice
<1>2. HighGroup(ShiftLeft(FromBytes(b0, b1, b2, b3), 2)) = Slice(b2, b3, c, 1)
  BY <1>0, Powers, Z3T(60) DEF HighGroup, ShiftRight, ShiftLeft, FromBytes, Double, Slice
<1> QED
  BY <1>1, <1>2, Zenon

LEMMA Field3 ==
    ASSUME NEW b0 \in Byte, NEW b1 \in Byte, NEW b2 \in Byte, NEW b3 \in Byte
    PROVE  LET d == ShiftLeft(FromBytes(b0, b1, b2, b3), 0)
           IN  LowGroup(d) = Slice(b0, b1, b2, 6) /\ HighGroup(d) = Slice(b2, b3, 0, 3)
PROOF
<1>0. /\ b0 \in Nat /\ b0 < 256
      /\ b1 \in Nat /\ b1 < 256
      /\ b2 \in Nat /\ b2 < 256
      /\ b3 \in Nat /\ b3 < 256
  BY Bytes
<1>1. LowGroup(ShiftLeft(FromBytes(b0, b1, b2, b3), 0)) = Slice(b0, b1, b2, 6)
  BY <1>0, Powers, Z3T(60) DEF LowGroup, ShiftRight, ShiftLeft, FromBytes, Double, Slice
<1>2. HighGroup(ShiftLeft(FromBytes(b0, b1, b2, b3), 0)) = Slice(b2, b3, 0, 3)
  BY <1>0, Powers, Z3T(60) DEF HighGroup, ShiftRight, ShiftLeft, FromBytes, Double, Slice
<1> QED
  BY <1>1, <1>2, Zenon

\* A block and the 16 bytes that are loaded for it.
LoadedFor(block, data) ==
    /\ block \in [0 .. 12 -> Byte]
    /\ data \in [0 .. 15 -> Byte]
    /\ \A j \in 0 .. 12 : data[j] = block[j]

\* Group g of a block, in terms of its bytes.
LEMMA GroupBytes ==
    ASSUME NEW block
    PROVE  /\ Group(block, 0) = Slice(block[0], block[1], block[2], 0)
           /\ Group(block, 1) = Slice(block[1], block[2], block[3], 5)
           /\ Group(block, 2) = Slice(block[3], block[4], block[5], 2)
           /\ Group(block, 3) = Slice(block[4], block[5], block[6], 7)
           /\ Group(block, 4) = Slice(block[6], block[7], block[8], 4)
           /\ Group(block, 5) = Slice(block[8], block[9], block[10], 1)
           /\ Group(block, 6) = Slice(block[9], block[10], block[11], 6)
           /\ Group(block, 7) = Slice(block[11], block[12], 0, 3)
PROOF
<1>1. Group(block, 0) = Slice(block[0], block[1], block[2], 0)
  BY DEF Group, PaddedByte, BlockBytes, Slice
<1>2. Group(block, 1) = Slice(block[1], block[2], block[3], 5)
  BY DEF Group, PaddedByte, BlockBytes, Slice
<1>3. Group(block, 2) = Slice(block[3], block[4], block[5], 2)
  BY DEF Group, PaddedByte, BlockBytes, Slice
<1>4. Group(block, 3) = Slice(block[4], block[5], block[6], 7)
  BY DEF Group, PaddedByte, BlockBytes, Slice
<1>5. Group(block, 4) = Slice(block[6], block[7], block[8], 4)
  BY DEF Group, PaddedByte, BlockBytes, Slice
<1>6. Group(block, 5) = Slice(block[8], block[9], block[10], 1)
  BY DEF Group, PaddedByte, BlockBytes, Slice
<1>7. Group(block, 6) = Slice(block[9], block[10], block[11], 6)
  BY DEF Group, PaddedByte, BlockBytes, Slice
<1>8. Group(block, 7) = Slice(block[11], block[12], 0, 3)
  BY DEF Group, PaddedByte, BlockBytes, Slice
<1> QED
  BY <1>1, <1>2, <1>3, <1>4, <1>5, <1>6, <1>7, <1>8, Zenon

\* The vector code finds the same groups, whatever is loaded behind the block.
LEMMA Groups ==
    ASSUME NEW block, NEW data, LoadedFor(block, data), NEW g \in 0 .. 7
    PROVE  GroupValue(data, g) = Group(block, g) /\ Group(block, g) \in Value13
PROOF
<1>1. \A j \in 0 .. 12 : data[j] = block[j] /\ data[j] \in Byte
  BY DEF LoadedFor
<1>2. \A a, b, c \in Byte, r \in 0 .. 7 : Slice(a, b, c, r) \in Value13
  <2> SUFFICES ASSUME NEW a \in Byte, NEW b \in Byte, NEW c \in Byte, NEW r \in 0 .. 7
               PROVE  Slice(a, b, c, r) \in Value13
    BY Zenon
  <2>1. PICK n \in Nat : n = a + 256 * b + 65536 * c
    BY DEF Byte
  <2>2. PICK p \in Nat : p = 2^r /\ p > 0
    <3>1. CASE r = 0
      BY <3>1, Powers
    <3>2. CASE r = 1
      BY <3>2, Powers
    <3>3. CASE r = 2
      BY <3>3, Powers
    <3>4. CASE r = 3
      BY <3>4, Powers
    <3>5. CASE r = 4
      BY <3>5, Powers
    <3>6. CASE r = 5
      BY <3>6, Powers
    <3>7. CASE r = 6
      BY <3>7, Powers
    <3>8. CASE r = 7
      BY <3>8, Powers
    <3> QED
      BY <3>1, <3>2, <3>3, <3>4, <3>5, <3>6, <3>7, <3>8
  <2>3. (n \div p) % 8192 \in 0 .. 8191
    <3>1. n \div p \in Int
      BY <2>2
    <3> QED
      BY <3>1
  <2>4. Slice(a, b, c, r) = (n \div p) % 8192
    BY <2>1, <2>2 DEF Slice
  <2> QED
    BY <2>3, <2>4 DEF Value13
<1>3. GroupValue(data, 0) = Group(block, 0) /\ GroupValue(data, 1) = Group(block, 1)
  <2>1. /\ data[0] = block[0] /\ block[0] \in Byte
        /\ data[1] = block[1] /\ block[1] \in Byte
        /\ data[2] = block[2] /\ block[2] \in Byte
        /\ data[3] = block[3] /\ block[3] \in Byte
    BY <1>1
  <2>2. LET d == ShiftLeft(FromBytes(data[0], data[1], data[2], data[3]), 6)
        IN  GroupValue(data, 0) = LowGroup(d) /\ GroupValue(data, 1) = HighGroup(d)
    BY DEF GroupValue, Aligned, LowGroup, HighGroup
  <2>3. LET d == ShiftLeft(FromBytes(block[0], block[1], block[2], block[3]), 6)
        IN  /\ LowGroup(d) = Slice(block[0], block[1], block[2], 0)
            /\ HighGroup(d) = Slice(block[1], block[2], block[3], 5)
    BY <1>1, Field0, SMTT(30)
  <2> QED
    BY <2>1, <2>2, <2>3, GroupBytes, Zenon
<1>4. GroupValue(data, 2) = Group(block, 2) /\ GroupValue(data, 3) = Group(block, 3)
  <2>1. /\ data[3] = block[3] /\ block[3] \in Byte
        /\ data[4] = block[4] /\ block[4] \in Byte
        /\ data[5] = block[5] /\ block[5] \in Byte
        /\ data[6] = block[6] /\ block[6] \in Byte
    BY <1>1
  <2>2. LET d == ShiftLeft(FromBytes(data[3], data[4], data[5], data[6]), 4)
        IN  GroupValue(data, 2) = LowGroup(d) /\ GroupValue(data, 3) = HighGroup(d)
    BY DEF GroupValue, Aligned, LowGroup, HighGroup
  <2>3. LET d == ShiftLeft(FromBytes(block[3], block[4], block[5], block[6]), 4)
        IN  /\ LowGroup(d) = Slice(block[3], block[4], block[5], 2)
            /\ HighGroup(d) = Slice(block[4], block[5], block[6], 7)
    BY <1>1, Field1, SMTT(30)
  <2> QED
    BY <2>1, <2>2, <2>3, GroupBytes, Zenon
<1>5. GroupValue(data, 4) = Group(block, 4) /\ GroupValue(data, 5) = Group(block, 5)
  <2>1. /\ data[6] = block[6] /\ block[6] \in Byte
        /\ data[7] = block[7] /\ block[7] \in Byte
        /\ data[8] = block[8] /\ block[8] \in Byte
        /\ data[9] = block[9] /\ block[9] \in Byte
        /\ data[10] = block[10] /\ block[10] \in Byte
    BY <1>1
  <2>2. LET d == ShiftLeft(FromBytes(data[6], data[7], data[8], data[9]), 2)
        IN  GroupValue(data, 4) = LowGroup(d) /\ GroupValue(data, 5) = HighGroup(d)
    BY DEF GroupValue, Aligned, LowGroup, HighGroup
  <2>3. LET d == ShiftLeft(FromBytes(block[6], block[7], block[8], block[9]), 2)
        IN  /\ LowGroup(d) = Slice(block[6], block[7], block[8], 4)
            /\ HighGroup(d) = Slice(block[8], block[9], block[10], 1)
    BY <1>1, Field2, SMTT(30)
  <2> QED
    BY <2>1, <2>2, <2>3, GroupBytes, Zenon
<1>6. GroupValue(data, 6) = Group(block, 6) /\ GroupValue(data, 7) = Group(block, 7)
  <2>1. /\ data[9] = block[9] /\ block[9] \in Byte
        /\ data[10] = block[10] /\ block[10] \in Byte
        /\ data[11] = block[11] /\ block[11] \in Byte
        /\ data[12] = block[12] /\ block[12] \in Byte
    BY <1>1
  <2>2. LET d == ShiftLeft(FromBytes(data[9], data[10], data[11], data[12]), 0)
        IN  GroupValue(data, 6) = LowGroup(d) /\ GroupValue(data, 7) = HighGroup(d)
    BY DEF GroupValue, Aligned, LowGroup, HighGroup
  <2>3. LET d == ShiftLeft(FromBytes(block[9], block[10], block[11], block[12]), 0)
        IN  /\ LowGroup(d) = Slice(block[9], block[10], block[11], 6)
            /\ HighGroup(d) = Slice(block[11], block[12], 0, 3)
    BY <1>1, Field3, SMTT(30)
  <2> QED
    BY <2>1, <2>2, <2>3, GroupBytes, Zenon
<1>7. GroupValue(data, g) = Group(block, g)
  <2>1. g = 0 \/ g = 1 \/ g = 2 \/ g = 3 \/ g = 4 \/ g = 5 \/ g = 6 \/ g = 7
    OBVIOUS
  <2> QED
    BY <1>3, <1>4, <1>5, <1>6, <2>1, Zenon
<1>8. Group(block, g) \in Value13
  <2>1. \A j \in 0 .. 15 : PaddedByte(block, j) \in Byte
    BY <1>1 DEF PaddedByte, BlockBytes, Byte
  <2>2. (13 * g) \div 8 \in 0 .. 11 /\ (13 * g) % 8 \in 0 .. 7
    OBVIOUS
  <2>3. PICK q \in 0 .. 11, r \in 0 .. 7 : q = (13 * g) \div 8 /\ r = (13 * g) % 8
    BY <2>2
  <2>4. Group(block, g) = Slice(PaddedByte(block, q), PaddedByte(block, q + 1), PaddedByte(block, q + 2), r)
    BY <2>3 DEF Group, Slice
  <2>5. /\ PaddedByte(block, q) \in Byte
        /\ PaddedByte(block, q + 1) \in Byte
        /\ PaddedByte(block, q + 2) \in Byte
    BY <2>1
  <2>6. PICK a \in Byte, b \in Byte, c \in Byte : Group(block, g) = Slice(a, b, c, r)
    BY <2>4, <2>5, Zenon
  <2> QED
    BY <1>2, <2>6, Zenon
<1> QED
  BY <1>7, <1>8, Zenon

----------------------------------------------------------------------------
\* Pair k of the groups.
LEMMA Halves ==
    ASSUME NEW g \in 0 .. 7
    PROVE  \E k \in 0 .. 3 :
             /\ g \div 2 = k /\ 2 * k \in 0 .. 7 /\ 2 * k + 1 \in 0 .. 7
             /\ \/ g = 2 * k /\ (g % 2) + 1 = 1
                \/ g = 2 * k + 1 /\ (g % 2) + 1 = 2
PROOF
<1>1. g \div 2 \in 0 .. 3
  BY Z3
<1>2. \/ g = 2 * (g \div 2) /\ g % 2 = 0
      \/ g = 2 * (g \div 2) + 1 /\ g % 2 = 1
  BY Z3
<1> QED
  BY <1>1, <1>2

\* A group's quotient by 91 is what its byte of the register holds.
LEMMA QuotientOf ==
    ASSUME NEW block, NEW data, LoadedFor(block, data), NEW g \in 0 .. 7
    PROVE  Quotient91(data, g) = Quotient(Group(block, g))
PROOF
<1>1. PICK k \in 0 .. 3 :
        /\ g \div 2 = k /\ 2 * k \in 0 .. 7 /\ 2 * k + 1 \in 0 .. 7
        /\ \/ g = 2 * k /\ (g % 2) + 1 = 1
           \/ g = 2 * k + 1 /\ (g % 2) + 1 = 2
  BY Halves, Zenon
<1>2. PICK v0 \in Value13, v1 \in Value13 :
        /\ v0 = GroupValue(data, 2 * k) /\ v0 = Group(block, 2 * k)
        /\ v1 = GroupValue(data, 2 * k + 1) /\ v1 = Group(block, 2 * k + 1)
  BY <1>1, Groups, Zenon
<1>3. Quotient91(data, g)
        = LowByte(ShiftRight(Double(MulHighWord(v0, Magic91),
                                    MulHighWord(v1, Magic91)), Shift91)[(g % 2) + 1])
  BY <1>1, <1>2, Zenon DEF Quotient91
<1> QED
  BY <1>1, <1>2, <1>3, QuotientLanes, ZenonT(60)

\* EncodeVector computes what EncodeScalar does, whatever is loaded behind
\* the block: encode_block_sse41 is encode_block_scalar.
THEOREM EncodesAsScalarCode ==
    ASSUME NEW block, NEW data, LoadedFor(block, data)
    PROVE  EncodeVector(data) = EncodeScalar(block)
PROOF
<1>1. ASSUME NEW x \in 0 .. 15
      PROVE  EncodeVector(data)[x] = EncodeScalar(block)[x]
  <2>1. PICK g \in 0 .. 7 : g = x \div 2
    <3>1. x \div 2 \in 0 .. 7
      BY Z3
    <3> QED
      BY <3>1
  <2>2. PICK v \in Value13 : v = Group(block, g) /\ v = GroupValue(data, g)
    BY Groups, Zenon
  <2>3. PICK w : w = AddWord(v, MulLowWord(Quotient(v), 165)) /\ w = Interleaved(data, g)
    BY <2>2, QuotientOf DEF Interleaved
  <2>4. /\ LowByte(w) = Remainder(v) /\ Remainder(v) \in Digit
        /\ HighByte(w) = Quotient(v) /\ Quotient(v) \in Digit
    BY <2>3, TwoDigits
  <2>5. EncodeVector(data)[x]
          = VectorChar(IF x % 2 = 0 THEN Remainder(v) ELSE Quotient(v))
    BY <2>1, <2>3, <2>4, Zenon DEF EncodeVector
  <2>6. EncodeScalar(block)[x]
          = AlphabetChar(IF x % 2 = 0 THEN Remainder(v) ELSE Quotient(v))
    <3>1. x \in 0 .. BlockChars - 1
      BY DEF BlockChars
    <3>2. EncodeScalar(block)[x]
            = AlphabetChar(IF x % 2 = 0 THEN Group(block, g) % 91
                           ELSE Group(block, g) \div 91)
      BY <2>1, <3>1, Zenon DEF EncodeScalar
    <3> QED
      BY <2>2, <3>2, Zenon DEF Remainder, Quotient
  <2>7. CASE x % 2 = 0
    <3>1. EncodeVector(data)[x] = VectorChar(Remainder(v))
      BY <2>5, <2>7, Zenon
    <3>2. EncodeScalar(block)[x] = AlphabetChar(Remainder(v))
      BY <2>6, <2>7, Zenon
    <3> QED
      BY <2>4, <3>1, <3>2, Characters, Zenon
  <2>8. CASE x % 2 # 0
    <3>1. EncodeVector(data)[x] = VectorChar(Quotient(v))
      BY <2>5, <2>8, Zenon
    <3>2. EncodeScalar(block)[x] = AlphabetChar(Quotient(v))
      BY <2>6, <2>8, Zenon
    <3> QED
      BY <2>4, <3>1, <3>2, Characters, Zenon
  <2> QED
    BY <2>7, <2>8, Zenon
<1>2. /\ EncodeVector(data) = [x \in 0 .. 15 |-> EncodeVector(data)[x]]
      /\ EncodeScalar(block) = [x \in 0 .. 15 |-> EncodeScalar(block)[x]]
  BY DEF EncodeVector, EncodeScalar, BlockChars
<1> QED
  BY <1>1, <1>2, Zenon

----------------------------------------------------------------------------
\* The values of the pairs, which are those that the scalar code computes
\* when the characters are in the alphabet.
LEMMA PairValues ==
    ASSUME NEW chars \in [0 .. 15 -> Byte], NEW k \in 0 .. 7,
           InAlphabet(chars[2 * k]), InAlphabet(chars[2 * k + 1])
    PROVE  VectorValue(chars, k) = PairValue(chars, k) /\ PairValue(chars, k) \in Nat
PROOF
<1>1. chars[2 * k] \in Byte /\ chars[2 * k + 1] \in Byte
  OBVIOUS
<1>2. /\ VectorIndex(chars[2 * k]) = Index(chars[2 * k])
      /\ Index(chars[2 * k]) \in Digit
      /\ VectorIndex(chars[2 * k + 1]) = Index(chars[2 * k + 1])
      /\ Index(chars[2 * k + 1]) \in Digit
  BY <1>1, Indexes, Zenon
<1>3. VectorIndex(chars[2 * k]) \in Byte /\ VectorIndex(chars[2 * k + 1]) \in Byte
  BY <1>1, Indexes, Zenon
<1>4. VectorValue(chars, k)
        = VectorIndex(chars[2 * k]) + 91 * VectorIndex(chars[2 * k + 1])
  BY <1>3, Pairs DEF VectorValue
<1> QED
  BY <1>2, <1>4, SMTT(60) DEF PairValue, Digit

\* What the kernels report of a block, that an index is above 90 or a pair's
\* value above 8191, is that the scalar code finds it invalid; whatever the
\* bytes are, in the alphabet or not.
THEOREM ReportsWhatScalarFinds ==
    ASSUME NEW chars \in [0 .. 15 -> Byte]
    PROVE  ValidScalar(chars) <=>
             /\ \A x \in 0 .. 15 : CheckedIndex(chars[x]) <= 90
             /\ \A g \in 0 .. 7 : VectorValue(chars, g) <= 8191
PROOF
<1>1. \A x \in 0 .. 15 : InAlphabet(chars[x]) <=> CheckedIndex(chars[x]) <= 90
  BY Indexes
<1>2. \A g \in 0 .. 7 : 2 * g \in 0 .. 15 /\ 2 * g + 1 \in 0 .. 15
  OBVIOUS
<1>3. ASSUME \A x \in 0 .. 15 : InAlphabet(chars[x])
      PROVE  \A g \in 0 .. 7 : VectorValue(chars, g) = PairValue(chars, g)
  BY <1>2, <1>3, PairValues
<1>4. ValidScalar(chars) <=>
        /\ \A x \in 0 .. 15 : InAlphabet(chars[x])
        /\ \A g \in 0 .. 7 : PairValue(chars, g) <= 8191
  BY DEF ValidScalar, BlockChars
<1> QED
  BY <1>1, <1>3, <1>4

LEMMA ValidValues ==
    ASSUME NEW chars \in [0 .. 15 -> Byte], ValidScalar(chars), NEW k \in 0 .. 7
    PROVE  /\ VectorValue(chars, k) \in Value13
           /\ PairValue(chars, k) % 8192 = VectorValue(chars, k)
PROOF
<1>1. InAlphabet(chars[2 * k]) /\ InAlphabet(chars[2 * k + 1])
  BY DEF ValidScalar, BlockChars
<1>2. PICK v \in Nat : v = VectorValue(chars, k) /\ v = PairValue(chars, k)
  BY <1>1, PairValues
<1>3. v <= 8191
  BY <1>2 DEF ValidScalar
<1>4. v \in Value13
  BY <1>3, SMTT(60) DEF Value13
<1>5. v % 8192 = v
  BY <1>3, Z3
<1>6. VectorValue(chars, k) \in Value13
  BY <1>2, <1>4, Zenon
<1>7. PairValue(chars, k) % 8192 = VectorValue(chars, k)
  BY <1>2, <1>5
<1> QED
  BY <1>6, <1>7

----------------------------------------------------------------------------
\* A field of two groups, shifted, and a byte of the block out of the two
\* groups that it may straddle.
Field(v, w, s) == ShiftLeft(WordSum(v, w, 8192), s)
ScalarByte(g, h, r) == (g \div 2^r + h * 2^(13 - r)) % 256

LEMMA Values == ASSUME NEW v \in Value13 PROVE v \in Nat /\ v < 8192
PROOF
  BY DEF Value13

\* Two fields meet in a byte: their bits are disjoint, and the or is a sum.
LEMMA OrIsSum ==
    ASSUME NEW a \in Nat, NEW b \in Nat
    PROVE  /\ a < 64 /\ b < 4 => OrByte(4 * a, b) = 4 * a + b
           /\ a < 16 /\ b < 16 => OrByte(16 * a, b) = 16 * a + b
           /\ a < 4 /\ b < 64 => OrByte(64 * a, b) = 64 * a + b
PROOF
<1>1. ASSUME a < 64, b < 4 PROVE OrByte(4 * a, b) = 4 * a + b
  BY <1>1, Powers, Z3T(60) DEF OrByte, OrBit, Bit
<1>2. ASSUME a < 16, b < 16 PROVE OrByte(16 * a, b) = 16 * a + b
  BY <1>2, Powers, Z3T(60) DEF OrByte, OrBit, Bit
<1>3. ASSUME a < 4, b < 64 PROVE OrByte(64 * a, b) = 64 * a + b
  BY <1>3, Powers, Z3T(60) DEF OrByte, OrBit, Bit
<1> QED
  BY <1>1, <1>2, <1>3

\* The bytes of a field, from that of group v on; x is the group after w.
LEMMA FieldBytes ==
    ASSUME NEW v \in Value13, NEW w \in Value13, NEW x \in Value13
    PROVE  /\ DoubleByte(Field(v, w, 0), 0) = ScalarByte(v, w, 0)
           /\ DoubleByte(Field(v, w, 0), 1) = ScalarByte(v, w, 8)
           /\ DoubleByte(Field(v, w, 0), 2) = ScalarByte(w, x, 3)
           /\ DoubleByte(Field(v, w, 2), 1) = ScalarByte(v, w, 6)
           /\ DoubleByte(Field(v, w, 2), 2) = ScalarByte(w, x, 1)
           /\ DoubleByte(Field(v, w, 4), 1) = ScalarByte(v, w, 4)
           /\ DoubleByte(Field(v, w, 4), 2) = ScalarByte(v, w, 12)
           /\ DoubleByte(Field(v, w, 6), 1) = ScalarByte(v, w, 2)
           /\ DoubleByte(Field(v, w, 6), 2) = ScalarByte(v, w, 10)
           /\ DoubleByte(Field(v, w, 6), 3) = ScalarByte(w, x, 5)
PROOF
<1>0. /\ v \in Nat /\ v < 8192 /\ w \in Nat /\ w < 8192
      /\ x \in Nat /\ x < 8192
  BY Values
<1>1. DoubleByte(Field(v, w, 0), 0) = ScalarByte(v, w, 0)
  BY <1>0, Powers, Z3T(60) DEF ScalarByte, DoubleByte, LowByte, HighByte, Field, ShiftLeft, Double,
                        WordSum
<1>2. DoubleByte(Field(v, w, 0), 1) = ScalarByte(v, w, 8)
  BY <1>0, Powers, Z3T(60) DEF ScalarByte, DoubleByte, LowByte, HighByte, Field, ShiftLeft, Double,
                        WordSum
<1>3. DoubleByte(Field(v, w, 0), 2) = ScalarByte(w, x, 3)
  BY <1>0, Powers, Z3T(60) DEF ScalarByte, DoubleByte, LowByte, HighByte, Field, ShiftLeft, Double,
                        WordSum
<1>4. DoubleByte(Field(v, w, 2), 1) = ScalarByte(v, w, 6)
  BY <1>0, Powers, Z3T(60) DEF ScalarByte, DoubleByte, LowByte, HighByte, Field, ShiftLeft, Double,
                        WordSum
<1>5. DoubleByte(Field(v, w, 2), 2) = ScalarByte(w, x, 1)
  BY <1>0, Powers, Z3T(60) DEF ScalarByte, DoubleByte, LowByte, HighByte, Field, ShiftLeft, Double,
                        WordSum
<1>6. DoubleByte(Field(v, w, 4), 1) = ScalarByte(v, w, 4)
  BY <1>0, Powers, Z3T(60) DEF ScalarByte, DoubleByte, LowByte, HighByte, Field, ShiftLeft, Double,
                        WordSum
<1>7. DoubleByte(Field(v, w, 4), 2) = ScalarByte(v, w, 12)
  BY <1>0, Powers, Z3T(60) DEF ScalarByte, DoubleByte, LowByte, HighByte, Field, ShiftLeft, Double,
                        WordSum
<1>8. DoubleByte(Field(v, w, 6), 1) = ScalarByte(v, w, 2)
  BY <1>0, Powers, Z3T(60) DEF ScalarByte, DoubleByte, LowByte, HighByte, Field, ShiftLeft, Double,
                        WordSum
<1>9. DoubleByte(Field(v, w, 6), 2) = ScalarByte(v, w, 10)
  BY <1>0, Powers, Z3T(60) DEF ScalarByte, DoubleByte, LowByte, HighByte, Field, ShiftLeft, Double,
                        WordSum
<1>10. DoubleByte(Field(v, w, 6), 3) = ScalarByte(w, x, 5)
  BY <1>0, Powers, Z3T(60) DEF ScalarByte, DoubleByte, LowByte, HighByte, Field, ShiftLeft, Double,
                        WordSum
<1> QED
  BY <1>1, <1>2, <1>3, <1>4, <1>5, <1>6, <1>7, <1>8, <1>9, <1>10, Zenon

\* The bytes where two fields meet: u is the last group of the first one.
LEMMA MeetingBytes ==
    ASSUME NEW t \in Value13, NEW u \in Value13, NEW v \in Value13, NEW w \in Value13
    PROVE  /\ OrByte(DoubleByte(Field(v, w, 2), 0), DoubleByte(Field(t, u, 0), 3))
                = ScalarByte(u, v, 11)
           /\ OrByte(DoubleByte(Field(v, w, 4), 0), DoubleByte(Field(t, u, 2), 3))
                = ScalarByte(u, v, 9)
           /\ OrByte(DoubleByte(Field(v, w, 6), 0), DoubleByte(Field(t, u, 4), 3))
                = ScalarByte(u, v, 7)
PROOF
<1>0. /\ t \in Nat /\ t < 8192 /\ u \in Nat /\ u < 8192
      /\ v \in Nat /\ v < 8192 /\ w \in Nat /\ w < 8192
  BY Values
<1>1. OrByte(DoubleByte(Field(v, w, 2), 0), DoubleByte(Field(t, u, 0), 3))
        = ScalarByte(u, v, 11)
  <2>1. DoubleByte(Field(v, w, 2), 0) = 4 * (v % 64)
    BY <1>0, Powers, Z3T(60) DEF DoubleByte, LowByte, HighByte, Field, ShiftLeft, Double,
                        WordSum
  <2>2. DoubleByte(Field(t, u, 0), 3) = u \div 2048
    BY <1>0, Powers, Z3T(60) DEF DoubleByte, LowByte, HighByte, Field, ShiftLeft, Double,
                        WordSum
  <2>3. 4 * (v % 64) + (u \div 2048) = ScalarByte(u, v, 11)
    BY <1>0, Powers, Z3T(60) DEF ScalarByte
  <2>4. v % 64 \in Nat /\ v % 64 < 64 /\ u \div 2048 \in Nat /\ u \div 2048 < 4
    BY <1>0, Z3
  <2>5. OrByte(4 * (v % 64), u \div 2048) = 4 * (v % 64) + (u \div 2048)
    BY <2>4, OrIsSum
  <2> QED
    BY <2>1, <2>2, <2>3, <2>5
<1>2. OrByte(DoubleByte(Field(v, w, 4), 0), DoubleByte(Field(t, u, 2), 3))
        = ScalarByte(u, v, 9)
  <2>1. DoubleByte(Field(v, w, 4), 0) = 16 * (v % 16)
    BY <1>0, Powers, Z3T(60) DEF DoubleByte, LowByte, HighByte, Field, ShiftLeft, Double,
                        WordSum
  <2>2. DoubleByte(Field(t, u, 2), 3) = u \div 512
    BY <1>0, Powers, Z3T(60) DEF DoubleByte, LowByte, HighByte, Field, ShiftLeft, Double,
                        WordSum
  <2>3. 16 * (v % 16) + (u \div 512) = ScalarByte(u, v, 9)
    BY <1>0, Powers, Z3T(60) DEF ScalarByte
  <2>4. v % 16 \in Nat /\ v % 16 < 16 /\ u \div 512 \in Nat /\ u \div 512 < 16
    BY <1>0, Z3
  <2>5. OrByte(16 * (v % 16), u \div 512) = 16 * (v % 16) + (u \div 512)
    BY <2>4, OrIsSum
  <2> QED
    BY <2>1, <2>2, <2>3, <2>5
<1>3. OrByte(DoubleByte(Field(v, w, 6), 0), DoubleByte(Field(t, u, 4), 3))
        = ScalarByte(u, v, 7)
  <2>1. DoubleByte(Field(v, w, 6), 0) = 64 * (v % 4)
    BY <1>0, Powers, Z3T(60) DEF DoubleByte, LowByte, HighByte, Field, ShiftLeft, Double,
                        WordSum
  <2>2. DoubleByte(Field(t, u, 4), 3) = u \div 128
    BY <1>0, Powers, Z3T(60) DEF DoubleByte, LowByte, HighByte, Field, ShiftLeft, Double,
                        WordSum
  <2>3. 64 * (v % 4) + (u \div 128) = ScalarByte(u, v, 7)
    BY <1>0, Powers, Z3T(60) DEF ScalarByte
  <2>4. v % 4 \in Nat /\ v % 4 < 4 /\ u \div 128 \in Nat /\ u \div 128 < 64
    BY <1>0, Z3
  <2>5. OrByte(64 * (v % 4), u \div 128) = 64 * (v % 4) + (u \div 128)
    BY <2>4, OrIsSum
  <2> QED
    BY <2>1, <2>2, <2>3, <2>5
<1> QED
  BY <1>1, <1>2, <1>3, Zenon

\* A valid block's bytes are those that the scalar code computes:
\* decode_block_sse41 is decode_block_scalar.
THEOREM DecodesAsScalarCode ==
    ASSUME NEW chars \in [0 .. 15 -> Byte], ValidScalar(chars), NEW j \in 0 .. 12
    PROVE  DecodeVector(chars)[j] = DecodeScalar(chars)[j]
PROOF
<1> DEFINE V(k) == VectorValue(chars, k)
           S(k) == PairValue(chars, k) % 8192
<1>0. 0 \in Value13
  BY DEF Value13
<1>1. /\ V(0) \in Value13 /\ V(1) \in Value13 /\ V(2) \in Value13 /\ V(3) \in Value13
      /\ V(4) \in Value13 /\ V(5) \in Value13 /\ V(6) \in Value13 /\ V(7) \in Value13
  BY ValidValues
<1>2. /\ S(0) = V(0) /\ S(1) = V(1) /\ S(2) = V(2) /\ S(3) = V(3)
      /\ S(4) = V(4) /\ S(5) = V(5) /\ S(6) = V(6) /\ S(7) = V(7)
  BY ValidValues
<1>3. Placed(chars, 0) = Field(V(0), V(1), 0)
  BY DEF Placed, Field
<1>4. Placed(chars, 1) = Field(V(2), V(3), 2)
  BY DEF Placed, Field
<1>5. Placed(chars, 2) = Field(V(4), V(5), 4)
  BY DEF Placed, Field
<1>6. Placed(chars, 3) = Field(V(6), V(7), 6)
  BY DEF Placed, Field
<1>7. CASE j = 0
  <2>1. DecodeScalar(chars)[0] = ScalarByte(S(0), S(1), 0)
    BY DEF DecodeScalar, ScalarByte, BlockBytes
  <2>2. DecodeVector(chars)[0] = DoubleByte(Placed(chars, 0), 0)
    BY DEF DecodeVector, StoredByte
  <2>3. DoubleByte(Field(V(0), V(1), 0), 0) = ScalarByte(V(0), V(1), 0)
    <3> HIDE DEF V
    <3> QED
      BY <1>0, <1>1, FieldBytes
  <2> HIDE DEF V, S
  <2> QED
    BY <1>2, <1>3, <1>7, <2>1, <2>2, <2>3, Zenon
<1>8. CASE j = 1
  <2>1. DecodeScalar(chars)[1] = ScalarByte(S(0), S(1), 8)
    BY DEF DecodeScalar, ScalarByte, BlockBytes
  <2>2. DecodeVector(chars)[1] = DoubleByte(Placed(chars, 0), 1)
    BY DEF DecodeVector, StoredByte
  <2>3. DoubleByte(Field(V(0), V(1), 0), 1) = ScalarByte(V(0), V(1), 8)
    <3> HIDE DEF V
    <3> QED
      BY <1>0, <1>1, FieldBytes
  <2> HIDE DEF V, S
  <2> QED
    BY <1>2, <1>3, <1>8, <2>1, <2>2, <2>3, Zenon
<1>9. CASE j = 2
  <2>1. DecodeScalar(chars)[2] = ScalarByte(S(1), S(2), 3)
    BY DEF DecodeScalar, ScalarByte, BlockBytes
  <2>2. DecodeVector(chars)[2] = DoubleByte(Placed(chars, 0), 2)
    BY DEF DecodeVector, StoredByte
  <2>3. DoubleByte(Field(V(0), V(1), 0), 2) = ScalarByte(V(1), V(2), 3)
    <3> HIDE DEF V
    <3> QED
      BY <1>0, <1>1, FieldBytes
  <2> HIDE DEF V, S
  <2> QED
    BY <1>2, <1>3, <1>9, <2>1, <2>2, <2>3, Zenon
<1>10. CASE j = 3
  <2>1. DecodeScalar(chars)[3] = ScalarByte(S(1), S(2), 11)
    BY DEF DecodeScalar, ScalarByte, BlockBytes
  <2>2. DecodeVector(chars)[3] = OrByte(DoubleByte(Placed(chars, 1), 0), DoubleByte(Placed(chars, 0), 3))
    BY DEF DecodeVector, StoredByte
  <2>3. OrByte(DoubleByte(Field(V(2), V(3), 2), 0), DoubleByte(Field(V(0), V(1), 0), 3))
          = ScalarByte(V(1), V(2), 11)
    <3> HIDE DEF V
    <3> QED
      BY <1>1, MeetingBytes
  <2> HIDE DEF V, S
  <2> QED
    BY <1>2, <1>3, <1>4, <1>10, <2>1, <2>2, <2>3, Zenon
<1>11. CASE j = 4
  <2>1. DecodeScalar(chars)[4] = ScalarByte(S(2), S(3), 6)
    BY DEF DecodeScalar, ScalarByte, BlockBytes
  <2>2. DecodeVector(chars)[4] = DoubleByte(Placed(chars, 1), 1)
    BY DEF DecodeVector, StoredByte
  <2>3. DoubleByte(Field(V(2), V(3), 2), 1) = ScalarByte(V(2), V(3), 6)
    <3> HIDE DEF V
    <3> QED
      BY <1>0, <1>1, FieldBytes
  <2> HIDE DEF V, S
  <2> QED
    BY <1>2, <1>4, <1>11, <2>1, <2>2, <2>3, Zenon
<1>12. CASE j = 5
  <2>1. DecodeScalar(chars)[5] = ScalarByte(S(3), S(4), 1)
    BY DEF DecodeScalar, ScalarByte, BlockBytes
  <2>2. DecodeVector(chars)[5] = DoubleByte(Placed(chars, 1), 2)
    BY DEF DecodeVector, StoredByte
  <2>3. DoubleByte(Field(V(2), V(3), 2), 2) = ScalarByte(V(3), V(4), 1)
    <3> HIDE DEF V
    <3> QED
      BY <1>0, <1>1, FieldBytes
  <2> HIDE DEF V, S
  <2> QED
    BY <1>2, <1>4, <1>12, <2>1, <2>2, <2>3, Zenon
<1>13. CASE j = 6
  <2>1. DecodeScalar(chars)[6] = ScalarByte(S(3), S(4), 9)
    BY DEF DecodeScalar, ScalarByte, BlockBytes
  <2>2. DecodeVector(chars)[6] = OrByte(DoubleByte(Placed(chars, 2), 0), DoubleByte(Placed(chars, 1), 3))
    BY DEF DecodeVector, StoredByte
  <2>3. OrByte(DoubleByte(Field(V(4), V(5), 4), 0), DoubleByte(Field(V(2), V(3), 2), 3))
          = ScalarByte(V(3), V(4), 9)
    <3> HIDE DEF V
    <3> QED
      BY <1>1, MeetingBytes
  <2> HIDE DEF V, S
  <2> QED
    BY <1>2, <1>4, <1>5, <1>13, <2>1, <2>2, <2>3, Zenon
<1>14. CASE j = 7
  <2>1. DecodeScalar(chars)[7] = ScalarByte(S(4), S(5), 4)
    BY DEF DecodeScalar, ScalarByte, BlockBytes
  <2>2. DecodeVector(chars)[7] = DoubleByte(Placed(chars, 2), 1)
    BY DEF DecodeVector, StoredByte
  <2>3. DoubleByte(Field(V(4), V(5), 4), 1) = ScalarByte(V(4), V(5), 4)
    <3> HIDE DEF V
    <3> QED
      BY <1>0, <1>1, FieldBytes
  <2> HIDE DEF V, S
  <2> QED
    BY <1>2, <1>5, <1>14, <2>1, <2>2, <2>3, Zenon
<1>15. CASE j = 8
  <2>1. DecodeScalar(chars)[8] = ScalarByte(S(4), S(5), 12)
    BY DEF DecodeScalar, ScalarByte, BlockBytes
  <2>2. DecodeVector(chars)[8] = DoubleByte(Placed(chars, 2), 2)
    BY DEF DecodeVector, StoredByte
  <2>3. DoubleByte(Field(V(4), V(5), 4), 2) = ScalarByte(V(4), V(5), 12)
    <3> HIDE DEF V
    <3> QED
      BY <1>0, <1>1, FieldBytes
  <2> HIDE DEF V, S
  <2> QED
    BY <1>2, <1>5, <1>15, <2>1, <2>2, <2>3, Zenon
<1>16. CASE j = 9
  <2>1. DecodeScalar(chars)[9] = ScalarByte(S(5), S(6), 7)
    BY DEF DecodeScalar, ScalarByte, BlockBytes
  <2>2. DecodeVector(chars)[9] = OrByte(DoubleByte(Placed(chars, 3), 0), DoubleByte(Placed(chars, 2), 3))
    BY DEF DecodeVector, StoredByte
  <2>3. OrByte(DoubleByte(Field(V(6), V(7), 6), 0), DoubleByte(Field(V(4), V(5), 4), 3))
          = ScalarByte(V(5), V(6), 7)
    <3> HIDE DEF V
    <3> QED
      BY <1>1, MeetingBytes
  <2> HIDE DEF V, S
  <2> QED
    BY <1>2, <1>5, <1>6, <1>16, <2>1, <2>2, <2>3, Zenon
<1>17. CASE j = 10
  <2>1. DecodeScalar(chars)[10] = ScalarByte(S(6), S(7), 2)
    BY DEF DecodeScalar, ScalarByte, BlockBytes
  <2>2. DecodeVector(chars)[10] = DoubleByte(Placed(chars, 3), 1)
    BY DEF DecodeVector, StoredByte
  <2>3. DoubleByte(Field(V(6), V(7), 6), 1) = ScalarByte(V(6), V(7), 2)
    <3> HIDE DEF V
    <3> QED
      BY <1>0, <1>1, FieldBytes
  <2> HIDE DEF V, S
  <2> QED
    BY <1>2, <1>6, <1>17, <2>1, <2>2, <2>3, Zenon
<1>18. CASE j = 11
  <2>1. DecodeScalar(chars)[11] = ScalarByte(S(6), S(7), 10)
    BY DEF DecodeScalar, ScalarByte, BlockBytes
  <2>2. DecodeVector(chars)[11] = DoubleByte(Placed(chars, 3), 2)
    BY DEF DecodeVector, StoredByte
  <2>3. DoubleByte(Field(V(6), V(7), 6), 2) = ScalarByte(V(6), V(7), 10)
    <3> HIDE DEF V
    <3> QED
      BY <1>0, <1>1, FieldBytes
  <2> HIDE DEF V, S
  <2> QED
    BY <1>2, <1>6, <1>18, <2>1, <2>2, <2>3, Zenon
<1>19. CASE j = 12
  <2>1. DecodeScalar(chars)[12] = ScalarByte(S(7), 0, 5)
    BY DEF DecodeScalar, ScalarByte, BlockBytes
  <2>2. DecodeVector(chars)[12] = DoubleByte(Placed(chars, 3), 3)
    BY DEF DecodeVector, StoredByte
  <2>3. DoubleByte(Field(V(6), V(7), 6), 3) = ScalarByte(V(7), 0, 5)
    <3> HIDE DEF V
    <3> QED
      BY <1>0, <1>1, FieldBytes
  <2> HIDE DEF V, S
  <2> QED
    BY <1>2, <1>6, <1>19, <2>1, <2>2, <2>3, Zenon
<1> QED
  BY <1>7, <1>8, <1>9, <1>10, <1>11, <1>12, <1>13, <1>14, <1>15, <1>16, <1>17, <1>18, <1>19

----------------------------------------------------------------------------
\* The way back: each byte of a block, out of the one or two groups that it
\* is in, which are 13 bits of the bytes around it.
LEMMA ByteOfGroups0 ==
    ASSUME NEW block, block[0] \in Byte,
           block[1] \in Byte,
           block[2] \in Byte,
           block[3] \in Byte
    PROVE  ScalarByte(Group(block, 0), Group(block, 1), 0) = block[0]
PROOF
<1>1. ASSUME NEW b0 \in Byte, NEW b1 \in Byte, NEW b2 \in Byte, NEW b3 \in Byte
      PROVE  ScalarByte(Slice(b0, b1, b2, 0),
                     Slice(b1, b2, b3, 5), 0) = b0
  <2>1. /\ b0 \in Nat /\ b0 < 256
        /\ b1 \in Nat /\ b1 < 256
        /\ b2 \in Nat /\ b2 < 256
        /\ b3 \in Nat /\ b3 < 256
    BY <1>1, Bytes
  <2> QED
    BY <2>1, Powers, Z3T(60) DEF ScalarByte, Slice
<1>2. ScalarByte(Slice(block[0], block[1], block[2], 0),
                     Slice(block[1], block[2], block[3], 5), 0) = block[0]
  BY <1>1, SMTT(30)
<1> QED
  BY <1>2, GroupBytes, Zenon

LEMMA ByteOfGroups1 ==
    ASSUME NEW block, block[0] \in Byte,
           block[1] \in Byte,
           block[2] \in Byte,
           block[3] \in Byte
    PROVE  ScalarByte(Group(block, 0), Group(block, 1), 8) = block[1]
PROOF
<1>1. ASSUME NEW b0 \in Byte, NEW b1 \in Byte, NEW b2 \in Byte, NEW b3 \in Byte
      PROVE  ScalarByte(Slice(b0, b1, b2, 0),
                     Slice(b1, b2, b3, 5), 8) = b1
  <2>1. /\ b0 \in Nat /\ b0 < 256
        /\ b1 \in Nat /\ b1 < 256
        /\ b2 \in Nat /\ b2 < 256
        /\ b3 \in Nat /\ b3 < 256
    BY <1>1, Bytes
  <2> QED
    BY <2>1, Powers, Z3T(60) DEF ScalarByte, Slice
<1>2. ScalarByte(Slice(block[0], block[1], block[2], 0),
                     Slice(block[1], block[2], block[3], 5), 8) = block[1]
  BY <1>1, SMTT(30)
<1> QED
  BY <1>2, GroupBytes, Zenon

LEMMA ByteOfGroups2 ==
    ASSUME NEW block, block[1] \in Byte,
           block[2] \in Byte,
           block[3] \in Byte,
           block[4] \in Byte,
           block[5] \in Byte
    PROVE  ScalarByte(Group(block, 1), Group(block, 2), 3) = block[2]
PROOF
<1>1. ASSUME NEW b0 \in Byte, NEW b1 \in Byte, NEW b2 \in Byte, NEW b3 \in Byte, NEW b4 \in Byte
      PROVE  ScalarByte(Slice(b0, b1, b2, 5),
                     Slice(b2, b3, b4, 2), 3) = b1
  <2>1. /\ b0 \in Nat /\ b0 < 256
        /\ b1 \in Nat /\ b1 < 256
        /\ b2 \in Nat /\ b2 < 256
        /\ b3 \in Nat /\ b3 < 256
        /\ b4 \in Nat /\ b4 < 256
    BY <1>1, Bytes
  <2> QED
    BY <2>1, Powers, Z3T(60) DEF ScalarByte, Slice
<1>2. ScalarByte(Slice(block[1], block[2], block[3], 5),
                     Slice(block[3], block[4], block[5], 2), 3) = block[2]
  BY <1>1, SMTT(30)
<1> QED
  BY <1>2, GroupBytes, Zenon

LEMMA ByteOfGroups3 ==
    ASSUME NEW block, block[1] \in Byte,
           block[2] \in Byte,
           block[3] \in Byte,
           block[4] \in Byte,
           block[5] \in Byte
    PROVE  ScalarByte(Group(block, 1), Group(block, 2), 11) = block[3]
PROOF
<1>1. ASSUME NEW b0 \in Byte, NEW b1 \in Byte, NEW b2 \in Byte, NEW b3 \in Byte, NEW b4 \in Byte
      PROVE  ScalarByte(Slice(b0, b1, b2, 5),
                     Slice(b2, b3, b4, 2), 11) = b2
  <2>1. /\ b0 \in Nat /\ b0 < 256
        /\ b1 \in Nat /\ b1 < 256
        /\ b2 \in Nat /\ b2 < 256
        /\ b3 \in Nat /\ b3 < 256
        /\ b4 \in Nat /\ b4 < 256
    BY <1>1, Bytes
  <2> QED
    BY <2>1, Powers, Z3T(60) DEF ScalarByte, Slice
<1>2. ScalarByte(Slice(block[1], block[2], block[3], 5),
                     Slice(block[3], block[4], block[5], 2), 11) = block[3]
  BY <1>1, SMTT(30)
<1> QED
  BY <1>2, GroupBytes, Zenon

LEMMA ByteOfGroups4 ==
    ASSUME NEW block, block[3] \in Byte,
           block[4] \in Byte,
           block[5] \in Byte,
           block[6] \in Byte
    PROVE  ScalarByte(Group(block, 2), Group(block, 3), 6) = block[4]
PROOF
<1>1. ASSUME NEW b0 \in Byte, NEW b1 \in Byte, NEW b2 \in Byte, NEW b3 \in Byte
      PROVE  ScalarByte(Slice(b0, b1, b2, 2),
                     Slice(b1, b2, b3, 7), 6) = b1
  <2>1. /\ b0 \in Nat /\ b0 < 256
        /\ b1 \in Nat /\ b1 < 256
        /\ b2 \in Nat /\ b2 < 256
        /\ b3 \in Nat /\ b3 < 256
    BY <1>1, Bytes
  <2> QED
    BY <2>1, Powers, Z3T(60) DEF ScalarByte, Slice
<1>2. ScalarByte(Slice(block[3], block[4], block[5], 2),
                     Slice(block[4], block[5], block[6], 7), 6) = block[4]
  BY <1>1, SMTT(30)
<1> QED
  BY <1>2, GroupBytes, Zenon

LEMMA ByteOfGroups5 ==
    ASSUME NEW block, block[4] \in Byte,
           block[5] \in Byte,
           block[6] \in Byte,
           block[7] \in Byte,
           block[8] \in Byte
    PROVE  ScalarByte(Group(block, 3), Group(block, 4), 1) = block[5]
PROOF
<1>1. ASSUME NEW b0 \in Byte, NEW b1 \in Byte, NEW b2 \in Byte, NEW b3 \in Byte, NEW b4 \in Byte
      PROVE  ScalarByte(Slice(b0, b1, b2, 7),
                     Slice(b2, b3, b4, 4), 1) = b1
  <2>1. /\ b0 \in Nat /\ b0 < 256
        /\ b1 \in Nat /\ b1 < 256
        /\ b2 \in Nat /\ b2 < 256
        /\ b3 \in Nat /\ b3 < 256
        /\ b4 \in Nat /\ b4 < 256
    BY <1>1, Bytes
  <2> QED
    BY <2>1, Powers, Z3T(60) DEF ScalarByte, Slice
<1>2. ScalarByte(Slice(block[4], block[5], block[6], 7),
                     Slice(block[6], block[7], block[8], 4), 1) = block[5]
  BY <1>1, SMTT(30)
<1> QED
  BY <1>2, GroupBytes, Zenon

LEMMA ByteOfGroups6 ==
    ASSUME NEW block, block[4] \in Byte,
           block[5] \in Byte,
           block[6] \in Byte,
           block[7] \in Byte,
           block[8] \in Byte
    PROVE  ScalarByte(Group(block, 3), Group(block, 4), 9) = block[6]
PROOF
<1>1. ASSUME NEW b0 \in Byte, NEW b1 \in Byte, NEW b2 \in Byte, NEW b3 \in Byte, NEW b4 \in Byte
      PROVE  ScalarByte(Slice(b0, b1, b2, 7),
                     Slice(b2, b3, b4, 4), 9) = b2
  <2>1. /\ b0 \in Nat /\ b0 < 256
        /\ b1 \in Nat /\ b1 < 256
        /\ b2 \in Nat /\ b2 < 256
        /\ b3 \in Nat /\ b3 < 256
        /\ b4 \in Nat /\ b4 < 256
    BY <1>1, Bytes
  <2> QED
    BY <2>1, Powers, Z3T(60) DEF ScalarByte, Slice
<1>2. ScalarByte(Slice(block[4], block[5], block[6], 7),
                     Slice(block[6], block[7], block[8], 4), 9) = block[6]
  BY <1>1, SMTT(30)
<1> QED
  BY <1>2, GroupBytes, Zenon

LEMMA ByteOfGroups7 ==
    ASSUME NEW block, block[6] \in Byte,
           block[7] \in Byte,
           block[8] \in Byte,
           block[9] \in Byte,
           block[10] \in Byte
    PROVE  ScalarByte(Group(block, 4), Group(block, 5), 4) = block[7]
PROOF
<1>1. ASSUME NEW b0 \in Byte, NEW b1 \in Byte, NEW b2 \in Byte, NEW b3 \in Byte, NEW b4 \in Byte
      PROVE  ScalarByte(Slice(b0, b1, b2, 4),
                     Slice(b2, b3, b4, 1), 4) = b1
  <2>1. /\ b0 \in Nat /\ b0 < 256
        /\ b1 \in Nat /\ b1 < 256
        /\ b2 \in Nat /\ b2 < 256
        /\ b3 \in Nat /\ b3 < 256
        /\ b4 \in Nat /\ b4 < 256
    BY <1>1, Bytes
  <2> QED
    BY <2>1, Powers, Z3T(60) DEF ScalarByte, Slice
<1>2. ScalarByte(Slice(block[6], block[7], block[8], 4),
                     Slice(block[8], block[9], block[10], 1), 4) = block[7]
  BY <1>1, SMTT(30)
<1> QED
  BY <1>2, GroupBytes, Zenon

LEMMA ByteOfGroups8 ==
    ASSUME NEW block, block[6] \in Byte,
           block[7] \in Byte,
           block[8] \in Byte,
           block[9] \in Byte,
           block[10] \in Byte
    PROVE  ScalarByte(Group(block, 4), Group(block, 5), 12) = block[8]
PROOF
<1>1. ASSUME NEW b0 \in Byte, NEW b1 \in Byte, NEW b2 \in Byte, NEW b3 \in Byte, NEW b4 \in Byte
      PROVE  ScalarByte(Slice(b0, b1, b2, 4),
                     Slice(b2, b3, b4, 1), 12) = b2
  <2>1. /\ b0 \in Nat /\ b0 < 256
        /\ b1 \in Nat /\ b1 < 256
        /\ b2 \in Nat /\ b2 < 256
        /\ b3 \in Nat /\ b3 < 256
        /\ b4 \in Nat /\ b4 < 256
    BY <1>1, Bytes
  <2> QED
    BY <2>1, Powers, Z3T(60) DEF ScalarByte, Slice
<1>2. ScalarByte(Slice(block[6], block[7], block[8], 4),
                     Slice(block[8], block[9], block[10], 1), 12) = block[8]
  BY <1>1, SMTT(30)
<1> QED
  BY <1>2, GroupBytes, Zenon

LEMMA ByteOfGroups9 ==
    ASSUME NEW block, block[8] \in Byte,
           block[9] \in Byte,
           block[10] \in Byte,
           block[11] \in Byte
    PROVE  ScalarByte(Group(block, 5), Group(block, 6), 7) = block[9]
PROOF
<1>1. ASSUME NEW b0 \in Byte, NEW b1 \in Byte, NEW b2 \in Byte, NEW b3 \in Byte
      PROVE  ScalarByte(Slice(b0, b1, b2, 1),
                     Slice(b1, b2, b3, 6), 7) = b1
  <2>1. /\ b0 \in Nat /\ b0 < 256
        /\ b1 \in Nat /\ b1 < 256
        /\ b2 \in Nat /\ b2 < 256
        /\ b3 \in Nat /\ b3 < 256
    BY <1>1, Bytes
  <2> QED
    BY <2>1, Powers, Z3T(60) DEF ScalarByte, Slice
<1>2. ScalarByte(Slice(block[8], block[9], block[10], 1),
                     Slice(block[9], block[10], block[11], 6), 7) = block[9]
  BY <1>1, SMTT(30)
<1> QED
  BY <1>2, GroupBytes, Zenon

LEMMA ByteOfGroups10 ==
    ASSUME NEW block, block[9] \in Byte,
           block[10] \in Byte,
           block[11] \in Byte,
           block[12] \in Byte
    PROVE  ScalarByte(Group(block, 6), Group(block, 7), 2) = block[10]
PROOF
<1>1. ASSUME NEW b0 \in Byte, NEW b1 \in Byte, NEW b2 \in Byte, NEW b3 \in Byte
      PROVE  ScalarByte(Slice(b0, b1, b2, 6),
                     Slice(b2, b3, 0, 3), 2) = b1
  <2>1. /\ b0 \in Nat /\ b0 < 256
        /\ b1 \in Nat /\ b1 < 256
        /\ b2 \in Nat /\ b2 < 256
        /\ b3 \in Nat /\ b3 < 256
    BY <1>1, Bytes
  <2> QED
    BY <2>1, Powers, Z3T(60) DEF ScalarByte, Slice
<1>2. ScalarByte(Slice(block[9], block[10], block[11], 6),
                     Slice(block[11], block[12], 0, 3), 2) = block[10]
  BY <1>1, SMTT(30)
<1> QED
  BY <1>2, GroupBytes, Zenon

LEMMA ByteOfGroups11 ==
    ASSUME NEW block, block[9] \in Byte,
           block[10] \in Byte,
           block[11] \in Byte,
           block[12] \in Byte
    PROVE  ScalarByte(Group(block, 6), Group(block, 7), 10) = block[11]
PROOF
<1>1. ASSUME NEW b0 \in Byte, NEW b1 \in Byte, NEW b2 \in Byte, NEW b3 \in Byte
      PROVE  ScalarByte(Slice(b0, b1, b2, 6),
                     Slice(b2, b3, 0, 3), 10) = b2
  <2>1. /\ b0 \in Nat /\ b0 < 256
        /\ b1 \in Nat /\ b1 < 256
        /\ b2 \in Nat /\ b2 < 256
        /\ b3 \in Nat /\ b3 < 256
    BY <1>1, Bytes
  <2> QED
    BY <2>1, Powers, Z3T(60) DEF ScalarByte, Slice
<1>2. ScalarByte(Slice(block[9], block[10], block[11], 6),
                     Slice(block[11], block[12], 0, 3), 10) = block[11]
  BY <1>1, SMTT(30)
<1> QED
  BY <1>2, GroupBytes, Zenon

LEMMA ByteOfGroups12 ==
    ASSUME NEW block, block[11] \in Byte,
           block[12] \in Byte
    PROVE  ScalarByte(Group(block, 7), 0, 5) = block[12]
PROOF
<1>1. ASSUME NEW b0 \in Byte, NEW b1 \in Byte
      PROVE  ScalarByte(Slice(b0, b1, 0, 3),
                     0, 5) = b1
  <2>1. /\ b0 \in Nat /\ b0 < 256
        /\ b1 \in Nat /\ b1 < 256
    BY <1>1, Bytes
  <2> QED
    BY <2>1, Powers, Z3T(60) DEF ScalarByte, Slice
<1>2. ScalarByte(Slice(block[11], block[12], 0, 3),
                     0, 5) = block[12]
  BY <1>1, SMTT(30)
<1> QED
  BY <1>2, GroupBytes, Zenon

\* What EncodeScalar writes is valid, and DecodeScalar reads the block of it:
\* the code of a block loses nothing, for any of the 2^104 blocks.
LEMMA EncodedPairs ==
    ASSUME NEW block \in [0 .. 12 -> Byte], NEW k \in 0 .. 7
    PROVE  /\ InAlphabet(EncodeScalar(block)[2 * k])
           /\ InAlphabet(EncodeScalar(block)[2 * k + 1])
           /\ EncodeScalar(block)[2 * k] \in Byte
           /\ EncodeScalar(block)[2 * k + 1] \in Byte
           /\ PairValue(EncodeScalar(block), k) = Group(block, k)
           /\ Group(block, k) \in Value13
PROOF
<1>1. PICK data : LoadedFor(block, data)
  <2>1. LoadedFor(block, [j \in 0 .. 15 |-> IF j < 13 THEN block[j] ELSE 0])
    BY DEF LoadedFor, Byte
  <2> QED
    BY <2>1
<1>2. PICK v \in Value13 : v = Group(block, k)
  BY <1>1, Groups, Zenon
<1>3. /\ Remainder(v) \in Digit /\ Quotient(v) \in Digit
      /\ v = Remainder(v) + 91 * Quotient(v)
  BY TwoDigits
<1>4. EncodeScalar(block)[2 * k] = AlphabetChar(Remainder(v))
  <2>1. 2 * k \in 0 .. BlockChars - 1 /\ (2 * k) \div 2 = k /\ (2 * k) % 2 = 0
    BY DEF BlockChars
  <2> QED
    BY <1>2, <2>1, Zenon DEF EncodeScalar, Remainder
<1>5. EncodeScalar(block)[2 * k + 1] = AlphabetChar(Quotient(v))
  <2>1. /\ 2 * k + 1 \in 0 .. BlockChars - 1
        /\ (2 * k + 1) \div 2 = k /\ (2 * k + 1) % 2 # 0
    BY DEF BlockChars
  <2> QED
    BY <1>2, <2>1, Zenon DEF EncodeScalar, Quotient
<1>6. PairValue(EncodeScalar(block), k) = Remainder(v) + 91 * Quotient(v)
  <2>1. Index(AlphabetChar(Remainder(v))) = Remainder(v)
    BY <1>3, Characters, Zenon
  <2>2. Index(AlphabetChar(Quotient(v))) = Quotient(v)
    BY <1>3, Characters, Zenon
  <2> QED
    BY <1>4, <1>5, <2>1, <2>2 DEF PairValue
<1>7. /\ InAlphabet(EncodeScalar(block)[2 * k])
      /\ InAlphabet(EncodeScalar(block)[2 * k + 1])
      /\ EncodeScalar(block)[2 * k] \in Byte
      /\ EncodeScalar(block)[2 * k + 1] \in Byte
  BY <1>3, <1>4, <1>5, Characters, Zenon
<1>8. PairValue(EncodeScalar(block), k) = Group(block, k)
  BY <1>2, <1>3, <1>6
<1> QED
  BY <1>2, <1>7, <1>8, Zenon

THEOREM BlockRoundTrip ==
    ASSUME NEW block \in [0 .. 12 -> Byte]
    PROVE  /\ ValidScalar(EncodeScalar(block))
           /\ DecodeScalar(EncodeScalar(block)) = block
PROOF
<1> DEFINE text == EncodeScalar(block)
<1>1. \A x \in 0 .. 15 : InAlphabet(text[x])
  <2> SUFFICES ASSUME NEW x \in 0 .. 15 PROVE InAlphabet(text[x])
    OBVIOUS
  <2>1. \E k \in 0 .. 7 : x = 2 * k \/ x = 2 * k + 1
    <3>1. x \div 2 \in 0 .. 7 /\ (x = 2 * (x \div 2) \/ x = 2 * (x \div 2) + 1)
      BY Z3
    <3> QED
      BY <3>1
  <2> QED
    BY <2>1, EncodedPairs, Zenon
<1>2. \A k \in 0 .. 7 : PairValue(text, k) \in Value13
  BY EncodedPairs, Zenon
<1>3. ValidScalar(text)
  <2>1. \A k \in 0 .. 7 : PairValue(text, k) <= 8191
    <3> HIDE DEF text
    <3>1. \A v \in Value13 : v <= 8191
      BY DEF Value13
    <3> QED
      BY <1>2, <3>1
  <2>2. BlockChars - 1 = 15
    BY DEF BlockChars
  <2> HIDE DEF text
  <2> QED
    BY <1>1, <2>1, <2>2 DEF ValidScalar
<1>4. \A k \in 0 .. 7 : PairValue(text, k) % 8192 = Group(block, k)
  <2> SUFFICES ASSUME NEW k \in 0 .. 7 PROVE PairValue(text, k) % 8192 = Group(block, k)
    OBVIOUS
  <2>1. PICK v \in Value13 : v = PairValue(text, k) /\ v = Group(block, k)
    BY EncodedPairs, Zenon
  <2>2. v \in Nat /\ v < 8192
    BY Values
  <2>3. v % 8192 = v
    BY <2>2, Z3
  <2> QED
    BY <2>1, <2>3
<1> HIDE DEF text
<1>5. ASSUME NEW j \in 0 .. 12 PROVE DecodeScalar(text)[j] = block[j]
  <2>1. DecodeScalar(text)[0] = block[0]
    <3>1. DecodeScalar(text)[0] = ScalarByte(PairValue(text, 0) % 8192, PairValue(text, 1) % 8192, 0)
      BY DEF DecodeScalar, ScalarByte, BlockBytes
    <3>2. DecodeScalar(text)[0] = ScalarByte(Group(block, 0), Group(block, 1), 0)
      BY <1>4, <3>1
    <3>3. block[0] \in Byte /\ block[1] \in Byte /\ block[2] \in Byte /\ block[3] \in Byte
      OBVIOUS
    <3> QED
      BY <3>2, <3>3, ByteOfGroups0, Zenon
  <2>2. DecodeScalar(text)[1] = block[1]
    <3>1. DecodeScalar(text)[1] = ScalarByte(PairValue(text, 0) % 8192, PairValue(text, 1) % 8192, 8)
      BY DEF DecodeScalar, ScalarByte, BlockBytes
    <3>2. DecodeScalar(text)[1] = ScalarByte(Group(block, 0), Group(block, 1), 8)
      BY <1>4, <3>1
    <3>3. block[0] \in Byte /\ block[1] \in Byte /\ block[2] \in Byte /\ block[3] \in Byte
      OBVIOUS
    <3> QED
      BY <3>2, <3>3, ByteOfGroups1, Zenon
  <2>3. DecodeScalar(text)[2] = block[2]
    <3>1. DecodeScalar(text)[2] = ScalarByte(PairValue(text, 1) % 8192, PairValue(text, 2) % 8192, 3)
      BY DEF DecodeScalar, ScalarByte, BlockBytes
    <3>2. DecodeScalar(text)[2] = ScalarByte(Group(block, 1), Group(block, 2), 3)
      BY <1>4, <3>1
    <3>3. block[1] \in Byte /\ block[2] \in Byte /\ block[3] \in Byte /\ block[4] \in Byte /\ block[5] \in Byte
      OBVIOUS
    <3> QED
      BY <3>2, <3>3, ByteOfGroups2, Zenon
  <2>4. DecodeScalar(text)[3] = block[3]
    <3>1. DecodeScalar(text)[3] = ScalarByte(PairValue(text, 1) % 8192, PairValue(text, 2) % 8192, 11)
      BY DEF DecodeScalar, ScalarByte, BlockBytes
    <3>2. DecodeScalar(text)[3] = ScalarByte(Group(block, 1), Group(block, 2), 11)
      BY <1>4, <3>1
    <3>3. block[1] \in Byte /\ block[2] \in Byte /\ block[3] \in Byte /\ block[4] \in Byte /\ block[5] \in Byte
      OBVIOUS
    <3> QED
      BY <3>2, <3>3, ByteOfGroups3, Zenon
  <2>5. DecodeScalar(text)[4] = block[4]
    <3>1. DecodeScalar(text)[4] = ScalarByte(PairValue(text, 2) % 8192, PairValue(text, 3) % 8192, 6)
      BY DEF DecodeScalar, ScalarByte, BlockBytes
    <3>2. DecodeScalar(text)[4] = ScalarByte(Group(block, 2), Group(block, 3), 6)
      BY <1>4, <3>1
    <3>3. block[3] \in Byte /\ block[4] \in Byte /\ block[5] \in Byte /\ block[6] \in Byte
      OBVIOUS
    <3> QED
      BY <3>2, <3>3, ByteOfGroups4, Zenon
  <2>6. DecodeScalar(text)[5] = block[5]
    <3>1. DecodeScalar(text)[5] = ScalarByte(PairValue(text, 3) % 8192, PairValue(text, 4) % 8192, 1)
      BY DEF DecodeScalar, ScalarByte, BlockBytes
    <3>2. DecodeScalar(text)[5] = ScalarByte(Group(block, 3), Group(block, 4), 1)
      BY <1>4, <3>1
    <3>3. block[4] \in Byte /\ block[5] \in Byte /\ block[6] \in Byte /\ block[7] \in Byte /\ block[8] \in Byte
      OBVIOUS
    <3> QED
      BY <3>2, <3>3, ByteOfGroups5, Zenon
  <2>7. DecodeScalar(text)[6] = block[6]
    <3>1. DecodeScalar(text)[6] = ScalarByte(PairValue(text, 3) % 8192, PairValue(text, 4) % 8192, 9)
      BY DEF DecodeScalar, ScalarByte, BlockBytes
    <3>2. DecodeScalar(text)[6] = ScalarByte(Group(block, 3), Group(block, 4), 9)
      BY <1>4, <3>1
    <3>3. block[4] \in Byte /\ block[5] \in Byte /\ block[6] \in Byte /\ block[7] \in Byte /\ block[8] \in Byte
      OBVIOUS
    <3> QED
      BY <3>2, <3>3, ByteOfGroups6, Zenon
  <2>8. DecodeScalar(text)[7] = block[7]
    <3>1. DecodeScalar(text)[7] = ScalarByte(PairValue(text, 4) % 8192, PairValue(text, 5) % 8192, 4)
      BY DEF DecodeScalar, ScalarByte, BlockBytes
    <3>2. DecodeScalar(text)[7] = ScalarByte(Group(block, 4), Group(block, 5), 4)
      BY <1>4, <3>1
    <3>3. block[6] \in Byte /\ block[7] \in Byte /\ block[8] \in Byte /\ block[9] \in Byte /\ block[10] \in Byte
      OBVIOUS
    <3> QED
      BY <3>2, <3>3, ByteOfGroups7, Zenon
  <2>9. DecodeScalar(text)[8] = block[8]
    <3>1. DecodeScalar(text)[8] = ScalarByte(PairValue(text, 4) % 8192, PairValue(text, 5) % 8192, 12)
      BY DEF DecodeScalar, ScalarByte, BlockBytes
    <3>2. DecodeScalar(text)[8] = ScalarByte(Group(block, 4), Group(block, 5), 12)
      BY <1>4, <3>1
    <3>3. block[6] \in Byte /\ block[7] \in Byte /\ block[8] \in Byte /\ block[9] \in Byte /\ block[10] \in Byte
      OBVIOUS
    <3> QED
      BY <3>2, <3>3, ByteOfGroups8, Zenon
  <2>10. DecodeScalar(text)[9] = block[9]
    <3>1. DecodeScalar(text)[9] = ScalarByte(PairValue(text, 5) % 8192, PairValue(text, 6) % 8192, 7)
      BY DEF DecodeScalar, ScalarByte, BlockBytes
    <3>2. DecodeScalar(text)[9] = ScalarByte(Group(block, 5), Group(block, 6), 7)
      BY <1>4, <3>1
    <3>3. block[8] \in Byte /\ block[9] \in Byte /\ block[10] \in Byte /\ block[11] \in Byte
      OBVIOUS
    <3> QED
      BY <3>2, <3>3, ByteOfGroups9, Zenon
  <2>11. DecodeScalar(text)[10] = block[10]
    <3>1. DecodeScalar(text)[10] = ScalarByte(PairValue(text, 6) % 8192, PairValue(text, 7) % 8192, 2)
      BY DEF DecodeScalar, ScalarByte, BlockBytes
    <3>2. DecodeScalar(text)[10] = ScalarByte(Group(block, 6), Group(block, 7), 2)
      BY <1>4, <3>1
    <3>3. block[9] \in Byte /\ block[10] \in Byte /\ block[11] \in Byte /\ block[12] \in Byte
      OBVIOUS
    <3> QED
      BY <3>2, <3>3, ByteOfGroups10, Zenon
  <2>12. DecodeScalar(text)[11] = block[11]
    <3>1. DecodeScalar(text)[11] = ScalarByte(PairValue(text, 6) % 8192, PairValue(text, 7) % 8192, 10)
      BY DEF DecodeScalar, ScalarByte, BlockBytes
    <3>2. DecodeScalar(text)[11] = ScalarByte(Group(block, 6), Group(block, 7), 10)
      BY <1>4, <3>1
    <3>3. block[9] \in Byte /\ block[10] \in Byte /\ block[11] \in Byte /\ block[12] \in Byte
      OBVIOUS
    <3> QED
      BY <3>2, <3>3, ByteOfGroups11, Zenon
  <2>13. DecodeScalar(text)[12] = block[12]
    <3>1. DecodeScalar(text)[12] = ScalarByte(PairValue(text, 7) % 8192, 0, 5)
      BY DEF DecodeScalar, ScalarByte, BlockBytes
    <3>2. DecodeScalar(text)[12] = ScalarByte(Group(block, 7), 0, 5)
      BY <1>4, <3>1
    <3>3. block[11] \in Byte /\ block[12] \in Byte
      OBVIOUS
    <3> QED
      BY <3>2, <3>3, ByteOfGroups12, Zenon
  <2> QED
    BY <2>1, <2>2, <2>3, <2>4, <2>5, <2>6, <2>7, <2>8, <2>9, <2>10, <2>11, <2>12, <2>13
<1>6. /\ DecodeScalar(text) = [j \in 0 .. 12 |-> DecodeScalar(text)[j]]
      /\ block = [j \in 0 .. 12 |-> block[j]]
  BY DEF DecodeScalar, BlockBytes
<1>7. DecodeScalar(text) = block
  BY <1>5, <1>6, Zenon
<1> QED
  BY <1>3, <1>7 DEF text

----------------------------------------------------------------------------
\* Batches: block k of batch b, its bytes and its characters, and line l's LF.
Total(b) == b.n * b.lines
Where(b, k) == b.stride * (k \div b.n) + 16 * (k % b.n)
FeedAt(b, l) == b.stride * (l - 1) + 16 * b.n
BlockOf(b, k) == [j \in 0 .. 12 |-> b.src[13 * k + j + 1]]
CharsOf(b, k) == [x \in 0 .. 15 |-> b.src[Where(b, k) + x + 1]]

\* A batch as its functions get it, with one of the levels.
Good(b) ==
    /\ Shaped(b, "encode") \/ Shaped(b, "decode")
    /\ b.level \in {"scalar", "sse41", "avx2"}
    /\ b.op = "encode" =>
         /\ Len(b.src) >= 13 * Total(b)
         /\ b.room >= LineRoom(b) + (IF b.lf THEN 1 ELSE 0)
    /\ b.op = "decode" =>
         /\ ~ b.lf
         /\ Len(b.src) >= LineRoom(b)
         /\ b.room >= b.w + 13 * Total(b)

\* Where a call's bytes and its characters begin; its first block; how many it
\* does in a line and in all.  The last block on its own has a buffer.
Calls == [kernel : {"scalar", "sse41", "avx2"}, from : {"src", "pad"}, at : Nat,
          to : {"out", "side"}, into : Nat, stride : Nat, n : Nat, lines : Nat,
          lf : BOOLEAN]
Aside(c) == c.from = "pad" \/ c.to = "side"
ByteAt(b, c) == IF b.op = "encode" THEN c.at ELSE c.into - b.w
CharAt(b, c) == IF b.op = "encode" THEN c.into ELSE c.at
First(b, c) == IF Aside(c) THEN Total(b) - 1 ELSE ByteAt(b, c) \div 13
Row(c) == Size(c) * c.n
Covered(c) == Row(c) * c.lines

\* A call does a part of one line, or whole lines; it ends lines when it
\* comes to their end; three bytes are behind the blocks it does.
InPlace(b, c) ==
    /\ c \in Calls
    /\ IF b.op = "encode" THEN c.to = "out" ELSE c.from = "src"
    /\ First(b, c) \in Nat /\ First(b, c) + Covered(c) <= Total(b)
    /\ CharAt(b, c) = Where(b, First(b, c))
    /\ (First(b, c) % b.n) + Row(c) <= b.n
    /\ \/ c.lines = 1
       \/ Row(c) = b.n /\ First(b, c) % b.n = 0 /\ c.stride = b.stride
    /\ c.lf <=> b.lf /\ (First(b, c) % b.n) + Row(c) = b.n
    /\ IF Aside(c)
       THEN /\ (IF b.op = "encode" THEN c.at ELSE c.into) = 0
            /\ Row(c) <= 1 /\ c.lines = 1
            /\ b.op = "decode" => ~ RoomForSlack(b)
       ELSE /\ ByteAt(b, c) = 13 * First(b, c)
            /\ 13 * (First(b, c) + Covered(c)) + Slack
                 <= IF b.op = "encode" THEN Len(b.src) ELSE b.room - b.w

\* The calls s do the blocks up to g, without a gap; the first begins at f.
InOrder(b, s, g) ==
    /\ s \in Seq(Calls)
    /\ \A i \in 1 .. Len(s) :
         /\ InPlace(b, s[i])
         /\ First(b, s[i]) + Covered(s[i])
              = IF i = Len(s) THEN g ELSE First(b, s[i + 1])
From(b, s, f, g) == IF s = << >> THEN f = g ELSE First(b, s[1]) = f

\* Memory m has the code of the first f blocks and the LFs of the lines L, and
\* was not written elsewhere.
Memory(b, m) == m = [a \in 0 .. b.room - 1 |-> m[a]]
Buffer(bytes, top) == bytes = [x \in 0 .. top |-> bytes[x]]
EncodedTo(b, m, f, L) ==
    /\ Memory(b, m)
    /\ \A k \in 0 .. f - 1 : \A x \in 0 .. 15 :
         m[Where(b, k) + x] = EncodeScalar(BlockOf(b, k))[x]
    /\ \A l \in L : m[FeedAt(b, l)] = 10
    /\ \A a \in 0 .. b.room - 1 :
         \/ \E k \in 0 .. f - 1 : a - Where(b, k) \in 0 .. 15
         \/ \E l \in L : a = FeedAt(b, l)
         \/ m[a] = Keep

\* Memory m has the bytes of the valid ones among the first f blocks, and was
\* not written before the batch's or beyond the slack.
HasBytes(b, k, bytes) ==
    ValidScalar(CharsOf(b, k)) =>
        \A j \in 0 .. 12 : bytes[j] = DecodeScalar(CharsOf(b, k))[j]
DecodedTo(b, m, f) ==
    /\ Memory(b, m)
    /\ \A k \in 0 .. f - 1 :
         HasBytes(b, k, [j \in 0 .. 12 |-> m[b.w + 13 * k + j]])
    /\ \A a \in 0 .. b.room - 1 :
         a \in b.w .. b.w + 13 * f + Slack - 1 \/ m[a] = Keep
AllValid(b, f) == \A k \in 0 .. f - 1 : ValidScalar(CharsOf(b, k))

\* How many blocks are done, how many of them are in the output, and the lines
\* that have their LF.
Finished ==
    IF todo = << >> THEN Total(batch)
    ELSE First(batch, call) + Row(call) * line + Size(call) * unit
InSide == ~ RoomForSlack(batch) /\ pc # "done" /\ Finished = Total(batch)
Fed ==
    {l \in 1 .. batch.lines :
        /\ batch.lf /\ batch.n * l <= Finished
        /\ todo # << >> /\ line < call.lines /\ unit = call.n /\ call.lf
             => batch.n * l < Finished}

Control ==
    /\ Good(batch)
    /\ InOrder(batch, todo, Total(batch))
    /\ pc \in {"run", "copy", "done"}
    /\ pc # "run" => todo = << >>
    /\ pc = "copy" => ~ Encoding /\ ~ RoomForSlack(batch)
    /\ line \in Nat /\ unit \in Nat /\ ok \in BOOLEAN
    /\ worst \in Nat \X Nat
    /\ todo = << >> => line = 0 /\ unit = 0 /\ worst = <<0, 0>>
    /\ todo # << >> =>
         /\ line <= call.lines /\ unit <= call.n
         /\ line = call.lines => unit = 0
    /\ Buffer(side, 15)
    /\ Encoding => side = Pad(batch)

EncodeSound == Encoding => EncodedTo(batch, out, Finished, Fed)

DecodeSound ==
    ~ Encoding =>
      /\ ok /\ worst[1] <= 90 /\ worst[2] <= 8191 <=> AllValid(batch, Finished)
      /\ DecodedTo(batch, out, IF InSide THEN Total(batch) - 1 ELSE Finished)
      /\ InSide => HasBytes(batch, Total(batch) - 1, side)

IInv == Control /\ EncodeSound /\ DecodeSound

----------------------------------------------------------------------------
\* The geometry of a batch.

\* The numbers of a batch, and that lines do not overlap.
LEMMA GoodIs ==
    ASSUME NEW b, Good(b)
    PROVE  /\ b.n \in Nat \ {0} /\ b.lines \in Nat \ {0} /\ b.stride \in Nat
           /\ b.lf \in BOOLEAN /\ b.w \in Nat /\ b.src \in Seq(Byte) /\ b.room \in Nat
           /\ Len(b.src) \in Nat
           /\ b.op \in {"encode", "decode"}
           /\ b.lines = 1 \/ b.stride >= 16 * b.n + (IF b.lf THEN 1 ELSE 0)
           /\ Total(b) \in Nat \ {0} /\ LineRoom(b) \in Nat
<1>1. PICK op \in {"encode", "decode"} : Shaped(b, op)
  BY DEF Good
<1>2. /\ b.n \in Nat \ {0} /\ b.lines \in Nat \ {0} /\ b.stride \in Nat
      /\ b.lf \in BOOLEAN /\ b.w \in Nat /\ b.src \in Seq(Byte) /\ b.room \in Nat
      /\ b.op = op
      /\ b.lines = 1 \/ b.stride >= 16 * b.n + (IF b.lf THEN 1 ELSE 0)
  BY <1>1 DEF Shaped
<1>3. Len(b.src) \in Nat
  BY <1>2
<1>4. Total(b) \in Nat \ {0}
  BY <1>2 DEF Total
<1>5. LineRoom(b) \in Nat
  <2>1. PICK m \in Nat : m = b.lines - 1
    BY <1>2
  <2>2. b.stride * m \in Nat
    BY <1>2
  <2> QED
    BY <1>2, <2>1, <2>2 DEF LineRoom
<1> QED
  BY <1>2, <1>3, <1>4, <1>5

\* A block's line and its place in it.
LEMMA CellIs ==
    ASSUME NEW b, Good(b), NEW k \in 0 .. Total(b) - 1
    PROVE  \E q \in 0 .. b.lines - 1, r \in 0 .. b.n - 1 :
             /\ k \div b.n = q /\ k % b.n = r
             /\ k = b.n * q + r /\ Where(b, k) = b.stride * q + 16 * r
<1>1. b.n \in Nat \ {0} /\ b.lines \in Nat \ {0} /\ k \in Nat /\ k < b.n * b.lines
  BY GoodIs DEF Total
<1>2. PICK q \in Nat : q = k \div b.n
  BY <1>1, Num!Division
<1>3. PICK r \in 0 .. b.n - 1 : r = k % b.n
  BY <1>1, Num!Division
<1>4. k = b.n * q + r
  BY <1>1, <1>2, <1>3, Num!Division
<1>5. q < b.lines
  <2>1. SUFFICES ASSUME q >= b.lines PROVE FALSE
    BY <1>1
  <2>2. b.n * q >= b.n * b.lines
    BY <1>1, <2>1
  <2>3. b.n * q \in Nat /\ b.n * b.lines \in Nat
    BY <1>1
  <2> QED
    BY ONLY <1>1, <1>3, <1>4, <2>2, <2>3
<1>6. Where(b, k) = b.stride * q + 16 * r
  BY <1>2, <1>3 DEF Where
<1>7. q \in 0 .. b.lines - 1
  BY <1>1, <1>5
<1> QED
  BY <1>2, <1>3, <1>4, <1>6, <1>7

\* The block at a place of a line.
LEMMA CellOf ==
    ASSUME NEW b, Good(b), NEW q \in Nat, NEW r \in 0 .. b.n - 1
    PROVE  /\ (b.n * q + r) \div b.n = q /\ (b.n * q + r) % b.n = r
           /\ Where(b, b.n * q + r) = b.stride * q + 16 * r
<1>1. b.n \in Nat \ {0}
  BY GoodIs
<1>2. (b.n * q + r) \div b.n = q /\ (b.n * q + r) % b.n = r
  BY <1>1, Num!DivisionUnique
<1> QED
  BY <1>2 DEF Where

\* Lines do not overlap, with their LFs.
LEMMA LinesApart ==
    ASSUME NEW b, Good(b), NEW p \in 0 .. b.lines - 1, NEW q \in 0 .. b.lines - 1,
           p < q
    PROVE  /\ b.stride * p \in Nat /\ b.stride * q \in Nat
           /\ b.stride * p + 16 * b.n + (IF b.lf THEN 1 ELSE 0) <= b.stride * q
<1>1. /\ b.n \in Nat /\ b.lines \in Nat /\ b.stride \in Nat /\ b.lf \in BOOLEAN
      /\ b.stride >= 16 * b.n + (IF b.lf THEN 1 ELSE 0)
  BY GoodIs
<1>2. PICK d \in Nat : q = p + 1 + d
  <2>1. q - p - 1 \in Nat /\ q = p + 1 + (q - p - 1)
    BY <1>1
  <2> QED
    BY <2>1
<1>3. b.stride * q = b.stride * p + b.stride + b.stride * d
  BY <1>1, <1>2
<1>4. b.stride * d \in Nat /\ b.stride * p \in Nat /\ b.stride * q \in Nat
  BY <1>1, <1>2
<1> QED
  BY <1>1, <1>3, <1>4

\* and each ends inside the batch's room.
LEMMA LinesInside ==
    ASSUME NEW b, Good(b), NEW q \in 0 .. b.lines - 1
    PROVE  b.stride * q \in Nat /\ b.stride * q + 16 * b.n <= LineRoom(b)
<1>1. b.lines \in Nat \ {0} /\ b.stride \in Nat /\ b.n \in Nat
  BY GoodIs
<1>2. CASE q = b.lines - 1
  BY <1>1, <1>2 DEF LineRoom
<1>3. CASE q # b.lines - 1
  <2>1. q < b.lines - 1 /\ b.lines - 1 \in 0 .. b.lines - 1
    BY <1>1, <1>3
  <2>2. /\ b.stride * q \in Nat /\ b.stride * (b.lines - 1) \in Nat
        /\ b.stride * q + 16 * b.n + (IF b.lf THEN 1 ELSE 0) <= b.stride * (b.lines - 1)
    BY <2>1, LinesApart
  <2> QED
    BY <1>1, <2>2 DEF LineRoom
<1> QED
  BY <1>2, <1>3

\* Blocks do not overlap,
LEMMA WhereIs ==
    ASSUME NEW b, Good(b), NEW k \in 0 .. Total(b) - 1
    PROVE  Where(b, k) \in Nat /\ Where(b, k) + 16 <= LineRoom(b)
<1>1. b.n \in Nat \ {0} /\ b.lines \in Nat
  BY GoodIs
<1>2. PICK q \in 0 .. b.lines - 1, r \in 0 .. b.n - 1 :
        Where(b, k) = b.stride * q + 16 * r
  BY CellIs
<1>3. b.stride * q \in Nat /\ b.stride * q + 16 * b.n <= LineRoom(b)
  BY LinesInside
<1>4. LineRoom(b) \in Nat
  BY GoodIs
<1> QED
  BY ONLY <1>1, <1>2, <1>3, <1>4

\* whichever lines they are in,
LEMMA BlocksApart ==
    ASSUME NEW b, Good(b), NEW j \in 0 .. Total(b) - 1, NEW k \in 0 .. Total(b) - 1,
           j < k
    PROVE  Where(b, j) + 16 <= Where(b, k)
<1>1. b.n \in Nat \ {0} /\ b.lines \in Nat /\ b.lf \in BOOLEAN /\ b.stride \in Nat
  BY GoodIs
<1>2. PICK p \in 0 .. b.lines - 1, s \in 0 .. b.n - 1 :
        j = b.n * p + s /\ Where(b, j) = b.stride * p + 16 * s
  BY CellIs
<1>3. PICK q \in 0 .. b.lines - 1, r \in 0 .. b.n - 1 :
        k = b.n * q + r /\ Where(b, k) = b.stride * q + 16 * r
  BY CellIs
<1>4. CASE p = q
  <2>1. s < r
    BY <1>1, <1>2, <1>3, <1>4
  <2>2. b.stride * p \in Nat
    BY <1>1
  <2> QED
    BY <1>1, <1>2, <1>3, <1>4, <2>1, <2>2
<1>5. CASE p < q
  <2>1. /\ b.stride * p \in Nat /\ b.stride * q \in Nat
        /\ b.stride * p + 16 * b.n + (IF b.lf THEN 1 ELSE 0) <= b.stride * q
    BY <1>5, LinesApart
  <2> QED
    BY <1>1, <1>2, <1>3, <2>1
<1>6. CASE q < p
  <2>1. PICK d \in Nat : p = q + 1 + d
    <3>1. p - q - 1 \in Nat /\ p = q + 1 + (p - q - 1)
      BY <1>1, <1>6
    <3> QED
      BY <3>1
  <2>2. b.n * p = b.n * q + b.n + b.n * d /\ b.n * d \in Nat /\ b.n * q \in Nat
    BY <1>1, <2>1
  <2> QED
    BY <1>1, <1>2, <1>3, <2>2
<1> QED
  BY <1>1, <1>4, <1>5, <1>6

\* and an LF is behind the blocks up to its line's and before the others.
LEMMA FeedIs ==
    ASSUME NEW b, Good(b), b.lf, NEW l \in 1 .. b.lines
    PROVE  /\ FeedAt(b, l) \in Nat /\ FeedAt(b, l) + 1 <= LineRoom(b) + 1
           /\ b.n * l \in Nat /\ b.n * l <= Total(b)
           /\ \A k \in 0 .. Total(b) - 1 :
                IF k < b.n * l THEN Where(b, k) + 16 <= FeedAt(b, l)
                ELSE FeedAt(b, l) < Where(b, k)
<1>1. b.n \in Nat \ {0} /\ b.lines \in Nat /\ b.stride \in Nat /\ Total(b) \in Nat
  BY GoodIs
<1>2. l - 1 \in 0 .. b.lines - 1
  BY <1>1
<1>3. b.stride * (l - 1) \in Nat /\ b.stride * (l - 1) + 16 * b.n <= LineRoom(b)
  BY <1>2, LinesInside
<1>4. FeedAt(b, l) \in Nat /\ FeedAt(b, l) + 1 <= LineRoom(b) + 1
  BY <1>1, <1>3, GoodIs, SMTT(60) DEF FeedAt
<1>5. b.n * l \in Nat /\ b.n * l <= Total(b) /\ b.n * l = b.n * (l - 1) + b.n
      /\ b.n * (l - 1) \in Nat
  <2>1. PICK d \in Nat : b.lines = l + d
    <3>1. b.lines - l \in Nat /\ b.lines = l + (b.lines - l)
      BY <1>1
    <3> QED
      BY <3>1
  <2>2. b.n * b.lines = b.n * l + b.n * d /\ b.n * d \in Nat /\ b.n * l \in Nat
    BY <1>1, <2>1
  <2>3. b.n * l = b.n * (l - 1) + b.n /\ b.n * (l - 1) \in Nat
    BY <1>1, <1>2
  <2> QED
    BY <2>2, <2>3 DEF Total
<1>6. ASSUME NEW k \in 0 .. Total(b) - 1
      PROVE  IF k < b.n * l THEN Where(b, k) + 16 <= FeedAt(b, l)
             ELSE FeedAt(b, l) < Where(b, k)
  <2>1. PICK q \in 0 .. b.lines - 1, r \in 0 .. b.n - 1 :
          k = b.n * q + r /\ Where(b, k) = b.stride * q + 16 * r
    BY CellIs
  <2>2. CASE q = l - 1
    <3>1. k < b.n * l
      BY <1>1, <1>5, <2>1, <2>2
    <3> QED
      BY <1>1, <1>3, <2>1, <2>2, <3>1 DEF FeedAt
  <2>3. CASE q < l - 1
    <3>1. /\ b.stride * q \in Nat
          /\ b.stride * q + 16 * b.n + (IF b.lf THEN 1 ELSE 0) <= b.stride * (l - 1)
      BY <1>2, <2>3, LinesApart
    <3>2. k < b.n * l
      <4>1. PICK d \in Nat : l = q + 1 + d
        <5>1. l - q - 1 \in Nat /\ l = q + 1 + (l - q - 1)
          BY <1>1, <2>3
        <5> QED
          BY <5>1
      <4>2. b.n * l = b.n * q + b.n + b.n * d /\ b.n * d \in Nat /\ b.n * q \in Nat
        BY <1>1, <4>1
      <4> QED
        BY <1>1, <2>1, <4>2
    <3> QED
      BY <1>1, <1>3, <2>1, <3>1, <3>2 DEF FeedAt
  <2>4. CASE q > l - 1
    <3>1. /\ b.stride * (l - 1) \in Nat /\ b.stride * q \in Nat
          /\ b.stride * (l - 1) + 16 * b.n + (IF b.lf THEN 1 ELSE 0) <= b.stride * q
      BY <1>2, <2>4, LinesApart
    <3>2. ~ (k < b.n * l)
      <4>1. PICK d \in Nat : q = l + d
        <5>1. q - l \in Nat /\ q = l + (q - l)
          BY <1>1, <2>4
        <5> QED
          BY <5>1
      <4>2. b.n * q = b.n * l + b.n * d /\ b.n * d \in Nat /\ b.n * l \in Nat
        BY <1>1, <4>1
      <4> QED
        BY <1>1, <2>1, <4>2
    <3> QED
      BY <1>1, <1>3, <2>1, <3>1, <3>2 DEF FeedAt
  <2> QED
    BY <1>1, <2>2, <2>3, <2>4
<1> QED
  BY <1>4, <1>5, <1>6

\* LFs do not overlap each other.
LEMMA FeedsApart ==
    ASSUME NEW b, Good(b), b.lf, NEW l \in 1 .. b.lines, NEW m \in 1 .. b.lines, l # m
    PROVE  FeedAt(b, l) # FeedAt(b, m)
<1>1. b.n \in Nat \ {0} /\ b.lines \in Nat /\ b.stride \in Nat
  BY GoodIs
<1>2. /\ l - 1 \in 0 .. b.lines - 1 /\ m - 1 \in 0 .. b.lines - 1
      /\ l - 1 < m - 1 \/ m - 1 < l - 1
  BY <1>1
<1>3. CASE l - 1 < m - 1
  <2>1. /\ b.stride * (l - 1) \in Nat /\ b.stride * (m - 1) \in Nat
        /\ b.stride * (l - 1) + 16 * b.n + (IF b.lf THEN 1 ELSE 0) <= b.stride * (m - 1)
    BY <1>2, <1>3, LinesApart
  <2> QED
    BY <1>1, <2>1 DEF FeedAt
<1>4. CASE m - 1 < l - 1
  <2>1. /\ b.stride * (m - 1) \in Nat /\ b.stride * (l - 1) \in Nat
        /\ b.stride * (m - 1) + 16 * b.n + (IF b.lf THEN 1 ELSE 0) <= b.stride * (l - 1)
    BY <1>2, <1>4, LinesApart
  <2> QED
    BY <1>1, <2>1 DEF FeedAt
<1> QED
  BY <1>2, <1>3, <1>4

----------------------------------------------------------------------------
\* What a store leaves and changes.

\* What a store leaves at each place.
LEMMA StoreIs ==
    ASSUME NEW b, Good(b), NEW m, Memory(b, m), NEW a \in Int, NEW top \in Nat,
           NEW bytes, Buffer(bytes, top)
    PROVE  /\ Memory(b, Store(m, a, bytes))
           /\ \A x \in 0 .. b.room - 1 :
                Store(m, a, bytes)[x] =
                  IF x - a \in 0 .. top THEN bytes[x - a] ELSE m[x]
<1>1. /\ DOMAIN m = 0 .. b.room - 1 /\ DOMAIN bytes = 0 .. top
  BY DEF Memory, Buffer
<1>2. Store(m, a, bytes) =
        [x \in 0 .. b.room - 1 |->
            IF x - a \in 0 .. top THEN bytes[x - a] ELSE m[x]]
  BY <1>1 DEF Store
<1> QED
  BY <1>2 DEF Memory

\* A store of one byte, an LF.
LEMMA StoreOne ==
    ASSUME NEW b, b.room \in Nat, NEW m, Memory(b, m), NEW a \in Int
    PROVE  /\ Memory(b, Store(m, a, [j \in 0 .. 0 |-> 10]))
           /\ \A x \in 0 .. b.room - 1 :
                Store(m, a, [j \in 0 .. 0 |-> 10])[x] = IF x = a THEN 10 ELSE m[x]
<1> DEFINE feed == [j \in 0 .. 0 |-> 10]
<1>1. DOMAIN m = 0 .. b.room - 1 /\ DOMAIN feed = 0 .. 0 /\ feed[0] = 10
  BY DEF Memory
<1> HIDE DEF feed
<1>2. Store(m, a, feed) =
        [x \in 0 .. b.room - 1 |-> IF x - a \in 0 .. 0 THEN feed[x - a] ELSE m[x]]
  BY <1>1 DEF Store
<1>3. Memory(b, Store(m, a, feed))
  BY <1>2 DEF Memory
<1>4. ASSUME NEW x \in 0 .. b.room - 1
      PROVE  Store(m, a, feed)[x] = IF x = a THEN 10 ELSE m[x]
  <2>1. (x - a \in 0 .. 0 <=> x = a) /\ (x = a => x - a = 0)
    OBVIOUS
  <2>2. Store(m, a, feed)[x] = IF x - a \in 0 .. 0 THEN feed[x - a] ELSE m[x]
    BY <1>2
  <2> QED
    BY <1>1, <2>1, <2>2
<1> QED
  BY <1>3, <1>4 DEF feed

\* The scalar code of a block is 16 characters.
LEMMA CodeIs == ASSUME NEW block PROVE Buffer(EncodeScalar(block), 15)
BY DEF EncodeScalar, BlockChars, Buffer

\* A block of bytes, as a kernel loads it.
LEMMA BlockIs ==
    ASSUME NEW b, Good(b), b.op = "encode", NEW k \in 0 .. Total(b) - 1
    PROVE  BlockOf(b, k) \in [0 .. 12 -> Byte]
<1>1. b.src \in Seq(Byte) /\ Len(b.src) >= 13 * Total(b) /\ Total(b) \in Nat
      /\ Len(b.src) \in Nat
  BY GoodIs DEF Good
<1>2. \A j \in 0 .. 12 : 13 * k + j + 1 \in 1 .. Len(b.src)
  BY <1>1
<1>3. \A i \in 1 .. Len(b.src) : b.src[i] \in Byte
  BY <1>1
<1>4. \A j \in 0 .. 12 : b.src[13 * k + j + 1] \in Byte
  BY <1>2, <1>3
<1> QED
  BY <1>4 DEF BlockOf

\* Its characters are bytes.
LEMMA CharsAre ==
    ASSUME NEW b, Good(b), b.op = "decode", NEW k \in 0 .. Total(b) - 1
    PROVE  CharsOf(b, k) \in [0 .. 15 -> Byte]
<1>1. b.src \in Seq(Byte) /\ Len(b.src) >= LineRoom(b) /\ LineRoom(b) \in Nat
      /\ Len(b.src) \in Nat
  BY GoodIs DEF Good
<1>2. Where(b, k) \in Nat /\ Where(b, k) + 16 <= LineRoom(b)
  BY WhereIs
<1>3. \A x \in 0 .. 15 : Where(b, k) + x + 1 \in 1 .. Len(b.src)
  BY <1>1, <1>2, SMTT(60)
<1>4. \A i \in 1 .. Len(b.src) : b.src[i] \in Byte
  BY <1>1
<1>5. \A x \in 0 .. 15 : b.src[Where(b, k) + x + 1] \in Byte
  BY <1>3, <1>4
<1> QED
  BY <1>5 DEF CharsOf

\* The code of block f, behind that of the blocks before it.
LEMMA StoreBlock ==
    ASSUME NEW b, Good(b), b.op = "encode", NEW m, NEW f \in 0 .. Total(b) - 1,
           NEW L, L \subseteq {l \in 1 .. b.lines : b.lf /\ b.n * l <= f},
           EncodedTo(b, m, f, L)
    PROVE  EncodedTo(b, Store(m, Where(b, f), EncodeScalar(BlockOf(b, f))), f + 1, L)
<1> DEFINE code == EncodeScalar(BlockOf(b, f))
           to == Where(b, f)
           next == Store(m, to, code)
<1>1. b.room \in Nat /\ LineRoom(b) <= b.room /\ Total(b) \in Nat /\ f \in Nat
      /\ LineRoom(b) \in Nat /\ b.lf \in BOOLEAN
      /\ (b.lf => LineRoom(b) + 1 <= b.room)
  BY GoodIs DEF Good
<1>2. Buffer(code, 15)
  BY CodeIs
<1>3. to \in Nat /\ to + 16 <= LineRoom(b)
  BY WhereIs
<1>4. Memory(b, m)
  BY DEF EncodedTo
<1> HIDE DEF code, to, next
<1>5. /\ Memory(b, next)
      /\ \A x \in 0 .. b.room - 1 :
           next[x] = IF x - to \in 0 .. 15 THEN code[x - to] ELSE m[x]
  <2>1. PICK top \in Nat : top = 15 /\ to \in Int /\ Buffer(code, top)
    BY <1>2, <1>3
  <2>2. /\ Memory(b, Store(m, to, code))
        /\ \A x \in 0 .. b.room - 1 :
             Store(m, to, code)[x] = IF x - to \in 0 .. top THEN code[x - to] ELSE m[x]
    BY <1>4, <2>1, StoreIs
  <2> QED
    BY <2>1, <2>2 DEF next
<1>6. ASSUME NEW k \in 0 .. f, NEW x \in 0 .. 15
      PROVE  next[Where(b, k) + x] = EncodeScalar(BlockOf(b, k))[x]
  <2>1. k \in 0 .. Total(b) - 1
    BY <1>1
  <2>2. Where(b, k) \in Nat /\ Where(b, k) + 16 <= LineRoom(b)
    BY <2>1, WhereIs
  <2>3. Where(b, k) + x \in 0 .. b.room - 1
    BY <1>1, <2>2
  <2>4. CASE k = f
    <3>1. Where(b, k) + x = to + x /\ (to + x) - to = x
      BY <1>3, <2>4 DEF to
    <3> QED
      BY <1>5, <2>3, <2>4, <3>1 DEF code
  <2>5. CASE k < f
    <3>1. Where(b, k) + 16 <= to
      BY <2>1, <2>5, BlocksApart DEF to
    <3>2. ~ ((Where(b, k) + x) - to \in 0 .. 15)
      BY <1>3, <2>2, <3>1
    <3>3. k \in 0 .. f - 1
      BY <1>1, <2>5
    <3>4. m[Where(b, k) + x] = EncodeScalar(BlockOf(b, k))[x]
      BY <3>3 DEF EncodedTo
    <3> QED
      BY <1>5, <2>3, <3>2, <3>4
  <2> QED
    BY <1>1, <2>4, <2>5
<1>7. ASSUME NEW l \in L PROVE next[FeedAt(b, l)] = 10
  <2>1. l \in 1 .. b.lines /\ b.lf /\ b.n * l <= f
    OBVIOUS
  <2>2. /\ FeedAt(b, l) \in Nat /\ FeedAt(b, l) + 1 <= LineRoom(b) + 1
        /\ b.n * l \in Nat
        /\ IF f < b.n * l THEN Where(b, f) + 16 <= FeedAt(b, l)
           ELSE FeedAt(b, l) < Where(b, f)
    BY <2>1, FeedIs
  <2>3. FeedAt(b, l) < to
    BY <1>1, <2>1, <2>2 DEF to
  <2>4. FeedAt(b, l) \in 0 .. b.room - 1 /\ ~ (FeedAt(b, l) - to \in 0 .. 15)
    BY <1>1, <1>3, <2>1, <2>2, <2>3
  <2>5. m[FeedAt(b, l)] = 10
    BY DEF EncodedTo
  <2> QED
    BY <1>5, <2>4, <2>5
<1>8. ASSUME NEW a \in 0 .. b.room - 1
      PROVE  \/ \E k \in 0 .. f : a - Where(b, k) \in 0 .. 15
             \/ \E l \in L : a = FeedAt(b, l)
             \/ next[a] = Keep
  <2>1. CASE a - to \in 0 .. 15
    BY <1>1, <2>1 DEF to
  <2>2. CASE ~ (a - to \in 0 .. 15)
    <3>1. next[a] = m[a]
      BY <1>5, <2>2
    <3>2. \/ \E k \in 0 .. f - 1 : a - Where(b, k) \in 0 .. 15
          \/ \E l \in L : a = FeedAt(b, l)
          \/ m[a] = Keep
      BY DEF EncodedTo
    <3>3. \A k \in 0 .. f - 1 : k \in 0 .. f
      BY <1>1
    <3> QED
      BY <3>1, <3>2, <3>3
  <2> QED
    BY <2>1, <2>2
<1>9. (f + 1) - 1 = f
  BY <1>1
<1> QED
  BY <1>5, <1>6, <1>7, <1>8, <1>9 DEF EncodedTo, next, to, code

\* The LF of a line whose blocks are done.
LEMMA StoreFeed ==
    ASSUME NEW b, Good(b), b.op = "encode", b.lf, NEW m, NEW f \in 0 .. Total(b),
           NEW L, L \subseteq 1 .. b.lines, EncodedTo(b, m, f, L),
           NEW n \in 1 .. b.lines, f = b.n * n
    PROVE  EncodedTo(b, Store(m, FeedAt(b, n), [j \in 0 .. 0 |-> 10]), f, L \cup {n})
<1> DEFINE feed == [j \in 0 .. 0 |-> 10]
           to == FeedAt(b, n)
           next == Store(m, to, feed)
<1>1. b.room \in Nat /\ LineRoom(b) + 1 <= b.room /\ Total(b) \in Nat /\ f \in Nat
      /\ LineRoom(b) \in Nat
  BY GoodIs DEF Good
<1>2. Buffer(feed, 0) /\ feed[0] = 10
  BY DEF Buffer
<1>3. to \in Nat /\ to + 1 <= LineRoom(b) + 1
      /\ \A k \in 0 .. Total(b) - 1 :
           IF k < b.n * n THEN Where(b, k) + 16 <= to ELSE to < Where(b, k)
  BY FeedIs
<1>4. Memory(b, m)
  BY DEF EncodedTo
<1> HIDE DEF feed, to, next
<1>5. /\ Memory(b, next)
      /\ \A x \in 0 .. b.room - 1 : next[x] = IF x = to THEN 10 ELSE m[x]
  <2>1. to \in Int /\ b.room \in Nat
    BY <1>1, <1>3
  <2>2. next = Store(m, to, [j \in 0 .. 0 |-> 10])
    BY DEF next, feed
  <2>3. /\ Memory(b, Store(m, to, [j \in 0 .. 0 |-> 10]))
        /\ \A x \in 0 .. b.room - 1 :
             Store(m, to, [j \in 0 .. 0 |-> 10])[x] = IF x = to THEN 10 ELSE m[x]
    BY ONLY <1>4, <2>1, StoreOne
  <2> QED
    BY ONLY <2>2, <2>3
<1>6. ASSUME NEW k \in 0 .. f - 1, NEW x \in 0 .. 15
      PROVE  next[Where(b, k) + x] = EncodeScalar(BlockOf(b, k))[x]
  <2>1. k \in 0 .. Total(b) - 1 /\ k < b.n * n
    BY <1>1
  <2>2. Where(b, k) \in Nat /\ Where(b, k) + 16 <= LineRoom(b)
    BY <2>1, WhereIs
  <2>3. Where(b, k) + 16 <= to
    BY <1>3, <2>1
  <2>4. Where(b, k) + x \in 0 .. b.room - 1 /\ Where(b, k) + x # to
    BY <1>1, <1>3, <2>2, <2>3
  <2>5. m[Where(b, k) + x] = EncodeScalar(BlockOf(b, k))[x]
    BY DEF EncodedTo
  <2> QED
    BY <1>5, <2>4, <2>5
<1>7. ASSUME NEW l \in L \cup {n} PROVE next[FeedAt(b, l)] = 10
  <2>1. l \in 1 .. b.lines
    OBVIOUS
  <2>2. FeedAt(b, l) \in Nat /\ FeedAt(b, l) + 1 <= LineRoom(b) + 1
    BY <2>1, FeedIs
  <2>3. FeedAt(b, l) \in 0 .. b.room - 1
    BY <1>1, <2>2
  <2>4. CASE l = n
    BY <1>5, <2>3, <2>4 DEF to
  <2>5. CASE l # n
    <3>1. FeedAt(b, l) # to
      BY <2>1, <2>5, FeedsApart DEF to
    <3>2. m[FeedAt(b, l)] = 10
      BY <2>5 DEF EncodedTo
    <3> QED
      BY <1>5, <2>3, <3>1, <3>2
  <2> QED
    BY <2>4, <2>5
<1>8. ASSUME NEW a \in 0 .. b.room - 1
      PROVE  \/ \E k \in 0 .. f - 1 : a - Where(b, k) \in 0 .. 15
             \/ \E l \in L \cup {n} : a = FeedAt(b, l)
             \/ next[a] = Keep
  <2>1. CASE a = to
    BY <2>1 DEF to
  <2>2. CASE a # to
    <3>1. next[a] = m[a]
      BY <1>5, <2>2
    <3>2. \/ \E k \in 0 .. f - 1 : a - Where(b, k) \in 0 .. 15
          \/ \E l \in L : a = FeedAt(b, l)
          \/ m[a] = Keep
      BY DEF EncodedTo
    <3> QED
      BY <3>1, <3>2
  <2> QED
    BY <2>1, <2>2
<1> QED
  BY <1>5, <1>6, <1>7, <1>8 DEF EncodedTo, next, to, feed

\* The bytes of block f, with or without the slack.
LEMMA StoreBytes ==
    ASSUME NEW b, Good(b), b.op = "decode", NEW m, NEW f \in 0 .. Total(b) - 1,
           DecodedTo(b, m, f), NEW top \in {12, 15},
           NEW bytes, Buffer(bytes, top), HasBytes(b, f, bytes)
    PROVE  DecodedTo(b, Store(m, b.w + 13 * f, bytes), f + 1)
<1> DEFINE to == b.w + 13 * f
           next == Store(m, to, bytes)
<1>1. b.room \in Nat /\ b.w \in Nat /\ b.room >= b.w + 13 * Total(b)
      /\ Total(b) \in Nat /\ f \in Nat /\ to \in Nat /\ f < Total(b)
      /\ to = b.w + 13 * f
  BY GoodIs DEF Good
<1>a. PICK w \in Nat, room \in Nat, total \in Nat :
        /\ w \in Nat /\ room \in Nat /\ total \in Nat
        /\ w = b.w /\ room = b.room /\ total = Total(b)
        /\ room >= w + 13 * total /\ f < total /\ to = w + 13 * f
  BY <1>1
<1>2. Memory(b, m)
  BY DEF DecodedTo
<1> HIDE DEF to, next
<1>3. /\ Memory(b, next)
      /\ \A x \in 0 .. b.room - 1 :
           next[x] = IF x - to \in 0 .. top THEN bytes[x - to] ELSE m[x]
  <2>1. to \in Int /\ top \in Nat
    BY <1>1
  <2> QED
    BY <1>2, <2>1, StoreIs DEF next
<1>4. ASSUME NEW k \in 0 .. f
      PROVE  HasBytes(b, k, [j \in 0 .. 12 |-> next[b.w + 13 * k + j]])
  <2>1. ASSUME NEW j \in 0 .. 12
        PROVE  b.w + 13 * k + j \in 0 .. b.room - 1
    <3>1. k \in Nat /\ k <= f /\ j \in Nat /\ j <= 12
      BY <1>1
    <3>2. f \in Nat
      BY <1>1
    <3>3. w + 13 * k + j \in 0 .. room - 1
      BY ONLY <1>a, <3>1, <3>2
    <3> QED
      BY <1>a, <3>3
  <2>2. CASE k = f
    <3>1. ASSUME NEW j \in 0 .. 12 PROVE next[b.w + 13 * k + j] = bytes[j]
      <4>1. b.w + 13 * k + j = to + j /\ (to + j) - to = j /\ j \in 0 .. top
        BY <1>1, <2>2
      <4> QED
        BY <1>3, <2>1, <4>1
    <3> QED
      BY <2>2, <3>1 DEF HasBytes
  <2>3. CASE k < f
    <3>1. ASSUME NEW j \in 0 .. 12
          PROVE  next[b.w + 13 * k + j] = m[b.w + 13 * k + j]
      <4>1. k \in Nat /\ k < f /\ j \in Nat /\ j <= 12
        BY <1>1, <2>3
      <4>2. w + 13 * k + j < to /\ w + 13 * k + j \in Nat
        <5>1. f \in Nat
          BY <1>1
        <5> QED
          BY ONLY <1>a, <4>1, <5>1
      <4>3. ~ ((b.w + 13 * k + j) - to \in 0 .. top)
        BY <1>1, <1>a, <4>2
      <4> QED
        BY <1>3, <2>1, <4>3
    <3>2. k \in 0 .. f - 1
      BY <1>1, <2>3
    <3>3. HasBytes(b, k, [j \in 0 .. 12 |-> m[b.w + 13 * k + j]])
      BY <3>2 DEF DecodedTo
    <3> QED
      BY <3>1, <3>3 DEF HasBytes
  <2> QED
    BY <1>1, <2>2, <2>3
<1>5. ASSUME NEW a \in 0 .. b.room - 1
      PROVE  a \in b.w .. b.w + 13 * (f + 1) + Slack - 1 \/ next[a] = Keep
  <2>1. CASE a - to \in 0 .. top
    <3>1. a \in Nat /\ to <= a /\ a <= to + 15
      <4>1. a - to <= 15 /\ a - to >= 0 /\ a \in Nat
        BY <1>1, <2>1
      <4> QED
        BY <1>1, <4>1
    <3>2. f \in Nat
      BY <1>1
    <3>3. a \in w .. w + 13 * (f + 1) + 3 - 1
      BY ONLY <1>a, <3>1, <3>2
    <3> QED
      BY <1>a, <3>3 DEF Slack
  <2>2. CASE ~ (a - to \in 0 .. top)
    <3>1. next[a] = m[a]
      BY <1>3, <2>2
    <3>2. a \in b.w .. b.w + 13 * f + Slack - 1 \/ m[a] = Keep
      BY DEF DecodedTo
    <3> QED
      BY <1>1, <3>1, <3>2 DEF Slack
  <2> QED
    BY <2>1, <2>2
<1>6. (f + 1) - 1 = f
  BY <1>1
<1> QED
  BY <1>3, <1>4, <1>5, <1>6 DEF DecodedTo, next, to

----------------------------------------------------------------------------
\* What a unit reports.

\* The greatest of a set of naturals that are not too large,
LEMMA GreatestOf ==
    ASSUME NEW S \in SUBSET Nat, S # {}, NEW top \in Nat, \A x \in S : x <= top
    PROVE  /\ Greatest(S) \in S
           /\ \A x \in S : x <= Greatest(S)
<1> DEFINE T == {t \in Nat : \A x \in S : x <= t}
<1>1. top \in T
  OBVIOUS
<1>2. PICK g \in T : \A t \in T : g <= t
  <2>1. T \in SUBSET Nat /\ T # {}
    BY <1>1
  <2> HIDE DEF T
  <2> QED
    BY <2>1, Num!LeastNatural
<1>3. g \in Nat /\ \A x \in S : x <= g
  OBVIOUS
<1>4. g \in S
  <2>1. SUFFICES ASSUME g \notin S PROVE FALSE
    OBVIOUS
  <2>2. \A x \in S : x \in Nat /\ x < g
    BY <1>3, <2>1
  <2>3. PICK x \in S : x < g
    BY <2>2
  <2>4. g - 1 \in T
    BY <1>3, <2>2, <2>3
  <2>5. g <= g - 1
    BY <1>2, <2>4
  <2> QED
    BY <1>3, <2>5
<1>5. \E x \in S : \A y \in S : y <= x
  BY <1>3, <1>4
<1> QED
  BY <1>5 DEF Greatest

\* and of one and another: a maximum is within a bound when both are.
LEMMA GreatestOfTwo ==
    ASSUME NEW x \in Nat, NEW y \in Nat
    PROVE  /\ Greatest({x, y}) \in Nat
           /\ \A t \in Nat : Greatest({x, y}) <= t <=> x <= t /\ y <= t
<1>1. {x, y} \in SUBSET Nat /\ {x, y} # {} /\ x + y \in Nat
      /\ \A z \in {x, y} : z <= x + y
  OBVIOUS
<1>2. Greatest({x, y}) \in {x, y} /\ \A z \in {x, y} : z <= Greatest({x, y})
  BY <1>1, GreatestOf
<1>3. PICK g \in Nat : g = Greatest({x, y}) /\ (g = x \/ g = y) /\ x <= g /\ y <= g
  BY <1>2
<1> QED
  BY <1>3

\* A report and a pair of bounds, of one block and of what is before it.
Within(r) == r[1] <= 90 /\ r[2] <= 8191

\* The maxima of two reports are within the bounds when both reports are.
LEMMA WorstIs ==
    ASSUME NEW r \in Nat \X Nat, NEW s \in Nat \X Nat
    PROVE  /\ WorstOf(r, s) \in Nat \X Nat
           /\ Within(WorstOf(r, s)) <=> Within(r) /\ Within(s)
<1>1. r[1] \in Nat /\ r[2] \in Nat /\ s[1] \in Nat /\ s[2] \in Nat
  OBVIOUS
<1>2. PICK g \in Nat : /\ g = Greatest({r[1], s[1]})
                       /\ \A t \in Nat : g <= t <=> r[1] <= t /\ s[1] <= t
  BY <1>1, GreatestOfTwo
<1>3. PICK h \in Nat : /\ h = Greatest({r[2], s[2]})
                       /\ \A t \in Nat : h <= t <=> r[2] <= t /\ s[2] <= t
  BY <1>1, GreatestOfTwo
<1>4. WorstOf(r, s) = <<g, h>>
  BY <1>2, <1>3 DEF WorstOf
<1>5. 90 \in Nat /\ 8191 \in Nat
  OBVIOUS
<1> QED
  BY <1>2, <1>3, <1>4, <1>5 DEF Within

\* A vector report is within the bounds exactly when the block is valid,
LEMMA ReportIs ==
    ASSUME NEW chars \in [0 .. 15 -> Byte]
    PROVE  /\ Report(chars) \in Nat \X Nat
           /\ Within(Report(chars)) <=> ValidScalar(chars)
<1> DEFINE S == {CheckedIndex(chars[x]) : x \in 0 .. 15}
           V == {VectorValue(chars, g) : g \in 0 .. 7}
<1>1. \A x \in 0 .. 15 : CheckedIndex(chars[x]) \in Nat /\ CheckedIndex(chars[x]) <= 255
  <2> SUFFICES ASSUME NEW x \in 0 .. 15
               PROVE  CheckedIndex(chars[x]) \in Nat /\ CheckedIndex(chars[x]) <= 255
    OBVIOUS
  <2>1. chars[x] \in Byte
    OBVIOUS
  <2>2. CheckedIndex(chars[x]) \in Byte
    BY <2>1, Indexes, Zenon
  <2> QED
    BY <2>2 DEF Byte
<1>2. \A g \in 0 .. 7 : VectorValue(chars, g) \in Nat /\ VectorValue(chars, g) <= 23460
  <2> SUFFICES ASSUME NEW g \in 0 .. 7
               PROVE  VectorValue(chars, g) \in Nat /\ VectorValue(chars, g) <= 23460
    OBVIOUS
  <2>1. chars[2 * g] \in Byte /\ chars[2 * g + 1] \in Byte
    OBVIOUS
  <2>2. VectorIndex(chars[2 * g]) \in Byte /\ VectorIndex(chars[2 * g + 1]) \in Byte
    BY <2>1, Indexes, Zenon
  <2>3. VectorValue(chars, g)
          = VectorIndex(chars[2 * g]) + 91 * VectorIndex(chars[2 * g + 1])
    BY <2>2, Pairs DEF VectorValue
  <2>4. PICK p \in Nat, q \in Nat :
          /\ p = VectorIndex(chars[2 * g]) /\ p < 256
          /\ q = VectorIndex(chars[2 * g + 1]) /\ q < 256
    BY <2>2, Bytes, Zenon
  <2>5. VectorValue(chars, g) = p + 91 * q
    BY <2>3, <2>4
  <2> QED
    BY <2>4, <2>5
<1>3. Greatest(S) \in S /\ \A x \in S : x <= Greatest(S)
  <2>1. S \in SUBSET Nat /\ S # {} /\ \A x \in S : x <= 255
    BY <1>1
  <2>2. PICK top \in Nat : top = 255 /\ \A x \in S : x <= top
    BY <2>1
  <2> HIDE DEF S
  <2> QED
    BY <2>1, <2>2, GreatestOf
<1>4. Greatest(V) \in V /\ \A x \in V : x <= Greatest(V)
  <2>1. V \in SUBSET Nat /\ V # {}
    <3>1. VectorValue(chars, 0) \in V
      OBVIOUS
    <3> QED
      BY <1>2, <3>1
  <2>2. \A x \in V : x <= 23460
    BY <1>2
  <2>3. PICK top \in Nat : \A x \in V : x <= top
    BY <2>2
  <2> HIDE DEF V
  <2> QED
    BY <2>1, <2>3, GreatestOf
<1>5. PICK i \in 0 .. 15 : Greatest(S) = CheckedIndex(chars[i])
  BY <1>3
<1>6. PICK v \in 0 .. 7 : Greatest(V) = VectorValue(chars, v)
  BY <1>4
<1>7. Greatest(S) <= 90 <=> \A x \in 0 .. 15 : CheckedIndex(chars[x]) <= 90
  <2>1. \A x \in 0 .. 15 : CheckedIndex(chars[x]) <= CheckedIndex(chars[i])
    BY <1>3, <1>5
  <2> QED
    BY <1>1, <1>5, <2>1
<1>8. Greatest(V) <= 8191 <=> \A g \in 0 .. 7 : VectorValue(chars, g) <= 8191
  <2>1. \A g \in 0 .. 7 : VectorValue(chars, g) <= VectorValue(chars, v)
    BY <1>4, <1>6
  <2> QED
    BY <1>2, <1>6, <2>1
<1>9. Report(chars) = <<Greatest(S), Greatest(V)>>
  BY DEF Report
<1>10. Greatest(S) \in Nat /\ Greatest(V) \in Nat
  BY <1>1, <1>2, <1>5, <1>6
<1> HIDE DEF S, V
<1>11. Within(Report(chars)) <=> Greatest(S) <= 90 /\ Greatest(V) <= 8191
  BY <1>9 DEF Within
<1> QED
  BY <1>7, <1>8, <1>9, <1>10, <1>11, ReportsWhatScalarFinds

\* and so is that of the scalar code.
LEMMA ScalarReportIs ==
    ASSUME NEW chars
    PROVE  /\ ScalarReport(chars) \in Nat \X Nat
           /\ Within(ScalarReport(chars)) <=> ValidScalar(chars)
BY DEF ScalarReport, Within

\* What a unit of either kind of kernel computes of a block.
KernelBytes(kernel, chars) ==
    IF kernel # "scalar" THEN DecodeVector(chars) ELSE DecodeScalar(chars)
KernelReport(kernel, chars) ==
    IF kernel # "scalar" THEN Report(chars) ELSE ScalarReport(chars)

\* Either kind of kernel leaves the bytes of a valid block, and reports it.
LEMMA KernelBytesAre ==
    ASSUME NEW b, Good(b), b.op = "decode", NEW k \in 0 .. Total(b) - 1, NEW kernel
    PROVE  /\ \E top \in {12, 15} : Buffer(KernelBytes(kernel, CharsOf(b, k)), top)
           /\ kernel # "scalar" => Buffer(KernelBytes(kernel, CharsOf(b, k)), 15)
           /\ HasBytes(b, k, KernelBytes(kernel, CharsOf(b, k)))
           /\ KernelReport(kernel, CharsOf(b, k)) \in Nat \X Nat
           /\ Within(KernelReport(kernel, CharsOf(b, k))) <=> ValidScalar(CharsOf(b, k))
<1> DEFINE chars == CharsOf(b, k)
<1>1. chars \in [0 .. 15 -> Byte]
  BY CharsAre
<1> HIDE DEF chars
<1>2. Buffer(DecodeVector(chars), 15)
  BY DEF DecodeVector, Buffer
<1>3. Buffer(DecodeScalar(chars), 12)
  BY DEF DecodeScalar, Buffer, BlockBytes
<1>4. ValidScalar(chars) => \A j \in 0 .. 12 : DecodeVector(chars)[j] = DecodeScalar(chars)[j]
  BY <1>1, DecodesAsScalarCode
<1>5. /\ Report(chars) \in Nat \X Nat
      /\ Within(Report(chars)) <=> ValidScalar(chars)
  BY <1>1, ReportIs
<1>6. /\ ScalarReport(chars) \in Nat \X Nat
      /\ Within(ScalarReport(chars)) <=> ValidScalar(chars)
  BY ScalarReportIs
<1>7. HasBytes(b, k, KernelBytes(kernel, chars))
  BY <1>4 DEF HasBytes, KernelBytes, chars
<1> QED
  BY <1>2, <1>3, <1>5, <1>6, <1>7 DEF KernelBytes, KernelReport, chars

----------------------------------------------------------------------------
\* Where a call's units are.

\* A call in progress, by the blocks it begins and ends with.
LEMMA CallIs ==
    ASSUME NEW b, Good(b), NEW c, InPlace(b, c)
    PROVE  /\ c.n \in Nat /\ c.lines \in Nat /\ c.stride \in Nat
           /\ c.at \in Nat /\ c.into \in Nat /\ c.lf \in BOOLEAN
           /\ c.kernel \in {"scalar", "sse41", "avx2"}
           /\ c.from \in {"src", "pad"} /\ c.to \in {"out", "side"}
           /\ Size(c) \in {1, 2} /\ Row(c) \in Nat /\ Row(c) = Size(c) * c.n
           /\ Covered(c) \in Nat
           /\ First(b, c) \in 0 .. Total(b)
<1>1. /\ c.n \in Nat /\ c.lines \in Nat /\ c.stride \in Nat
      /\ c.at \in Nat /\ c.into \in Nat /\ c.lf \in BOOLEAN
      /\ c.kernel \in {"scalar", "sse41", "avx2"}
      /\ c.from \in {"src", "pad"} /\ c.to \in {"out", "side"}
  BY DEF InPlace, Calls
<1>2. Size(c) \in {1, 2}
  BY DEF Size
<1>3. Row(c) \in Nat /\ Row(c) = Size(c) * c.n
  BY <1>1, <1>2 DEF Row
<1>4. Covered(c) \in Nat
  BY <1>1, <1>3 DEF Covered
<1>5. First(b, c) \in 0 .. Total(b)
  BY <1>4, GoodIs DEF InPlace
<1> QED
  BY <1>1, <1>2, <1>3, <1>4, <1>5

\* Line i of a call begins at place v of line p of the batch.
LineOf(b, c, i, p, v) ==
    /\ p \in Nat /\ v \in Nat
    /\ First(b, c) + Row(c) * i = b.n * p + v
    /\ CharAt(b, c) + c.stride * i = b.stride * p + 16 * v
    /\ v + Row(c) <= b.n
    /\ c.lf <=> b.lf /\ v + Row(c) = b.n
    /\ First(b, c) + Row(c) * i + Row(c) <= First(b, c) + Covered(c)
    /\ First(b, c) + Covered(c) <= Total(b)

\* Its line, and the blocks of it that are done.
LEMMA LineIs ==
    ASSUME NEW b, Good(b), NEW c, InPlace(b, c), NEW i \in 0 .. c.lines - 1
    PROVE  \E p, v : LineOf(b, c, i, p, v)
<1>1. /\ b.n \in Nat \ {0} /\ b.stride \in Nat /\ Total(b) \in Nat
      /\ b.lf \in BOOLEAN
  BY GoodIs
<1>2. /\ c.lines \in Nat /\ c.stride \in Nat /\ Row(c) \in Nat /\ Covered(c) \in Nat
      /\ First(b, c) \in Nat /\ c.lf \in BOOLEAN
  BY CallIs
<1>3. PICK f \in Nat, m \in Nat : f = First(b, c) /\ m = Row(c)
  BY <1>2
<1>4. PICK q \in Nat, r \in 0 .. b.n - 1 :
        q = f \div b.n /\ r = f % b.n /\ f = b.n * q + r
  <2>1. PICK q \in Nat : q = f \div b.n
    BY <1>1, <1>3, Num!Division
  <2>2. PICK r \in 0 .. b.n - 1 : r = f % b.n
    BY <1>1, <1>3, Num!Division
  <2>3. f = b.n * q + r
    BY <1>1, <1>3, <2>1, <2>2, Num!Division
  <2> QED
    BY <2>1, <2>2, <2>3
<1>5. CharAt(b, c) = b.stride * q + 16 * r
  BY <1>3, <1>4 DEF InPlace, Where
<1>6. /\ r + m <= b.n
      /\ c.lines = 1 \/ (m = b.n /\ r = 0 /\ c.stride = b.stride)
      /\ c.lf <=> b.lf /\ r + m = b.n
      /\ f + Covered(c) <= Total(b)
  BY <1>3, <1>4 DEF InPlace
<1>7. m * i + m <= Covered(c) /\ m * i \in Nat
  <2>1. PICK d \in Nat : c.lines = i + 1 + d
    <3>1. c.lines - i - 1 \in Nat /\ c.lines = i + 1 + (c.lines - i - 1)
      BY <1>2
    <3> QED
      BY <3>1
  <2>2. m * c.lines = m * i + m + m * d /\ m * d \in Nat /\ m * i \in Nat
    BY <2>1
  <2> QED
    BY <1>3, <2>2 DEF Covered
<1>8. CASE c.lines = 1
  <2>1. i = 0 /\ m * i = 0 /\ c.stride * i = 0
    BY <1>2, <1>8
  <2>2. f + m * i = b.n * q + r /\ CharAt(b, c) + c.stride * i = b.stride * q + 16 * r
    <3>1. b.n * q \in Nat /\ b.stride * q \in Nat /\ r \in Nat
      BY <1>1
    <3>2. f + m * i = f
      BY <2>1
    <3>3. CharAt(b, c) + c.stride * i = CharAt(b, c)
      BY <1>5, <2>1, <3>1
    <3> QED
      BY <1>4, <1>5, <3>2, <3>3
  <2>3. f + m * i + m <= f + Covered(c)
    BY <1>2, <1>7
  <2>4. LineOf(b, c, i, q, r)
    BY <1>3, <1>4, <1>6, <2>2, <2>3 DEF LineOf
  <2> QED
    BY <2>4
<1>9. CASE c.lines # 1
  <2>1. m = b.n /\ r = 0 /\ c.stride = b.stride
    BY <1>6, <1>9
  <2>2. PICK p \in Nat : p = q + i
    BY <1>2
  <2>3. f + m * i = b.n * p + 0
    <3>1. b.n * p = b.n * q + b.n * i /\ b.n * q \in Nat /\ b.n * i \in Nat
      BY <1>1, <2>2
    <3>2. m * i = b.n * i
      BY <2>1
    <3> QED
      BY <1>4, <2>1, <3>1, <3>2
  <2>4. CharAt(b, c) + c.stride * i = b.stride * p + 16 * 0
    BY <1>1, <1>5, <2>1, <2>2
  <2>5. f + m * i + m <= f + Covered(c)
    BY <1>2, <1>7
  <2>6. 0 + m <= b.n /\ (c.lf <=> b.lf /\ 0 + m = b.n)
    BY <1>1, <1>6, <2>1
  <2>7. LineOf(b, c, i, p, 0)
    BY <1>3, <1>6, <2>2, <2>3, <2>4, <2>5, <2>6 DEF LineOf
  <2> QED
    BY <2>7
<1> QED
  BY <1>8, <1>9

\* Block h of unit u of line i: which block of the batch it is, where its
\* characters and its bytes are, and what is behind them.
UnitAt(b, c, i, u) == First(b, c) + Row(c) * i + Size(c) * u

\* The unit it does next: its first block and how many.
LEMMA UnitIs ==
    ASSUME NEW b, Good(b), NEW c, InPlace(b, c),
           NEW i \in 0 .. c.lines - 1, NEW u \in 0 .. c.n - 1
    PROVE  /\ UnitAt(b, c, i, u) \in Nat
           /\ UnitAt(b, c, i, u) + Size(c) <= First(b, c) + Covered(c)
           /\ First(b, c) + Covered(c) <= Total(b)
           /\ \A h \in 0 .. Size(c) - 1 :
                Where(b, UnitAt(b, c, i, u) + h)
                  = CharAt(b, c) + c.stride * i + 16 * Size(c) * u + 16 * h
           /\ \A l \in 1 .. b.lines :
                b.n * l <= UnitAt(b, c, i, u) + Size(c) =>
                  \/ b.n * l <= UnitAt(b, c, i, u)
                  \/ /\ b.lf => c.lf
                     /\ u + 1 = c.n
                     /\ b.n * l = UnitAt(b, c, i, u) + Size(c)
<1>1. /\ b.n \in Nat \ {0} /\ b.stride \in Nat /\ Total(b) \in Nat /\ b.lines \in Nat
      /\ b.lf \in BOOLEAN
  BY GoodIs
<1>2. /\ c.lines \in Nat /\ c.stride \in Nat /\ Row(c) \in Nat /\ Covered(c) \in Nat
      /\ First(b, c) \in Nat /\ c.n \in Nat /\ Size(c) \in {1, 2}
      /\ Row(c) = Size(c) * c.n /\ c.lf \in BOOLEAN
  BY CallIs
<1>3. PICK p, v : LineOf(b, c, i, p, v)
  BY LineIs
<1>4. PICK s \in {1, 2}, f \in Nat, m \in Nat, t \in Nat :
        /\ s = Size(c) /\ m = Row(c) /\ f = First(b, c) + Row(c) * i /\ t = s * u
        /\ UnitAt(b, c, i, u) = f + t
  <2>1. Row(c) * i \in Nat /\ Size(c) * u \in Nat
    BY <1>2
  <2> QED
    BY <1>2, <2>1 DEF UnitAt
<1>5. /\ t + s <= m
      /\ t + s = m => u + 1 = c.n
  <2>1. m = s * c.n
    BY <1>2, <1>4
  <2>2. CASE s = 1
    BY <1>2, <1>4, <2>1, <2>2
  <2>3. CASE s = 2
    BY <1>2, <1>4, <2>1, <2>3
  <2> QED
    BY <2>2, <2>3
<1>6. /\ p \in Nat /\ v \in Nat
      /\ f = b.n * p + v
      /\ CharAt(b, c) + c.stride * i = b.stride * p + 16 * v
      /\ v + m <= b.n
      /\ c.lf <=> b.lf /\ v + m = b.n
      /\ f + m <= First(b, c) + Covered(c)
      /\ First(b, c) + Covered(c) <= Total(b)
  BY <1>3, <1>4 DEF LineOf
<1>7. /\ UnitAt(b, c, i, u) \in Nat
      /\ UnitAt(b, c, i, u) + Size(c) <= First(b, c) + Covered(c)
  BY <1>2, <1>4, <1>5, <1>6
<1>8. ASSUME NEW h \in 0 .. Size(c) - 1
      PROVE  Where(b, UnitAt(b, c, i, u) + h)
               = CharAt(b, c) + c.stride * i + 16 * Size(c) * u + 16 * h
  <2>1. h \in Nat /\ h < s
    BY <1>2, <1>4
  <2>2. PICK y \in 0 .. b.n - 1 : y = v + t + h
    BY <1>1, <1>5, <1>6, <2>1
  <2>3. b.n * p \in Nat /\ b.stride * p \in Nat
    BY <1>1, <1>6
  <2>4. UnitAt(b, c, i, u) + h = b.n * p + y
    BY <1>4, <1>6, <2>1, <2>2, <2>3
  <2>5. Where(b, b.n * p + y) = b.stride * p + 16 * y
    BY <1>6, CellOf
  <2>6. 16 * Size(c) * u = 16 * t
    <3>1. CASE s = 1
      BY <1>4, <3>1
    <3>2. CASE s = 2
      BY <1>4, <3>2
    <3> QED
      BY <3>1, <3>2
  <2>7. b.stride * p + 16 * y = b.stride * p + 16 * v + 16 * t + 16 * h
    BY <1>6, <2>1, <2>2, <2>3
  <2> QED
    BY <1>6, <2>4, <2>5, <2>6, <2>7
<1>9. ASSUME NEW l \in 1 .. b.lines, b.n * l <= UnitAt(b, c, i, u) + Size(c),
             ~ (b.n * l <= UnitAt(b, c, i, u))
      PROVE  /\ b.lf => c.lf
             /\ u + 1 = c.n
             /\ b.n * l = UnitAt(b, c, i, u) + Size(c)
  <2>1. /\ b.n * l \in Nat /\ b.n * p \in Nat
        /\ b.n * l <= f + t + s /\ ~ (b.n * l <= f + t)
    BY <1>1, <1>4, <1>6, <1>9
  <2>2. b.n * l > b.n * p
    BY <1>1, <1>4, <1>6, <2>1
  <2>3. l > p
    <3>1. SUFFICES ASSUME l <= p PROVE FALSE
      BY <1>1, <1>6
    <3>2. PICK d \in Nat : p = l + d
      <4>1. p - l \in Nat /\ p = l + (p - l)
        BY <1>1, <1>6, <3>1
      <4> QED
        BY <4>1
    <3>3. b.n * p = b.n * l + b.n * d /\ b.n * d \in Nat
      BY <1>1, <3>2
    <3> QED
      BY <2>1, <2>2, <3>3
  <2>4. b.n * l >= b.n * p + b.n
    <3>1. PICK d \in Nat : l = p + 1 + d
      <4>1. l - p - 1 \in Nat /\ l = p + 1 + (l - p - 1)
        BY <1>1, <1>6, <2>3
      <4> QED
        BY <4>1
    <3>2. b.n * l = b.n * p + b.n + b.n * d /\ b.n * d \in Nat
      BY <1>1, <1>6, <3>1
    <3> QED
      BY <1>1, <2>1, <3>2
  <2>5. PICK n \in Nat, a \in Nat, z \in Nat : n = b.n /\ a = b.n * p /\ z = b.n * l
    BY <1>1, <2>1
  <2>6. /\ z <= f + t + s /\ z >= a + n /\ f = a + v /\ t + s <= m /\ v + m <= n
        /\ v \in Nat /\ s \in Nat
    BY <1>4, <1>5, <1>6, <2>1, <2>4, <2>5
  <2>7. z = f + t + s /\ t + s = m /\ v + m = n
    BY <2>6
  <2> QED
    BY <1>4, <1>5, <1>6, <2>5, <2>7
<1> QED
  BY <1>6, <1>7, <1>8, <1>9

\* A line's end, and its LF's place.
LEMMA LineEndIs ==
    ASSUME NEW b, Good(b), NEW c, InPlace(b, c), c.lf, NEW i \in 0 .. c.lines - 1
    PROVE  /\ c.n # 0
           /\ b.lf
           /\ \E l \in 1 .. b.lines :
                /\ b.n * l = First(b, c) + Row(c) * i + Row(c)
                /\ FeedAt(b, l) = CharAt(b, c) + c.stride * i + 16 * Size(c) * c.n
<1>1. /\ b.n \in Nat \ {0} /\ b.stride \in Nat /\ Total(b) \in Nat
      /\ b.lines \in Nat /\ b.lf \in BOOLEAN
  BY GoodIs
<1>2. /\ c.lines \in Nat /\ c.stride \in Nat /\ Row(c) \in Nat /\ Covered(c) \in Nat
      /\ First(b, c) \in Nat /\ c.n \in Nat /\ Size(c) \in {1, 2}
      /\ Row(c) = Size(c) * c.n
  BY CallIs
<1>3. PICK p, v : LineOf(b, c, i, p, v)
  BY LineIs
<1>4. PICK f \in Nat, m \in Nat : f = First(b, c) + Row(c) * i /\ m = Row(c)
  <2>1. Row(c) * i \in Nat
    BY <1>2
  <2> QED
    BY <1>2, <2>1
<1>5. /\ p \in Nat /\ v \in Nat
      /\ f = b.n * p + v
      /\ CharAt(b, c) + c.stride * i = b.stride * p + 16 * v
      /\ b.lf /\ v + m = b.n
      /\ f + m <= Total(b)
  BY <1>1, <1>2, <1>3, <1>4 DEF LineOf
<1>6. c.n # 0
  <2>1. SUFFICES ASSUME c.n = 0 PROVE FALSE
    OBVIOUS
  <2>2. m = 0
    BY <1>2, <1>4, <2>1
  <2>3. c.lf /\ (First(b, c) % b.n) + Row(c) = b.n
    BY DEF InPlace
  <2>4. First(b, c) % b.n \in 0 .. b.n - 1
    BY <1>1, <1>2, Num!Division
  <2> QED
    BY <1>1, <1>4, <2>2, <2>3, <2>4
<1>7. PICK l \in Nat : l = p + 1
  BY <1>5
<1>8. b.n * l = b.n * p + b.n /\ b.n * p \in Nat
  BY <1>1, <1>5, <1>7
<1>9. b.n * l = f + m
  BY <1>1, <1>4, <1>5, <1>8
<1>10. l \in 1 .. b.lines
  <2>1. SUFFICES ASSUME l > b.lines PROVE FALSE
    BY <1>1, <1>5, <1>7
  <2>2. PICK d \in Nat : l = b.lines + 1 + d
    <3>1. l - b.lines - 1 \in Nat /\ l = b.lines + 1 + (l - b.lines - 1)
      BY <1>1, <2>1
    <3> QED
      BY <3>1
  <2>3. b.n * l = b.n * b.lines + b.n + b.n * d /\ b.n * d \in Nat /\ b.n * b.lines \in Nat
    BY <1>1, <2>2
  <2> QED
    BY <1>1, <1>5, <1>9, <2>3 DEF Total
<1>11. FeedAt(b, l) = CharAt(b, c) + c.stride * i + 16 * Size(c) * c.n
  <2>1. FeedAt(b, l) = b.stride * p + 16 * b.n
    BY <1>5, <1>7 DEF FeedAt
  <2>2. 16 * Size(c) * c.n = 16 * m
    <3>1. CASE Size(c) = 1
      BY <1>2, <1>4, <3>1
    <3>2. CASE Size(c) = 2
      BY <1>2, <1>4, <3>2
    <3> QED
      BY <1>2, <3>1, <3>2
  <2>3. b.stride * p \in Nat
    BY <1>1, <1>5
  <2>4. b.stride * p + 16 * b.n = b.stride * p + 16 * v + 16 * m
    BY <1>1, <1>4, <1>5, <2>3
  <2> QED
    BY <1>5, <2>1, <2>2, <2>4
<1> QED
  BY <1>4, <1>5, <1>6, <1>9, <1>10, <1>11

\* What a unit loads and stores is inside its buffers.
LEMMA UnitInside ==
    ASSUME NEW b, Good(b), NEW c, InPlace(b, c),
           NEW i \in 0 .. c.lines - 1, NEW u \in 0 .. c.n - 1
    PROVE  IF Aside(c)
           THEN /\ i = 0 /\ u = 0 /\ Size(c) = 1 /\ c.n = 1
                /\ UnitAt(b, c, i, u) = Total(b) - 1
                /\ First(b, c) + Covered(c) = Total(b)
           ELSE /\ ByteAt(b, c) + 13 * Size(c) * (c.n * i + u) = 13 * UnitAt(b, c, i, u)
                /\ 13 * (UnitAt(b, c, i, u) + Size(c)) + Slack
                     <= IF b.op = "encode" THEN Len(b.src) ELSE b.room - b.w
<1>1. /\ c.lines \in Nat /\ Row(c) \in Nat /\ Covered(c) \in Nat
      /\ First(b, c) \in Nat /\ c.n \in Nat /\ Size(c) \in {1, 2}
      /\ Row(c) = Size(c) * c.n
  BY CallIs
<1>2. Total(b) \in Nat /\ b.room \in Nat /\ b.w \in Nat /\ Len(b.src) \in Nat
  BY GoodIs
<1>3. CASE Aside(c)
  <2>1. Row(c) <= 1 /\ c.lines = 1 /\ First(b, c) = Total(b) - 1
    BY <1>3 DEF InPlace, First
  <2>2. c.n >= 1
    BY <1>1
  <2>3. Size(c) = 1 /\ c.n = 1
    BY <1>1, <2>1, <2>2
  <2>4. i = 0 /\ u = 0
    BY <2>1, <2>3
  <2>5. UnitAt(b, c, i, u) = Total(b) - 1
    BY <1>1, <1>2, <2>1, <2>3, <2>4 DEF UnitAt
  <2>6. Covered(c) = 1
    BY <1>1, <2>1, <2>3 DEF Covered
  <2> QED
    BY <1>2, <1>3, <2>1, <2>3, <2>4, <2>5, <2>6
<1>4. CASE ~ Aside(c)
  <2>1. /\ ByteAt(b, c) = 13 * First(b, c)
        /\ 13 * (First(b, c) + Covered(c)) + Slack
             <= IF b.op = "encode" THEN Len(b.src) ELSE b.room - b.w
    BY <1>4 DEF InPlace
  <2>2. UnitAt(b, c, i, u) \in Nat /\ UnitAt(b, c, i, u) + Size(c) <= First(b, c) + Covered(c)
    BY UnitIs
  <2>3. 13 * Size(c) * (c.n * i + u) = 13 * (Row(c) * i) + 13 * (Size(c) * u)
    <3>1. PICK a \in Nat : a = c.n * i
      BY <1>1
    <3>2. CASE Size(c) = 1
      <4>1. Row(c) * i = a
        BY <1>1, <3>1, <3>2
      <4> QED
        BY <1>1, <3>1, <3>2, <4>1
    <3>3. CASE Size(c) = 2
      <4>1. Row(c) * i = 2 * a
        BY <1>1, <3>1, <3>3
      <4> QED
        BY <1>1, <3>1, <3>3, <4>1
    <3> QED
      BY <1>1, <3>2, <3>3
  <2>4. ByteAt(b, c) + 13 * Size(c) * (c.n * i + u) = 13 * UnitAt(b, c, i, u)
    <3>1. PICK x \in Nat, y \in Nat, f \in Nat :
            x = Row(c) * i /\ y = Size(c) * u /\ f = First(b, c)
      <4>1. Row(c) * i \in Nat /\ Size(c) * u \in Nat
        BY <1>1
      <4> QED
        BY <1>1, <4>1
    <3>2. UnitAt(b, c, i, u) = f + x + y
      BY <3>1 DEF UnitAt
    <3>3. 13 * (f + x + y) = 13 * f + (13 * x + 13 * y)
      OBVIOUS
    <3> QED
      BY <2>1, <2>3, <3>1, <3>2, <3>3
  <2>5. 13 * (UnitAt(b, c, i, u) + Size(c)) + Slack <= 13 * (First(b, c) + Covered(c)) + Slack
    BY <1>1, <2>2 DEF Slack
  <2>6. PICK room \in Int : room = IF b.op = "encode" THEN Len(b.src) ELSE b.room - b.w
    BY <1>2
  <2>7. 13 * (UnitAt(b, c, i, u) + Size(c)) + Slack <= room
    <3>1. 13 * (First(b, c) + Covered(c)) + Slack <= room
      BY <2>1, <2>6
    <3>2. PICK x \in Nat, y \in Nat :
            x = UnitAt(b, c, i, u) + Size(c) /\ y = First(b, c) + Covered(c)
      BY <1>1, <2>2
    <3> QED
      BY <2>5, <3>1, <3>2 DEF Slack
  <2> QED
    BY <1>4, <2>4, <2>6, <2>7
<1> QED
  BY <1>3, <1>4

\* The first call, and those behind it.
LEMMA HeadIs ==
    ASSUME NEW b, NEW s, NEW g, InOrder(b, s, g), s # << >>
    PROVE  /\ InPlace(b, Head(s))
           /\ InOrder(b, Tail(s), g)
           /\ From(b, Tail(s), First(b, Head(s)) + Covered(Head(s)), g)
<1>1. s \in Seq(Calls) /\ Len(s) \in Nat /\ Len(s) >= 1
  BY DEF InOrder
<1>2. Head(s) = s[1] /\ Tail(s) \in Seq(Calls) /\ Len(Tail(s)) = Len(s) - 1
      /\ \A i \in 1 .. Len(s) - 1 : Tail(s)[i] = s[i + 1]
  BY <1>1
<1>3. \A i \in 1 .. Len(s) :
         /\ InPlace(b, s[i])
         /\ First(b, s[i]) + Covered(s[i])
              = IF i = Len(s) THEN g ELSE First(b, s[i + 1])
  BY DEF InOrder
<1>a. PICK n \in Nat : n = Len(s) /\ n >= 1 /\ Len(Tail(s)) = n - 1
  BY <1>1, <1>2
<1>b. 1 \in 1 .. Len(s)
  BY <1>a
<1>4. InPlace(b, Head(s))
  BY <1>2, <1>3, <1>b
<1>5. ASSUME NEW i \in 1 .. Len(Tail(s))
      PROVE  /\ InPlace(b, Tail(s)[i])
             /\ First(b, Tail(s)[i]) + Covered(Tail(s)[i])
                  = IF i = Len(Tail(s)) THEN g ELSE First(b, Tail(s)[i + 1])
  <2>1. i + 1 \in 1 .. Len(s) /\ i \in 1 .. Len(s) - 1 /\ Tail(s)[i] = s[i + 1]
    BY <1>1, <1>2
  <2>2. CASE i = Len(Tail(s))
    <3>1. i + 1 = Len(s)
      BY <1>1, <1>2, <2>2
    <3> QED
      BY <1>3, <2>1, <2>2, <3>1
  <2>3. CASE i # Len(Tail(s))
    <3>1. i + 1 # Len(s) /\ i + 1 \in 1 .. Len(s) - 1
      BY <1>a, <2>3
    <3>2. Tail(s)[i + 1] = s[(i + 1) + 1]
      BY <1>2, <3>1
    <3> QED
      BY <1>3, <2>1, <2>3, <3>1, <3>2
  <2> QED
    BY <2>2, <2>3
<1>6. From(b, Tail(s), First(b, Head(s)) + Covered(Head(s)), g)
  <2>1. CASE Len(s) = 1
    <3>1. Len(Tail(s)) = 0
      BY <1>a, <2>1
    <3>2. Tail(s) = << >>
      <4>1. PICK t \in Seq(Calls) : t = Tail(s) /\ Len(t) = 0
        BY <1>2, <3>1
      <4>2. t = << >>
        BY <4>1, Num!EmptySeq
      <4> QED
        BY <4>1, <4>2
    <3> QED
      BY <1>2, <1>3, <1>b, <2>1, <3>2 DEF From
  <2>2. CASE Len(s) # 1
    <3>1. Len(Tail(s)) # 0 /\ 1 \in 1 .. Len(s) - 1
      BY <1>a, <2>2
    <3>2. Tail(s) # << >> /\ Tail(s)[1] = s[1 + 1]
      BY <1>2, <3>1
    <3>3. First(b, s[1]) + Covered(s[1]) = First(b, s[1 + 1])
      BY <1>3, <1>b, <2>2
    <3> QED
      BY <1>2, <3>2, <3>3 DEF From
  <2> QED
    BY <2>1, <2>2
<1> QED
  BY <1>2, <1>4, <1>5, <1>6 DEF InOrder

----------------------------------------------------------------------------
\* The unit or the line that is in progress.

\* The blocks done so far.
LEMMA NowIs ==
    ASSUME Control, Running
    PROVE  /\ Good(batch) /\ todo # << >> /\ pc = "run"
           /\ InPlace(batch, call)
           /\ line \in 0 .. call.lines - 1 /\ unit \in 0 .. call.n
           /\ Finished = UnitAt(batch, call, line, unit)
<1>1. /\ Good(batch) /\ InOrder(batch, todo, Total(batch)) /\ todo # << >> /\ pc = "run"
      /\ line \in Nat /\ unit \in Nat /\ line < call.lines /\ unit <= call.n
  BY DEF Control, Running
<1>2. InPlace(batch, call)
  BY <1>1, HeadIs DEF call
<1>3. call.lines \in Nat /\ call.n \in Nat
  BY <1>1, <1>2, CallIs
<1>4. line \in 0 .. call.lines - 1 /\ unit \in 0 .. call.n
  BY <1>1, <1>3
<1> QED
  BY <1>1, <1>2, <1>4 DEF Finished, UnitAt

\* Where a unit's block is loaded from, and where it is stored.
LEMMA UnitPlace ==
    ASSUME Control, Running, unit < call.n
    PROVE  /\ Finished \in Nat /\ Size(call) \in {1, 2}
           /\ Finished + Size(call) <= Total(batch)
           /\ \A h \in 0 .. Size(call) - 1 :
                Where(batch, Finished + h) =
                  (IF Encoding THEN call.into ELSE call.at) + UnitChars + 16 * h
           /\ IF Aside(call)
              THEN /\ Finished = Total(batch) - 1 /\ Size(call) = 1
                   /\ (IF Encoding THEN call.at ELSE call.into) = 0 /\ UnitBytes = 0
                   /\ Encoding \/ ~ RoomForSlack(batch)
              ELSE /\ (IF Encoding THEN call.at ELSE call.into - batch.w) + UnitBytes
                        = 13 * Finished
                   /\ 13 * (Finished + Size(call)) + Slack
                        <= IF Encoding THEN Len(batch.src) ELSE batch.room - batch.w
<1>1. /\ Good(batch) /\ InPlace(batch, call)
      /\ line \in 0 .. call.lines - 1 /\ unit \in 0 .. call.n
      /\ Finished = UnitAt(batch, call, line, unit)
  BY NowIs
<1>2. /\ call.n \in Nat /\ call.lines \in Nat /\ call.stride \in Nat
      /\ call.at \in Nat /\ call.into \in Nat /\ Size(call) \in {1, 2}
      /\ First(batch, call) \in Nat /\ Covered(call) \in Nat
  BY <1>1, CallIs
<1>3. Total(batch) \in Nat /\ batch.op \in {"encode", "decode"}
  BY <1>1, GoodIs
<1>4. unit \in 0 .. call.n - 1
  BY <1>1, <1>2
<1>5. /\ Finished \in Nat
      /\ Finished + Size(call) <= First(batch, call) + Covered(call)
      /\ First(batch, call) + Covered(call) <= Total(batch)
      /\ \A h \in 0 .. Size(call) - 1 :
           Where(batch, Finished + h)
             = CharAt(batch, call) + call.stride * line + 16 * Size(call) * unit + 16 * h
  BY <1>1, <1>4, UnitIs
<1>6. IF Aside(call)
      THEN /\ line = 0 /\ unit = 0 /\ Size(call) = 1 /\ call.n = 1
           /\ Finished = Total(batch) - 1
      ELSE /\ ByteAt(batch, call) + 13 * Size(call) * (call.n * line + unit) = 13 * Finished
           /\ 13 * (Finished + Size(call)) + Slack
                <= IF batch.op = "encode" THEN Len(batch.src) ELSE batch.room - batch.w
  BY <1>1, <1>4, UnitInside
<1>7. Finished + Size(call) <= Total(batch)
  BY <1>2, <1>3, <1>5
<1>8. Aside(call) =>
        /\ (IF batch.op = "encode" THEN call.at ELSE call.into) = 0
        /\ batch.op = "decode" => ~ RoomForSlack(batch)
  BY <1>1 DEF InPlace
<1>9. Aside(call) => UnitBytes = 0
  BY <1>6 DEF UnitBytes
<1>10. ASSUME NEW h \in 0 .. Size(call) - 1
       PROVE  Where(batch, Finished + h) =
                (IF Encoding THEN call.into ELSE call.at) + UnitChars + 16 * h
  <2>1. Where(batch, Finished + h)
          = CharAt(batch, call) + call.stride * line + 16 * Size(call) * unit + 16 * h
    BY <1>5
  <2>2. PICK x \in Nat, y \in Nat, z \in Nat :
          x = CharAt(batch, call) /\ y = call.stride * line /\ z = 16 * Size(call) * unit
    <3>1. call.stride * line \in Nat /\ 16 * Size(call) * unit \in Nat
      BY <1>1, <1>2
    <3> QED
      BY <1>2, <3>1 DEF CharAt
  <2>3. UnitChars = y + z
    BY <2>2 DEF UnitChars
  <2>4. h \in Nat
    BY <1>2
  <2>5. x + y + z + 16 * h = x + (y + z) + 16 * h
    BY <2>4
  <2>6. CharAt(batch, call) = IF Encoding THEN call.into ELSE call.at
    BY DEF CharAt, Encoding
  <2> QED
    BY <2>1, <2>2, <2>3, <2>5, <2>6
<1> QED
  BY <1>2, <1>3, <1>5, <1>6, <1>7, <1>8, <1>9, <1>10 DEF ByteAt, Encoding, UnitBytes

\* The output is a buffer of the batch's room.
LEMMA OutIs ==
    ASSUME IInv
    PROVE  DOMAIN out = 0 .. batch.room - 1
<1>1. Memory(batch, out)
  BY DEF IInv, EncodeSound, DecodeSound, EncodedTo, DecodedTo
<1> QED
  BY <1>1 DEF Memory

\* A unit of a call in progress stays inside its buffers.
LEMMA SafeNow ==
    ASSUME IInv
    PROVE  AccessesInside
<1> SUFFICES ASSUME Running
             PROVE  /\ unit < call.n =>
                         /\ Loads \subseteq IF call.from = "pad" THEN 0 .. 15
                                            ELSE 0 .. Len(batch.src) - 1
                         /\ Stores \subseteq IF call.to = "side" THEN 0 .. 15
                                             ELSE DOMAIN out
                    /\ unit = call.n /\ call.lf => LineFeedAt \in DOMAIN out
  BY DEF AccessesInside
<1>0. Control /\ DOMAIN out = 0 .. batch.room - 1
  BY OutIs DEF IInv
<1>1. /\ Good(batch) /\ InPlace(batch, call)
      /\ line \in 0 .. call.lines - 1 /\ unit \in 0 .. call.n
  BY <1>0, NowIs
<1>2. /\ call.kernel \in {"scalar", "sse41", "avx2"}
      /\ call.at \in Nat /\ call.into \in Nat
      /\ call.n \in Nat /\ Size(call) \in {1, 2}
      /\ Size(call) = IF call.kernel = "avx2" THEN 2 ELSE 1
      /\ call.from \in {"src", "pad"} /\ call.to \in {"out", "side"}
  BY <1>1, CallIs DEF Size
<1>3. /\ batch.room \in Nat /\ Len(batch.src) \in Nat /\ batch.w \in Nat
      /\ Total(batch) \in Nat /\ LineRoom(batch) \in Nat /\ batch.lf \in BOOLEAN
      /\ batch.op \in {"encode", "decode"}
  BY <1>1, GoodIs
<1>4. /\ Encoding => batch.room >= LineRoom(batch) /\ call.to = "out"
      /\ Encoding /\ batch.lf => batch.room >= LineRoom(batch) + 1
      /\ ~ Encoding => Len(batch.src) >= LineRoom(batch) /\ call.from = "src" /\ ~ batch.lf
  BY <1>1, <1>3 DEF Good, InPlace, Encoding
<1>5. ASSUME unit < call.n
      PROVE  /\ Loads \subseteq IF call.from = "pad" THEN 0 .. 15
                                ELSE 0 .. Len(batch.src) - 1
             /\ Stores \subseteq IF call.to = "side" THEN 0 .. 15 ELSE DOMAIN out
  <2> DEFINE chars == (IF Encoding THEN call.into ELSE call.at) + UnitChars
             bytes == (IF Encoding THEN call.at ELSE call.into) + UnitBytes
  <2>1. /\ Finished \in Nat /\ Finished + Size(call) <= Total(batch)
        /\ \A h \in 0 .. Size(call) - 1 : Where(batch, Finished + h) = chars + 16 * h
        /\ IF Aside(call)
           THEN bytes = 0 /\ Size(call) = 1
           ELSE /\ (IF Encoding THEN call.at ELSE call.into - batch.w) + UnitBytes
                     = 13 * Finished
                /\ 13 * (Finished + Size(call)) + Slack
                     <= IF Encoding THEN Len(batch.src) ELSE batch.room - batch.w
    BY <1>0, <1>5, UnitPlace
  <2>2. chars \in Nat /\ chars + 16 * Size(call) <= LineRoom(batch)
    <3>1. PICK h \in Nat : h = Size(call) - 1
      BY <1>2
    <3>2. h \in 0 .. Size(call) - 1 /\ 0 \in 0 .. Size(call) - 1
      BY <1>2, <3>1
    <3>3. Finished + h \in 0 .. Total(batch) - 1 /\ Finished + 0 \in 0 .. Total(batch) - 1
      BY <1>2, <1>3, <2>1, <3>1
    <3>4. Where(batch, Finished + h) + 16 <= LineRoom(batch) /\ Where(batch, Finished + 0) \in Nat
      BY <1>1, <3>3, WhereIs
    <3>5. Where(batch, Finished + h) = chars + 16 * h /\ Where(batch, Finished + 0) = chars + 16 * 0
      BY <2>1, <3>2
    <3>6. UnitChars \in Nat
      <4>1. call.stride \in Nat
        BY <1>1, CallIs
      <4>2. call.stride * line \in Nat /\ 16 * Size(call) * unit \in Nat
        BY <1>1, <1>2, <4>1
      <4> QED
        BY <4>2 DEF UnitChars
    <3>7. chars \in Nat
      BY <1>2, <3>6
    <3> QED
      BY <1>2, <1>3, <3>1, <3>4, <3>5, <3>7
  <2>3. UnitBytes \in Nat
    <3>1. call.n * line \in Nat
      BY <1>1, <1>2
    <3> QED
      BY <1>1, <1>2, <3>1 DEF UnitBytes
  <2>a. PICK f \in Nat, s \in {1, 2}, size \in Nat, room \in Nat, w \in Nat :
          /\ f = Finished /\ s = Size(call) /\ size = Len(batch.src)
          /\ room = batch.room /\ w = batch.w
    BY <1>2, <1>3, <2>1
  <2>4. CASE Encoding
    <3>1. Stores = chars .. chars + 16 * Size(call) - 1
      BY <2>4 DEF Stores
    <3>2. Stores \subseteq DOMAIN out
      BY <1>0, <1>2, <1>3, <1>4, <2>2, <2>4, <3>1, SMTT(60)
    <3>3. PICK x \in {12, 15, 28} :
            /\ Loads = bytes .. bytes + x /\ x <= 13 * Size(call) + 2
            /\ Size(call) = 1 => x <= 15
      BY <1>2, <2>4 DEF Loads
    <3>4. CASE call.from = "pad"
      <4>1. bytes = 0 /\ Size(call) = 1
        BY <2>1, <3>4 DEF Aside
      <4> QED
        BY <1>4, <2>4, <3>2, <3>3, <3>4, <4>1, SMTT(60)
    <3>5. CASE call.from # "pad"
      <4>1. ~ Aside(call)
        BY <1>4, <2>4, <3>5 DEF Aside
      <4>2. bytes = 13 * Finished /\ 13 * (Finished + Size(call)) + Slack <= Len(batch.src)
        BY <2>1, <2>4, <4>1
      <4>3. bytes = 13 * f /\ 13 * (f + s) + 3 <= size /\ x <= 13 * s + 2
        BY <2>a, <3>3, <4>2 DEF Slack
      <4>4. bytes + x < size /\ bytes \in Nat
        <5> HIDE DEF bytes
        <5> QED
          BY <4>3
      <4>5. Loads \subseteq 0 .. Len(batch.src) - 1
        <5> HIDE DEF bytes
        <5> QED
          BY <2>a, <3>3, <4>4
      <4> QED
        BY <1>4, <2>4, <3>2, <3>5, <4>5
    <3> QED
      BY <3>4, <3>5
  <2>5. CASE ~ Encoding
    <3>1. Loads = chars .. chars + 16 * Size(call) - 1
      BY <2>5 DEF Loads
    <3>2. Loads \subseteq 0 .. Len(batch.src) - 1
      <4>1. LineRoom(batch) <= Len(batch.src)
        BY <1>4, <2>5
      <4> HIDE DEF chars
      <4> QED
        BY <1>2, <1>3, <2>2, <3>1, <4>1
    <3>3. PICK x \in {12, 15, 28} :
            /\ Stores = bytes .. bytes + x /\ x <= 13 * Size(call) + 2
            /\ Size(call) = 1 => x <= 15
      BY <1>2, <2>5 DEF Stores
    <3>4. CASE call.to = "side"
      <4>1. bytes = 0 /\ Size(call) = 1
        BY <2>1, <3>4 DEF Aside
      <4>2. Stores \subseteq 0 .. 15
        <5> HIDE DEF bytes
        <5> QED
          BY <3>3, <4>1
      <4> QED
        BY <1>4, <2>5, <3>2, <3>4, <4>2
    <3>5. CASE call.to # "side"
      <4>1. ~ Aside(call)
        BY <1>4, <2>5, <3>5 DEF Aside
      <4>2. /\ call.into - batch.w + UnitBytes = 13 * Finished
            /\ 13 * (Finished + Size(call)) + Slack <= batch.room - batch.w
        BY <2>1, <2>5, <4>1
      <4>3. bytes = w + 13 * f
        BY <1>2, <2>3, <2>5, <2>a, <4>2
      <4>4. 13 * (f + s) + 3 <= room - w /\ x <= 13 * s + 2
        BY <2>a, <3>3, <4>2 DEF Slack
      <4>5. bytes + x < room /\ bytes \in Nat
        <5> HIDE DEF bytes
        <5> QED
          BY <4>3, <4>4
      <4>6. Stores \subseteq DOMAIN out
        <5> HIDE DEF bytes
        <5> QED
          BY <1>0, <2>a, <3>3, <4>5
      <4> QED
        BY <1>4, <2>5, <3>2, <3>5, <4>6
    <3> QED
      BY <3>4, <3>5
  <2> QED
    BY <2>4, <2>5
<1>6. ASSUME unit = call.n, call.lf
      PROVE  LineFeedAt \in DOMAIN out
  <2>1. PICK l \in 1 .. batch.lines :
          /\ batch.lf
          /\ FeedAt(batch, l)
               = CharAt(batch, call) + call.stride * line + 16 * Size(call) * call.n
    BY <1>1, <1>6, LineEndIs
  <2>2. Encoding
    BY <1>4, <2>1
  <2>3. LineFeedAt = FeedAt(batch, l)
    BY <2>1, <2>2 DEF LineFeedAt, CharAt, Encoding
  <2>4. FeedAt(batch, l) \in Nat /\ FeedAt(batch, l) + 1 <= LineRoom(batch) + 1
    BY <1>1, <2>1, FeedIs
  <2> QED
    BY <1>0, <1>3, <1>4, <2>1, <2>2, <2>3, <2>4
<1> QED
  BY <1>5, <1>6

----------------------------------------------------------------------------
\* The steps.

\* What an encoding unit computes of a block is its code, whatever else it
\* loaded.
LEMMA Encoded ==
    ASSUME Control, Running, Encoding, unit < call.n, NEW h \in 0 .. Size(call) - 1
    PROVE  (IF call.kernel = "scalar"
            THEN EncodeScalar(Load(call.at + UnitBytes + 13 * h, 13))
            ELSE EncodeVector(Load(call.at + UnitBytes + 13 * h, 16)))
             = EncodeScalar(BlockOf(batch, Finished + h))
<1> DEFINE a == call.at + UnitBytes + 13 * h
           block == BlockOf(batch, Finished + h)
<1>1. /\ Good(batch) /\ InPlace(batch, call)
  BY NowIs
<1>2. call.at \in Nat /\ call.from \in {"src", "pad"} /\ Size(call) \in {1, 2}
      /\ call.to = "out"
  BY <1>1, CallIs DEF InPlace, Encoding
<1>3. /\ Finished \in Nat /\ Finished + Size(call) <= Total(batch)
      /\ IF Aside(call)
         THEN Finished = Total(batch) - 1 /\ Size(call) = 1 /\ call.at = 0 /\ UnitBytes = 0
         ELSE /\ call.at + UnitBytes = 13 * Finished
              /\ 13 * (Finished + Size(call)) + Slack <= Len(batch.src)
  BY UnitPlace
<1>4. Total(batch) \in Nat /\ Len(batch.src) \in Nat /\ batch.src \in Seq(Byte)
  BY <1>1, GoodIs
<1>5. block \in [0 .. 12 -> Byte]
  <2>1. Finished + h \in 0 .. Total(batch) - 1
    BY <1>2, <1>3, <1>4
  <2> QED
    BY <1>1, <2>1, BlockIs DEF Encoding
<1>6. CASE call.from = "pad"
  <2>1. Aside(call)
    BY <1>6 DEF Aside
  <2>2. h = 0 /\ a = 0 /\ Finished = Total(batch) - 1
    BY <1>3, <2>1
  <2>3. Finished + h = batch.n * batch.lines - 1
    BY <1>3, <2>2 DEF Total
  <2>4. \A j \in 0 .. 15 :
          side[j] = IF j < 13 THEN batch.src[13 * (batch.n * batch.lines - 1) + j + 1] ELSE 0
    BY DEF Control, Pad
  <2>5. \A j \in 0 .. 12 : side[j] = block[j]
    BY <2>3, <2>4 DEF BlockOf
  <2>6. Load(a, 13) = [j \in 0 .. 12 |-> side[j]] /\ Load(a, 16) = [j \in 0 .. 15 |-> side[j]]
    BY <1>6, <2>2 DEF Load
  <2> HIDE DEF block, a
  <2>7. Load(a, 13) = block
    BY <1>5, <2>5, <2>6
  <2>8. LoadedFor(block, Load(a, 16))
    <3>1. \A j \in 0 .. 15 : side[j] \in Byte
      <4>1. \A j \in 13 .. 15 : side[j] = 0
        BY <2>4
      <4>2. \A j \in 0 .. 12 : side[j] \in Byte
        BY <1>5, <2>5
      <4>3. 0 \in Byte /\ \A j \in 0 .. 15 : j \in 0 .. 12 \/ j \in 13 .. 15
        BY DEF Byte
      <4> QED
        BY <4>1, <4>2, <4>3
    <3> QED
      BY <1>5, <2>5, <2>6, <3>1 DEF LoadedFor
  <2>9. EncodeVector(Load(a, 16)) = EncodeScalar(block)
    BY <2>8, EncodesAsScalarCode
  <2> QED
    BY <2>7, <2>9 DEF a, block
<1>7. CASE call.from # "pad"
  <2>1. ~ Aside(call)
    BY <1>2, <1>7 DEF Aside
  <2>2. PICK k \in Nat, size \in Nat :
          /\ k = Finished + h /\ a = 13 * k /\ size = Len(batch.src)
          /\ 13 * k + 16 <= size
    <3>1. call.at + UnitBytes = 13 * Finished
          /\ 13 * (Finished + Size(call)) + Slack <= Len(batch.src)
      BY <1>3, <2>1
    <3>2. PICK f \in Nat, s \in {1, 2}, size \in Nat :
            /\ f = Finished /\ s = Size(call) /\ size = Len(batch.src)
            /\ 13 * (f + s) + 3 <= size /\ h <= s - 1 /\ h \in Nat
      <4>1. PICK s \in {1, 2} : s = Size(call) /\ h <= s - 1 /\ h \in Nat
        BY <1>2
      <4> QED
        BY <1>3, <1>4, <3>1, <4>1 DEF Slack
    <3>3. f + h \in Nat /\ 13 * (f + h) + 16 <= size /\ 13 * f + 13 * h = 13 * (f + h)
      BY <3>2
    <3> QED
      BY <3>1, <3>2, <3>3
  <2>3. \A j \in 0 .. 15 : batch.src[13 * k + j + 1] \in Byte
    <3>1. \A j \in 0 .. 15 : 13 * k + j + 1 \in 1 .. size
      <4> HIDE DEF a, block
      <4> QED
        BY <2>2, SMTT(60)
    <3>2. \A j \in 1 .. Len(batch.src) : batch.src[j] \in Byte
      BY <1>4
    <3> QED
      BY <2>2, <3>1, <3>2
  <2>4. Load(a, 13) = [j \in 0 .. 12 |-> batch.src[13 * k + j + 1]]
        /\ Load(a, 16) = [j \in 0 .. 15 |-> batch.src[13 * k + j + 1]]
    BY <1>7, <2>2 DEF Load, LoadSrc
  <2>5. block = [j \in 0 .. 12 |-> batch.src[13 * k + j + 1]]
    BY <2>2 DEF BlockOf
  <2> HIDE DEF block, a
  <2>6. Load(a, 13) = block
    BY <2>4, <2>5
  <2>7. LoadedFor(block, Load(a, 16))
    BY <1>5, <2>3, <2>4, <2>5 DEF LoadedFor
  <2>8. EncodeVector(Load(a, 16)) = EncodeScalar(block)
    BY <2>7, EncodesAsScalarCode
  <2> QED
    BY <2>6, <2>8 DEF a, block
<1> QED
  BY <1>6, <1>7

\* A unit adds its blocks, and no LF is missing from then on but the one that
\* its line ends with.
LEMMA UnitCounts ==
    ASSUME Control, Running, unit < call.n,
           unit' = unit + 1, UNCHANGED <<batch, todo, line>>
    PROVE  /\ Finished' = Finished + Size(call)
           /\ Fed' = Fed
           /\ Fed \subseteq {l \in 1 .. batch.lines : batch.lf /\ batch.n * l <= Finished}
<1>1. /\ Good(batch) /\ InPlace(batch, call) /\ todo # << >>
      /\ line \in 0 .. call.lines - 1 /\ unit \in 0 .. call.n
      /\ Finished = UnitAt(batch, call, line, unit)
  BY NowIs
<1>2. /\ call.n \in Nat /\ call.lines \in Nat /\ Size(call) \in {1, 2} /\ Row(call) \in Nat
      /\ First(batch, call) \in Nat /\ call.lf \in BOOLEAN
  BY <1>1, CallIs
<1>3. /\ batch.n \in Nat /\ batch.lf \in BOOLEAN /\ batch.lines \in Nat
      /\ Total(batch) \in Nat
  BY <1>1, GoodIs
<1>4. unit \in 0 .. call.n - 1
  BY <1>1, <1>2
<1>5. /\ Finished \in Nat
      /\ \A l \in 1 .. batch.lines :
           batch.n * l <= Finished + Size(call) =>
             \/ batch.n * l <= Finished
             \/ /\ batch.lf => call.lf
                /\ unit + 1 = call.n
                /\ batch.n * l = Finished + Size(call)
  BY <1>1, <1>4, UnitIs
<1>6. Finished' = Finished + Size(call)
  <2>1. /\ todo' = todo /\ batch' = batch /\ line' = line /\ unit' = unit + 1
        /\ call' = call
    BY DEF call
  <2>2. Finished' = First(batch, call) + Row(call) * line + Size(call) * (unit + 1)
    BY <1>1, <2>1 DEF Finished
  <2>3. Row(call) * line \in Nat /\ Size(call) * unit \in Nat
        /\ Size(call) * (unit + 1) = Size(call) * unit + Size(call)
    BY <1>1, <1>2
  <2> QED
    BY <1>1, <1>2, <2>2, <2>3 DEF UnitAt
<1>7. \A l \in 1 .. batch.lines : batch.n * l \in Nat
  BY <1>3
<1>8. Fed = {l \in 1 .. batch.lines : batch.lf /\ batch.n * l <= Finished}
  BY <1>1, <1>2, <1>4 DEF Fed
<1>9. Fed' = {l \in 1 .. batch.lines :
                 /\ batch.lf /\ batch.n * l <= Finished + Size(call)
                 /\ unit + 1 = call.n /\ call.lf => batch.n * l < Finished + Size(call)}
  BY <1>1, <1>2, <1>6 DEF Fed, call
<1>10. ASSUME NEW l \in 1 .. batch.lines
       PROVE  (batch.lf /\ batch.n * l <= Finished) <=>
                 /\ batch.lf /\ batch.n * l <= Finished + Size(call)
                 /\ unit + 1 = call.n /\ call.lf => batch.n * l < Finished + Size(call)
  <2>1. PICK z \in Nat, f \in Nat, s \in {1, 2} :
          z = batch.n * l /\ f = Finished /\ s = Size(call)
    BY <1>2, <1>5, <1>7
  <2>2. z <= f + s => z <= f \/ ((batch.lf => call.lf) /\ unit + 1 = call.n /\ z = f + s)
    BY <1>5, <2>1
  <2>3. (batch.lf /\ z <= f) <=>
          /\ batch.lf /\ z <= f + s
          /\ unit + 1 = call.n /\ call.lf => z < f + s
    BY <1>2, <1>3, <2>1, <2>2
  <2> QED
    BY <2>1, <2>3
<1> QED
  BY <1>6, <1>8, <1>9, <1>10

\* What a step inside a call has to leave right.
LEMMA ControlOn ==
    ASSUME Control, todo # << >>, pc = "run", UNCHANGED <<batch, todo, pc>>,
           Buffer(side', 15), Encoding => side' = side,
           line' \in Nat, unit' \in Nat, ok' \in BOOLEAN, worst' \in Nat \X Nat,
           line' <= call.lines, unit' <= call.n, line' = call.lines => unit' = 0
    PROVE  Control'
<1>1. /\ call' = call /\ Encoding' = Encoding
      /\ RoomForSlack(batch)' = RoomForSlack(batch) /\ Pad(batch)' = Pad(batch)
  BY DEF call, Encoding, RoomForSlack, Pad
<1>2. /\ Good(batch') /\ InOrder(batch', todo', Total(batch'))
      /\ Encoding' => side' = Pad(batch)'
      /\ todo' # << >> /\ pc' = "run"
  BY <1>1 DEF Control
<1>3. line' <= call'.lines /\ unit' <= call'.n /\ (line' = call'.lines => unit' = 0)
  BY <1>1
<1> QED
  BY <1>2, <1>3 DEF Control

\* An encoding unit keeps all of it.
LEMMA EncodeUnitStep ==
    ASSUME IInv, EncodeUnit
    PROVE  IInv'
<1>1. /\ Control /\ Running /\ Encoding /\ unit < call.n
      /\ EncodedTo(batch, out, Finished, Fed)
      /\ unit' = unit + 1
      /\ UNCHANGED <<batch, side, todo, line, worst, ok, pc>>
  BY DEF IInv, EncodeUnit, EncodeSound
<1>2. /\ Good(batch) /\ todo # << >> /\ InPlace(batch, call)
      /\ line \in 0 .. call.lines - 1 /\ unit \in 0 .. call.n
  BY <1>1, NowIs
<1>3. call.n \in Nat /\ call.lines \in Nat /\ call.into \in Nat
  BY <1>2, CallIs
<1>4. /\ Finished' = Finished + Size(call)
      /\ Fed' = Fed
      /\ Fed \subseteq {l \in 1 .. batch.lines : batch.lf /\ batch.n * l <= Finished}
  BY <1>1, UnitCounts
<1>5. /\ Finished \in Nat /\ Size(call) \in {1, 2}
      /\ Finished + Size(call) <= Total(batch)
      /\ \A h \in 0 .. Size(call) - 1 :
           Where(batch, Finished + h) = call.into + UnitChars + 16 * h
  BY <1>1, UnitPlace
<1>6. Total(batch) \in Nat /\ batch.n \in Nat /\ batch.lines \in Nat /\ batch.lf \in BOOLEAN
  BY <1>2, GoodIs
<1> DEFINE code(h) == EncodeScalar(BlockOf(batch, Finished + h))
           at(h) == Where(batch, Finished + h)
           k == Finished
           L == Fed
<1>7. Finished + 0 = Finished /\ UnitChars \in Nat /\ call.into + UnitChars \in Nat
  <2>1. call.stride \in Nat /\ Size(call) \in Nat
    BY <1>2, <1>5, CallIs
  <2>2. call.stride * line \in Nat /\ 16 * Size(call) * unit \in Nat
    BY <1>2, <1>3, <2>1
  <2> QED
    BY <1>3, <1>5, <2>2 DEF UnitChars
<1>8. EncodedTo(batch, Store(out, at(0), code(0)), k + 1, L)
  <2>1. k \in 0 .. Total(batch) - 1
    BY <1>5, <1>6
  <2>2. EncodedTo(batch, Store(out, Where(batch, k), EncodeScalar(BlockOf(batch, k))), k + 1, L)
    <3> HIDE DEF k, L
    <3>1. L \subseteq {l \in 1 .. batch.lines : batch.lf /\ batch.n * l <= k}
          /\ EncodedTo(batch, out, k, L) /\ batch.op = "encode"
      BY <1>1, <1>4 DEF Encoding, k, L
    <3> QED
      BY <1>2, <2>1, <3>1, StoreBlock
  <2> QED
    BY <1>7, <2>2
<1>9. EncodedTo(batch, out', Finished + Size(call), Fed)
  <2>1. CASE Size(call) = 1
    <3>1. 0 \in 0 .. Size(call) - 1
      BY <2>1
    <3>2. at(0) = call.into + UnitChars
      BY <1>5, <1>7, <3>1
    <3>3. out' = Store(out, call.into + UnitChars,
                       IF call.kernel = "scalar"
                       THEN EncodeScalar(Load(call.at + UnitBytes + 13 * 0, 13))
                       ELSE EncodeVector(Load(call.at + UnitBytes + 13 * 0, 16)))
      BY <2>1 DEF EncodeUnit
    <3>4. out' = Store(out, at(0), code(0))
      BY <1>1, <3>1, <3>2, <3>3, Encoded
    <3> QED
      BY <1>8, <2>1, <3>4
  <2>2. CASE Size(call) = 2
    <3>1. 0 \in 0 .. Size(call) - 1 /\ 1 \in 0 .. Size(call) - 1
      BY <2>2
    <3>2. at(0) = call.into + UnitChars /\ at(1) = call.into + UnitChars + 16
      BY <1>5, <1>7, <3>1
    <3>3. out' = Store(Store(out, call.into + UnitChars,
                             IF call.kernel = "scalar"
                             THEN EncodeScalar(Load(call.at + UnitBytes + 13 * 0, 13))
                             ELSE EncodeVector(Load(call.at + UnitBytes + 13 * 0, 16))),
                       call.into + UnitChars + 16,
                       IF call.kernel = "scalar"
                       THEN EncodeScalar(Load(call.at + UnitBytes + 13 * 1, 13))
                       ELSE EncodeVector(Load(call.at + UnitBytes + 13 * 1, 16)))
      BY <2>2 DEF EncodeUnit
    <3>4. out' = Store(Store(out, at(0), code(0)), at(1), code(1))
      <4>1. /\ (IF call.kernel = "scalar"
                THEN EncodeScalar(Load(call.at + UnitBytes + 13 * 0, 13))
                ELSE EncodeVector(Load(call.at + UnitBytes + 13 * 0, 16))) = code(0)
            /\ (IF call.kernel = "scalar"
                THEN EncodeScalar(Load(call.at + UnitBytes + 13 * 1, 13))
                ELSE EncodeVector(Load(call.at + UnitBytes + 13 * 1, 16))) = code(1)
        BY <1>1, <3>1, Encoded
      <4> QED
        BY <3>2, <3>3, <4>1
    <3>5. EncodedTo(batch, Store(Store(out, at(0), code(0)), at(1), code(1)), (k + 1) + 1, L)
      <4> DEFINE m == Store(out, at(0), code(0))
                 f == k + 1
      <4>1. f \in 0 .. Total(batch) - 1 /\ f = Finished + 1
        BY <1>5, <1>6, <2>2
      <4>2. L \subseteq {l \in 1 .. batch.lines : batch.lf /\ batch.n * l <= f}
        <5>1. \A l \in 1 .. batch.lines : batch.n * l \in Nat
          BY <1>6
        <5> QED
          BY <1>4, <1>5, <5>1
      <4>3. batch.op = "encode" /\ EncodedTo(batch, m, f, L)
        BY <1>1, <1>8 DEF Encoding
      <4> HIDE DEF m, f, L
      <4>4. EncodedTo(batch, Store(m, Where(batch, f), EncodeScalar(BlockOf(batch, f))), f + 1, L)
        BY <1>2, <4>1, <4>2, <4>3, StoreBlock
      <4> QED
        BY <4>1, <4>4 DEF m, f
    <3>6. (k + 1) + 1 = Finished + 2
      BY <1>5
    <3> QED
      BY <2>2, <3>4, <3>5, <3>6
  <2> QED
    BY <1>5, <2>1, <2>2
<1>10. Control'
  <2>1. unit' \in Nat /\ unit' <= call.n /\ line' # call.lines
    BY <1>1, <1>2, <1>3
  <2>2. /\ line' \in Nat /\ ok' \in BOOLEAN /\ worst' \in Nat \X Nat /\ Buffer(side', 15)
        /\ line' <= call.lines
    BY <1>1 DEF Control, Running
  <2> QED
    BY <1>1, <1>2, <2>1, <2>2, ControlOn DEF Running
<1>11. EncodeSound' /\ DecodeSound'
  BY <1>1, <1>4, <1>9 DEF EncodeSound, DecodeSound, Encoding
<1> QED
  BY <1>10, <1>11 DEF IInv

\* What a decoding unit has to leave right, in either buffer.
LEMMA DecodeUnitRest ==
    ASSUME Control, Running, ~ Encoding, unit < call.n, unit' = unit + 1,
           UNCHANGED <<batch, todo, line, ok, pc>>,
           Finished' = Finished + Size(call),
           Buffer(side', 15), worst' \in Nat \X Nat,
           (ok' /\ Within(worst')) <=> AllValid(batch, Finished + Size(call)),
           IF InSide' THEN /\ DecodedTo(batch, out', Total(batch) - 1)
                           /\ HasBytes(batch, Total(batch) - 1, side')
           ELSE DecodedTo(batch, out', Finished + Size(call))
    PROVE  IInv'
<1>1. /\ Good(batch) /\ todo # << >> /\ pc = "run" /\ InPlace(batch, call)
      /\ line \in 0 .. call.lines - 1 /\ unit \in 0 .. call.n
  BY NowIs
<1>2. call.n \in Nat /\ call.lines \in Nat
  BY <1>1, CallIs
<1>3. Control'
  <2>1. unit' \in Nat /\ unit' <= call.n /\ line' \in Nat /\ line' <= call.lines
        /\ line' # call.lines
    BY <1>1, <1>2
  <2>2. ok' \in BOOLEAN
    BY DEF Control
  <2> QED
    BY <1>1, <2>1, <2>2, ControlOn
<1>4. ~ Encoding'
  BY DEF Encoding
<1>5. EncodeSound'
  BY <1>4 DEF EncodeSound
<1>6. DecodeSound'
  BY <1>4 DEF DecodeSound, Within
<1> QED
  BY <1>3, <1>5, <1>6 DEF IInv

\* A decoding unit keeps all of it.
LEMMA DecodeUnitStep ==
    ASSUME IInv, DecodeUnit
    PROVE  IInv'
<1>1. /\ Control /\ Running /\ ~ Encoding /\ unit < call.n
      /\ unit' = unit + 1
      /\ UNCHANGED <<batch, todo, line, ok, pc>>
  BY DEF IInv, DecodeUnit
<1>2. /\ Good(batch) /\ todo # << >> /\ pc = "run" /\ InPlace(batch, call)
      /\ line \in 0 .. call.lines - 1 /\ unit \in 0 .. call.n
  BY <1>1, NowIs
<1>3. /\ call.n \in Nat /\ call.lines \in Nat /\ call.into \in Nat /\ call.at \in Nat
      /\ call.to \in {"out", "side"} /\ call.from = "src"
      /\ Size(call) = IF call.kernel # "scalar" /\ call.kernel = "avx2" THEN 2 ELSE 1
  BY <1>1, <1>2, CallIs DEF InPlace, Encoding, Size
<1>4. Finished' = Finished + Size(call)
  BY <1>1, UnitCounts
<1>5. /\ Finished \in Nat /\ Size(call) \in {1, 2}
      /\ Finished + Size(call) <= Total(batch)
      /\ \A h \in 0 .. Size(call) - 1 :
           Where(batch, Finished + h) = call.at + UnitChars + 16 * h
      /\ IF Aside(call)
         THEN /\ Finished = Total(batch) - 1 /\ Size(call) = 1
              /\ call.into = 0 /\ UnitBytes = 0
              /\ ~ RoomForSlack(batch)
         ELSE /\ call.into - batch.w + UnitBytes = 13 * Finished
              /\ 13 * (Finished + Size(call)) + Slack <= batch.room - batch.w
  BY <1>1, UnitPlace
<1>6. /\ Total(batch) \in Nat \ {0} /\ batch.op = "decode" /\ batch.room \in Nat
      /\ batch.w \in Nat
  BY <1>1, <1>2, GoodIs DEF Encoding
<1>7. Aside(call) <=> call.to = "side"
  BY <1>3 DEF Aside
<1> DEFINE chars(h) == CharsOf(batch, Finished + h)
           bytes(h) == KernelBytes(call.kernel, chars(h))
           report(h) == KernelReport(call.kernel, chars(h))
           to == call.into + UnitBytes
           Both(m) == IF Size(call) = 1 THEN Store(m, to, bytes(0))
                      ELSE Store(Store(m, to, bytes(0)), to + 13, bytes(1))
<1>8. ASSUME NEW h \in 0 .. Size(call) - 1
      PROVE  /\ LoadSrc(call.at + UnitChars + 16 * h, 16) = chars(h)
             /\ \E top \in {12, 15} : Buffer(bytes(h), top)
             /\ call.kernel # "scalar" => Buffer(bytes(h), 15)
             /\ HasBytes(batch, Finished + h, bytes(h))
             /\ report(h) \in Nat \X Nat
             /\ Within(report(h)) <=> ValidScalar(chars(h))
  <2>1. Finished + h \in 0 .. Total(batch) - 1
    BY <1>5, <1>6
  <2>2. LoadSrc(call.at + UnitChars + 16 * h, 16) = chars(h)
    BY <1>5 DEF LoadSrc, CharsOf
  <2> QED
    BY <1>2, <1>6, <2>1, <2>2, KernelBytesAre
<1>9. 0 \in 0 .. Size(call) - 1 /\ (Size(call) = 2 => 1 \in 0 .. Size(call) - 1)
  BY <1>5
<1>10. /\ IF call.to = "out" THEN out' = Both(out) /\ side' = side
          ELSE side' = Both(side) /\ out' = out
       /\ worst' = IF Size(call) = 1 THEN WorstOf(worst, report(0))
                   ELSE WorstOf(WorstOf(worst, report(0)), report(1))
  <2>1. LoadSrc(call.at + UnitChars + 16 * 0, 16) = chars(0)
    BY <1>8, <1>9
  <2>2. Size(call) = 2 => LoadSrc(call.at + UnitChars + 16 * 1, 16) = chars(1)
    BY <1>8, <1>9
  <2>3. CASE Size(call) = 1
    BY <2>1, <2>3 DEF DecodeUnit, KernelBytes, KernelReport
  <2>4. CASE Size(call) = 2
    BY <2>1, <2>2, <2>4 DEF DecodeUnit, KernelBytes, KernelReport
  <2> QED
    BY <1>5, <2>3, <2>4
<1>11. /\ worst' \in Nat \X Nat
       /\ Within(worst') <=> Within(worst) /\ \A h \in 0 .. Size(call) - 1 : ValidScalar(chars(h))
  <2>0. worst \in Nat \X Nat
    BY <1>1 DEF Control
  <2>1. CASE Size(call) = 1
    <3>1. worst' = WorstOf(worst, report(0)) /\ report(0) \in Nat \X Nat
          /\ (Within(report(0)) <=> ValidScalar(chars(0)))
      BY <1>8, <1>9, <1>10, <2>1
    <3>2. \A h \in 0 .. Size(call) - 1 : h = 0
      BY <2>1
    <3> HIDE DEF report, chars
    <3>3. WorstOf(worst, report(0)) \in Nat \X Nat
          /\ (Within(WorstOf(worst, report(0))) <=> Within(worst) /\ Within(report(0)))
      BY <2>0, <3>1, WorstIs
    <3> QED
      BY <1>9, <3>1, <3>2, <3>3
  <2>2. CASE Size(call) = 2
    <3>1. /\ worst' = WorstOf(WorstOf(worst, report(0)), report(1))
          /\ report(0) \in Nat \X Nat /\ report(1) \in Nat \X Nat
          /\ (Within(report(0)) <=> ValidScalar(chars(0)))
          /\ (Within(report(1)) <=> ValidScalar(chars(1)))
      BY <1>8, <1>9, <1>10, <2>2
    <3>2. \A h \in 0 .. Size(call) - 1 : h = 0 \/ h = 1
      BY <2>2
    <3> HIDE DEF report, chars
    <3>3. WorstOf(worst, report(0)) \in Nat \X Nat
          /\ (Within(WorstOf(worst, report(0))) <=> Within(worst) /\ Within(report(0)))
      BY <2>0, <3>1, WorstIs
    <3>4. WorstOf(WorstOf(worst, report(0)), report(1)) \in Nat \X Nat
          /\ (Within(WorstOf(WorstOf(worst, report(0)), report(1)))
                <=> Within(WorstOf(worst, report(0))) /\ Within(report(1)))
      BY <3>1, <3>3, WorstIs
    <3> QED
      BY <1>9, <2>2, <3>1, <3>2, <3>3, <3>4
  <2> QED
    BY <1>5, <2>1, <2>2
<1>12. AllValid(batch, Finished + Size(call)) <=>
         AllValid(batch, Finished) /\ \A h \in 0 .. Size(call) - 1 : ValidScalar(chars(h))
  <2>1. ASSUME NEW k \in 0 .. (Finished + Size(call)) - 1
        PROVE  \/ k \in 0 .. Finished - 1
               \/ \E h \in 0 .. Size(call) - 1 : k = Finished + h
    <3>1. CASE k < Finished
      BY <1>5, <3>1
    <3>2. CASE k >= Finished
      <4>1. k - Finished \in 0 .. Size(call) - 1 /\ k = Finished + (k - Finished)
        BY <1>5, <3>2
      <4> QED
        BY <4>1
    <3> QED
      BY <1>5, <3>1, <3>2
  <2>2. \A h \in 0 .. Size(call) - 1 : Finished + h \in 0 .. (Finished + Size(call)) - 1
    BY <1>5
  <2>3. \A k \in 0 .. Finished - 1 : k \in 0 .. (Finished + Size(call)) - 1
    BY <1>5
  <2> QED
    BY <2>1, <2>2, <2>3 DEF AllValid
<1>13. (ok' /\ Within(worst')) <=> AllValid(batch, Finished + Size(call))
  <2>1. (ok /\ Within(worst)) <=> AllValid(batch, Finished)
    BY <1>1 DEF IInv, DecodeSound, Within
  <2> QED
    BY <1>1, <1>11, <1>12, <2>1
<1>14. DecodedTo(batch, out, Finished)
  <2>1. ~ InSide
    BY <1>5, <1>6 DEF InSide
  <2> QED
    BY <1>1, <2>1 DEF IInv, DecodeSound
<1>15. Buffer(side, 15)
  BY <1>1 DEF Control
<1>16. CASE call.to = "out"
  <2>1. /\ to = batch.w + 13 * Finished
        /\ 13 * (Finished + Size(call)) + Slack <= batch.room - batch.w
    <3>1. UnitBytes \in Nat
      <4>1. call.n * line \in Nat
        BY <1>2, <1>3
      <4> QED
        BY <1>2, <1>5, <4>1, SMTT(60) DEF UnitBytes
    <3>2. /\ call.into - batch.w + UnitBytes = 13 * Finished
          /\ 13 * (Finished + Size(call)) + Slack <= batch.room - batch.w
      BY <1>5, <1>7, <1>16
    <3> QED
      BY <1>3, <1>5, <1>6, <3>1, <3>2
  <2>2. out' = Both(out) /\ side' = side
    BY <1>10, <1>16
  <2>3. DecodedTo(batch, Store(out, to, bytes(0)), Finished + 1)
    <3>1. Finished \in 0 .. Total(batch) - 1 /\ Finished + 0 = Finished
      BY <1>5, <1>6
    <3>2. PICK top \in {12, 15} : Buffer(bytes(0), top)
      BY <1>8, <1>9
    <3>3. HasBytes(batch, Finished + 0, bytes(0))
      BY <1>8, <1>9
    <3> HIDE DEF bytes, to
    <3>4. DecodedTo(batch, Store(out, batch.w + 13 * Finished, bytes(0)), Finished + 1)
      BY <1>2, <1>6, <1>14, <3>1, <3>2, <3>3, StoreBytes
    <3> QED
      BY <2>1, <3>4
  <2>4. DecodedTo(batch, out', Finished + Size(call))
    <3>1. CASE Size(call) = 1
      BY <2>2, <2>3, <3>1
    <3>2. CASE Size(call) = 2
      <4> DEFINE m == Store(out, to, bytes(0))
                 f == Finished + 1
      <4>1. f \in 0 .. Total(batch) - 1 /\ to + 13 = batch.w + 13 * f /\ f = Finished + 1
        BY <1>5, <1>6, <2>1, <3>2
      <4>2. PICK top \in {12, 15} : Buffer(bytes(1), top)
        BY <1>8, <1>9, <3>2
      <4>3. HasBytes(batch, f, bytes(1))
        BY <1>8, <1>9, <3>2
      <4>4. out' = Store(m, to + 13, bytes(1)) /\ DecodedTo(batch, m, f)
        BY <2>2, <2>3, <3>2
      <4> HIDE DEF bytes, to, m, f
      <4>5. DecodedTo(batch, Store(m, batch.w + 13 * f, bytes(1)), f + 1)
        BY <1>2, <1>6, <4>1, <4>2, <4>3, <4>4, StoreBytes
      <4>6. f + 1 = Finished + 2
        BY <1>5, <4>1
      <4> QED
        BY <3>2, <4>1, <4>4, <4>5, <4>6
    <3> QED
      BY <1>5, <3>1, <3>2
  <2>5. ~ InSide'
    <3>1. SUFFICES ASSUME Finished + Size(call) = Total(batch), ~ RoomForSlack(batch)
                   PROVE  FALSE
      BY <1>1, <1>4 DEF InSide, RoomForSlack
    <3>2. 13 * Total(batch) + Slack <= batch.room - batch.w
      BY <2>1, <3>1
    <3>3. Total(batch) = batch.n * batch.lines
      BY DEF Total
    <3>4. 13 * batch.n * batch.lines = 13 * (batch.n * batch.lines)
      <4>1. batch.n \in Nat /\ batch.lines \in Nat
        BY <1>2, GoodIs
      <4> QED
        BY <4>1
    <3> QED
      BY <1>6, <3>1, <3>2, <3>3, <3>4 DEF RoomForSlack
  <2>6. Buffer(side', 15)
    BY <1>15, <2>2
  <2> QED
    BY <1>1, <1>2, <1>3, <1>4, <1>11, <1>13, <2>2, <2>4, <2>5, <2>6, DecodeUnitRest
<1>17. CASE call.to # "out"
  <2>1. /\ Finished = Total(batch) - 1 /\ Size(call) = 1 /\ to = 0
        /\ ~ RoomForSlack(batch)
    BY <1>3, <1>5, <1>7, <1>17
  <2>2. out' = out /\ side' = Store(side, 0, bytes(0))
    BY <1>10, <1>17, <2>1
  <2>3. PICK top \in {12, 15} : Buffer(bytes(0), top)
    BY <1>8, <1>9
  <2>4. HasBytes(batch, Total(batch) - 1, bytes(0))
    <3>1. HasBytes(batch, Finished + 0, bytes(0)) /\ Finished + 0 = Total(batch) - 1
      BY <1>5, <1>6, <1>8, <1>9, <2>1
    <3> QED
      BY <3>1
  <2>5. /\ Buffer(side', 15)
        /\ \A j \in 0 .. 12 : side'[j] = bytes(0)[j]
    <3>1. DOMAIN side = 0 .. 15 /\ DOMAIN bytes(0) = 0 .. top
      BY <1>15, <2>3 DEF Buffer
    <3>2. side' = [x \in 0 .. 15 |-> IF x - 0 \in 0 .. top THEN bytes(0)[x - 0] ELSE side[x]]
      BY <2>2, <3>1 DEF Store
    <3>3. \A j \in 0 .. 12 : j \in 0 .. 15 /\ j - 0 = j /\ j \in 0 .. top
      BY <2>3
    <3> HIDE DEF bytes
    <3> QED
      BY <3>2, <3>3 DEF Buffer
  <2>6. HasBytes(batch, Total(batch) - 1, side')
    BY <2>4, <2>5 DEF HasBytes
  <2>7. DecodedTo(batch, out', Total(batch) - 1)
    BY <1>14, <2>1, <2>2
  <2>8. InSide'
    <3>1. Finished + Size(call) = Total(batch)
      BY <1>6, <2>1
    <3> QED
      BY <1>1, <1>2, <1>4, <2>1, <3>1 DEF InSide, RoomForSlack
  <2> QED
    BY <1>1, <1>2, <1>3, <1>4, <1>11, <1>13, <2>5, <2>6, <2>7, <2>8, DecodeUnitRest
<1> QED
  BY <1>16, <1>17

\* A line's end counts no block, and the line has its LF from then on.
LEMMA LineEndStep ==
    ASSUME IInv, LineEnd
    PROVE  IInv'
<1>1. /\ Control /\ Running /\ unit = call.n /\ line' = line + 1 /\ unit' = 0
      /\ UNCHANGED <<batch, side, todo, worst, ok, pc>>
      /\ out' = IF call.lf THEN Store(out, LineFeedAt, [j \in 0 .. 0 |-> 10]) ELSE out
  BY DEF IInv, LineEnd
<1>2. /\ Good(batch) /\ InPlace(batch, call) /\ todo # << >> /\ pc = "run"
      /\ line \in 0 .. call.lines - 1 /\ unit \in 0 .. call.n
      /\ Finished = UnitAt(batch, call, line, unit)
  BY <1>1, NowIs
<1>3. /\ call.n \in Nat /\ call.lines \in Nat /\ Size(call) \in {1, 2} /\ Row(call) \in Nat
      /\ First(batch, call) \in Nat /\ call.lf \in BOOLEAN /\ Row(call) = Size(call) * call.n
      /\ Covered(call) \in Nat
  BY <1>2, CallIs
<1>4. /\ batch.n \in Nat \ {0} /\ batch.lf \in BOOLEAN /\ batch.lines \in Nat
      /\ Total(batch) \in Nat
  BY <1>2, GoodIs
<1>5. PICK f \in Nat : /\ f = First(batch, call) + Row(call) * line + Row(call)
                       /\ Finished = f
  <2>1. Row(call) * line \in Nat
    BY <1>2, <1>3
  <2> QED
    BY <1>1, <1>2, <1>3, <2>1 DEF UnitAt
<1>6. Finished' = f
  <2>1. /\ todo' = todo /\ batch' = batch /\ call' = call
    BY <1>1 DEF call
  <2>2. Finished' = First(batch, call) + Row(call) * (line + 1) + Size(call) * 0
    BY <1>1, <1>2, <2>1 DEF Finished
  <2>3. Row(call) * line \in Nat /\ Row(call) * (line + 1) = Row(call) * line + Row(call)
        /\ Size(call) * 0 = 0
    BY <1>2, <1>3
  <2> QED
    BY <1>3, <1>5, <2>2, <2>3
<1>7. call.lf => call.n # 0
  BY <1>2, LineEndIs
<1>8. Fed = {l \in 1 .. batch.lines :
                batch.lf /\ batch.n * l <= f /\ (call.lf => batch.n * l < f)}
  BY <1>1, <1>2, <1>3, <1>5 DEF Fed
<1>9. Fed' = {l \in 1 .. batch.lines : batch.lf /\ batch.n * l <= f}
  <2>1. call' = call /\ batch' = batch
    BY <1>1 DEF call
  <2>2. ~ (todo' # << >> /\ line' < call'.lines /\ unit' = call'.n /\ call'.lf)
    BY <1>1, <1>7, <2>1
  <2> QED
    BY <1>6, <2>1, <2>2 DEF Fed
<1>10. /\ ~ Encoding => ~ call.lf
       /\ Encoding => EncodedTo(batch, out, f, Fed) /\ batch.op = "encode"
  BY <1>2, <1>4, <1>5, GoodIs DEF Good, InPlace, IInv, EncodeSound, Encoding
<1>11. f <= Total(batch)
  <2>1. PICK p, v : LineOf(batch, call, line, p, v)
    BY <1>2, LineIs
  <2>2. f <= First(batch, call) + Covered(call) /\ First(batch, call) + Covered(call) <= Total(batch)
    BY <1>5, <2>1 DEF LineOf
  <2> QED
    BY <1>3, <1>4, <2>2
<1>12. ASSUME Encoding
       PROVE  EncodedTo(batch, out', f, Fed')
  <2>1. CASE call.lf
    <3>1. PICK n \in 1 .. batch.lines :
            /\ batch.lf
            /\ batch.n * n = f
            /\ FeedAt(batch, n)
                 = CharAt(batch, call) + call.stride * line + 16 * Size(call) * call.n
      BY <1>2, <1>5, <2>1, LineEndIs
    <3>2. LineFeedAt = FeedAt(batch, n)
      BY <1>12, <3>1 DEF LineFeedAt, CharAt, Encoding
    <3>3. Fed' = Fed \cup {n}
      <4>1. ASSUME NEW l \in 1 .. batch.lines
            PROVE  batch.n * l <= f <=> batch.n * l < f \/ l = n
        <5>1. batch.n * l \in Nat /\ batch.n * n = f
          BY <1>4, <3>1
        <5>2. batch.n * l = f => l = n
          BY <1>4, <3>1
        <5> QED
          BY <5>1, <5>2
      <4>2. \A l \in 1 .. batch.lines : batch.n * l \in Nat
        BY <1>4
      <4> QED
        BY <1>8, <1>9, <2>1, <3>1, <4>1, <4>2
    <3>4. /\ f \in 0 .. Total(batch) /\ Fed \subseteq 1 .. batch.lines
          /\ EncodedTo(batch, out, f, Fed) /\ batch.op = "encode" /\ f = batch.n * n
          /\ batch.lf
      BY <1>4, <1>8, <1>10, <1>11, <1>12, <3>1
    <3>5. EncodedTo(batch, Store(out, FeedAt(batch, n), [j \in 0 .. 0 |-> 10]), f, Fed \cup {n})
      BY <1>2, <3>4, StoreFeed
    <3> QED
      BY <1>1, <2>1, <3>2, <3>3, <3>5
  <2>2. CASE ~ call.lf
    BY <1>1, <1>8, <1>9, <1>10, <1>12, <2>2
  <2> QED
    BY <2>1, <2>2
<1>13. Control'
  <2>1. line' \in Nat /\ line' <= call.lines /\ unit' \in Nat /\ unit' <= call.n
    BY <1>1, <1>2, <1>3
  <2>2. ok' \in BOOLEAN /\ worst' \in Nat \X Nat /\ Buffer(side', 15)
    BY <1>1 DEF Control
  <2> QED
    BY <1>1, <1>2, <2>1, <2>2, ControlOn
<1>14. Encoding' = Encoding /\ batch' = batch
  BY <1>1 DEF Encoding
<1>15. EncodeSound'
  BY <1>6, <1>12, <1>14 DEF EncodeSound
<1>16. DecodeSound'
  <2>1. SUFFICES ASSUME ~ Encoding PROVE DecodeSound'
    BY <1>14 DEF DecodeSound
  <2>2. out' = out /\ ok' = ok /\ worst' = worst /\ side' = side /\ pc' = pc
    BY <1>1, <1>10, <2>1
  <2>3. InSide' = InSide
    BY <1>1, <1>5, <1>6 DEF InSide, RoomForSlack
  <2>4. DecodeSound
    BY DEF IInv
  <2> QED
    BY <1>5, <1>6, <1>14, <2>1, <2>2, <2>3, <2>4 DEF DecodeSound
<1> QED
  BY <1>13, <1>15, <1>16 DEF IInv

\* The next call begins where the last one ended, with new maxima.
LEMMA CallEndStep ==
    ASSUME IInv, CallEnd
    PROVE  IInv'
<1>1. /\ Control /\ pc = "run" /\ todo # << >> /\ line = call.lines
      /\ ok' = (ok /\ worst[1] <= 90 /\ worst[2] <= 8191)
      /\ todo' = Tail(todo)
      /\ line' = 0 /\ unit' = 0 /\ worst' = <<0, 0>>
      /\ UNCHANGED <<batch, out, side, pc>>
  BY DEF IInv, CallEnd
<1>2. /\ Good(batch) /\ InOrder(batch, todo, Total(batch)) /\ unit = 0
  BY <1>1 DEF Control
<1>3. /\ InPlace(batch, call)
      /\ InOrder(batch, todo', Total(batch))
      /\ From(batch, todo', First(batch, call) + Covered(call), Total(batch))
  BY <1>1, <1>2, HeadIs DEF call
<1>4. /\ call.n \in Nat /\ call.lines \in Nat /\ Size(call) \in {1, 2} /\ Row(call) \in Nat
      /\ First(batch, call) \in Nat /\ Covered(call) \in Nat
  BY <1>2, <1>3, CallIs
<1>5. PICK f \in Nat : f = First(batch, call) + Covered(call) /\ Finished = f
  <2>1. Row(call) * line = Covered(call) /\ Size(call) * unit = 0
    BY <1>1, <1>2, <1>4 DEF Covered
  <2> QED
    BY <1>1, <1>4, <2>1 DEF Finished
<1>6. batch' = batch /\ Total(batch)' = Total(batch) /\ Encoding' = Encoding
      /\ RoomForSlack(batch)' = RoomForSlack(batch)
  BY <1>1 DEF Total, Encoding, RoomForSlack
<1>7. todo' # << >> => /\ InPlace(batch, call')
                       /\ call'.n \in Nat /\ call'.lines \in Nat
                       /\ First(batch, call') = f
                       /\ Row(call') \in Nat /\ Size(call') \in {1, 2}
  <2> SUFFICES ASSUME todo' # << >>
               PROVE  /\ InPlace(batch, call')
                      /\ call'.n \in Nat /\ call'.lines \in Nat
                      /\ First(batch, call') = f
                      /\ Row(call') \in Nat /\ Size(call') \in {1, 2}
    OBVIOUS
  <2>1. InPlace(batch, Head(todo'))
    BY <1>3, HeadIs
  <2>2. First(batch, todo'[1]) = f
    BY <1>3, <1>5 DEF From
  <2>3. Head(todo') = todo'[1]
    BY <1>3 DEF InOrder
  <2>4. call' = Head(todo')
    BY DEF call
  <2> QED
    BY <1>2, <2>1, <2>2, <2>3, <2>4, CallIs
<1>8. Finished' = f
  <2>1. CASE todo' = << >>
    BY <1>3, <1>5, <1>6, <2>1 DEF Finished, From
  <2>2. CASE todo' # << >>
    <3>1. Finished' = First(batch, call') + Row(call') * 0 + Size(call') * 0
      BY <1>1, <1>6, <2>2 DEF Finished
    <3>2. Row(call') * 0 = 0 /\ Size(call') * 0 = 0
      BY <1>7, <2>2
    <3> QED
      BY <1>7, <2>2, <3>1, <3>2
  <2> QED
    BY <2>1, <2>2
<1>9. Fed' = Fed
  <2>1. Fed = {l \in 1 .. batch.lines : batch.lf /\ batch.n * l <= f}
    BY <1>1, <1>4, <1>5 DEF Fed
  <2>2. ~ (todo' # << >> /\ line' < call'.lines /\ unit' = call'.n /\ call'.lf)
    <3> SUFFICES ASSUME todo' # << >>, 0 < call'.lines, call'.n = 0, call'.lf
                 PROVE  FALSE
      BY <1>1
    <3>1. 0 \in 0 .. call'.lines - 1
      BY <1>7
    <3>2. InPlace(batch, call')
      BY <1>7
    <3> QED
      BY <1>2, <3>1, <3>2, LineEndIs
  <2>3. Fed' = {l \in 1 .. batch.lines : batch.lf /\ batch.n * l <= f}
    BY <1>6, <1>8, <2>2 DEF Fed
  <2> QED
    BY <2>1, <2>3
<1>10. Within(worst') /\ worst' \in Nat \X Nat
  BY <1>1 DEF Within
<1>11. ok' \in BOOLEAN /\ (ok' <=> ok /\ Within(worst))
  <2>1. ok' = (ok /\ worst[1] <= 90 /\ worst[2] <= 8191)
    BY <1>1
  <2>2. ok' \in BOOLEAN
    BY <2>1
  <2>3. ok' <=> ok /\ worst[1] <= 90 /\ worst[2] <= 8191
    BY <2>1, ZenonT(60)
  <2> QED
    BY <2>2, <2>3 DEF Within
<1>12. Control'
  <2>1. /\ Good(batch') /\ InOrder(batch', todo', Total(batch'))
        /\ pc' \in {"run", "copy", "done"} /\ (pc' # "run" => todo' = << >>)
        /\ pc' # "copy"
    BY <1>1, <1>2, <1>3, <1>6
  <2>2. line' \in Nat /\ unit' \in Nat /\ (todo' = << >> => line' = 0 /\ unit' = 0 /\ worst' = <<0, 0>>)
    BY <1>1
  <2>3. todo' # << >> => line' <= call'.lines /\ unit' <= call'.n /\ (line' = call'.lines => unit' = 0)
    BY <1>1, <1>7
  <2>4. Buffer(side', 15) /\ (Encoding' => side' = Pad(batch'))
    BY <1>1, <1>6 DEF Control
  <2> QED
    BY <1>10, <1>11, <2>1, <2>2, <2>3, <2>4 DEF Control
<1>13. EncodeSound'
  BY <1>1, <1>5, <1>6, <1>8, <1>9 DEF EncodeSound, IInv
<1>14. DecodeSound'
  <2>1. InSide' = InSide
    BY <1>1, <1>5, <1>6, <1>8 DEF InSide
  <2>2. ~ Encoding => ((ok' /\ Within(worst')) <=> AllValid(batch, f))
    BY <1>5, <1>10, <1>11 DEF IInv, DecodeSound, Within
  <2> QED
    BY <1>1, <1>5, <1>6, <1>8, <2>1, <2>2 DEF DecodeSound, IInv, Within
<1> QED
  BY <1>12, <1>13, <1>14 DEF IInv

\* The end of the calls, and of a batch.
LEMMA RunEndStep ==
    ASSUME IInv, RunEnd
    PROVE  IInv'
<1>1. /\ Control /\ pc = "run" /\ todo = << >>
      /\ pc' = IF ~ Encoding /\ ~ RoomForSlack(batch) THEN "copy" ELSE "done"
      /\ UNCHANGED <<batch, out, side, todo, line, unit, worst, ok>>
  BY DEF IInv, RunEnd
<1>2. /\ Finished' = Finished /\ Fed' = Fed /\ Encoding' = Encoding
      /\ RoomForSlack(batch)' = RoomForSlack(batch)
  BY <1>1 DEF Finished, Fed, Encoding, RoomForSlack, call
<1>3. Control'
  <2>1. pc' \in {"run", "copy", "done"} /\ (pc' = "copy" => ~ Encoding' /\ ~ RoomForSlack(batch'))
    BY <1>1, <1>2
  <2>2. Total(batch') = Total(batch) /\ Pad(batch') = Pad(batch)
    BY <1>1
  <2> QED
    BY <1>1, <1>2, <2>1, <2>2 DEF Control
<1>4. ~ Encoding => InSide' = InSide
  BY <1>1, <1>2 DEF InSide
<1> QED
  BY <1>1, <1>2, <1>3, <1>4 DEF IInv, EncodeSound, DecodeSound

\* The last block's bytes leave their buffer for their place.
LEMMA CopyLastStep ==
    ASSUME IInv, CopyLast
    PROVE  IInv'
<1>1. /\ Control /\ pc = "copy" /\ pc' = "done"
      /\ out' = Store(out, batch.w + 13 * (Blocks - 1), [j \in 0 .. 12 |-> side[j]])
      /\ UNCHANGED <<batch, side, todo, line, unit, worst, ok>>
  BY DEF IInv, CopyLast
<1>2. Good(batch) /\ todo = << >> /\ ~ Encoding /\ ~ RoomForSlack(batch)
  BY <1>1 DEF Control
<1>3. Total(batch) \in Nat \ {0} /\ batch.op = "decode" /\ Blocks = Total(batch)
  BY <1>2, GoodIs DEF Encoding, Blocks, Total
<1>4. Finished = Total(batch) /\ Finished' = Total(batch) /\ Encoding' = Encoding
      /\ batch' = batch
  BY <1>1, <1>2 DEF Finished, Encoding
<1>5. InSide /\ ~ InSide'
  BY <1>1, <1>2, <1>4 DEF InSide
<1>6. /\ DecodedTo(batch, out, Total(batch) - 1)
      /\ HasBytes(batch, Total(batch) - 1, side)
  BY <1>2, <1>5 DEF IInv, DecodeSound
<1> DEFINE bytes == [j \in 0 .. 12 |-> side[j]]
<1>7. Buffer(bytes, 12) /\ HasBytes(batch, Total(batch) - 1, bytes)
  BY <1>6 DEF Buffer, HasBytes
<1>8. DecodedTo(batch, out', Total(batch))
  <2>1. PICK f \in 0 .. Total(batch) - 1 : f = Total(batch) - 1
    BY <1>3
  <2>2. PICK top \in {12, 15} : Buffer(bytes, top)
    BY <1>7
  <2>3. out' = Store(out, batch.w + 13 * f, bytes)
    BY <1>1, <1>3, <2>1
  <2> HIDE DEF bytes
  <2>4. DecodedTo(batch, Store(out, batch.w + 13 * f, bytes), f + 1)
    BY <1>2, <1>3, <1>6, <1>7, <2>1, <2>2, StoreBytes
  <2>5. f + 1 = Total(batch)
    BY <1>3, <2>1
  <2> QED
    BY <2>3, <2>4, <2>5
<1>9. Control'
  <2>1. Total(batch') = Total(batch) /\ Pad(batch') = Pad(batch)
    BY <1>1
  <2> QED
    BY <1>1, <1>2, <1>4, <2>1 DEF Control
<1>10. DecodeSound'
  <2>1. (ok' /\ Within(worst')) <=> AllValid(batch, Total(batch))
    BY <1>1, <1>2, <1>4 DEF IInv, DecodeSound, Within
  <2> QED
    BY <1>4, <1>5, <1>8, <2>1 DEF DecodeSound, Within
<1>11. EncodeSound'
  BY <1>2, <1>4 DEF EncodeSound
<1> QED
  BY <1>9, <1>10, <1>11 DEF IInv

\* Nothing else changes a batch.
LEMMA IdleStep ==
    ASSUME IInv, UNCHANGED vars
    PROVE  IInv'
<1>1. UNCHANGED <<batch, out, side, todo, line, unit, worst, ok, pc>>
  BY DEF vars
<1>2. /\ Finished' = Finished /\ Fed' = Fed /\ Encoding' = Encoding /\ call' = call
      /\ InSide' = InSide
  BY <1>1 DEF Finished, Fed, Encoding, RoomForSlack, call, InSide
<1>3. Control'
  BY <1>1, <1>2 DEF IInv, Control
<1> QED
  BY <1>1, <1>2, <1>3 DEF IInv, EncodeSound, DecodeSound

----------------------------------------------------------------------------
\* The calls that a batch begins with.

\* Calls s do the blocks from f up to g.
Piece(b, s, f, g) == InOrder(b, s, g) /\ From(b, s, f, g)

\* No call does no block,
LEMMA NoCalls == ASSUME NEW b, NEW f PROVE Piece(b, << >>, f, f)
BY DEF Piece, InOrder, From

\* a call in place does its own,
LEMMA OneCall ==
    ASSUME NEW b, NEW c, InPlace(b, c), NEW f, First(b, c) = f
    PROVE  Piece(b, <<c>>, f, f + Covered(c))
<1>1. c \in Calls
  BY DEF InPlace
<1>2. <<c>> \in Seq(Calls) /\ Len(<<c>>) = 1 /\ <<c>>[1] = c /\ <<c>> # << >>
  BY <1>1
<1> QED
  BY <1>2 DEF Piece, InOrder, From

\* and two pieces, one behind the other, are a piece.
LEMMA Together ==
    ASSUME NEW b, NEW s, NEW t, NEW f, NEW g, NEW h, Piece(b, s, f, g), Piece(b, t, g, h)
    PROVE  Piece(b, s \o t, f, h)
<1>1. s \in Seq(Calls) /\ t \in Seq(Calls)
  BY DEF Piece, InOrder
<1>2. PICK m \in Nat, n \in Nat : m = Len(s) /\ n = Len(t)
  BY <1>1
<1>3. /\ s \o t \in Seq(Calls) /\ Len(s \o t) = m + n
      /\ \A i \in 1 .. m : (s \o t)[i] = s[i]
      /\ \A i \in 1 .. n : (s \o t)[m + i] = t[i]
  BY <1>1, <1>2
<1>4. CASE t = << >>
  <2>1. s \o t = s
    BY <1>1, <1>4
  <2> QED
    BY <1>4, <2>1 DEF Piece, From
<1>5. CASE t # << >> /\ s = << >>
  <2>1. s \o t = t
    BY <1>1, <1>5
  <2> QED
    BY <1>5, <2>1 DEF Piece, From
<1>6. CASE t # << >> /\ s # << >>
  <2>1. m >= 1 /\ n >= 1
    BY <1>1, <1>2, <1>6
  <2>2. /\ \A i \in 1 .. m : /\ InPlace(b, s[i])
                             /\ First(b, s[i]) + Covered(s[i])
                                  = IF i = m THEN g ELSE First(b, s[i + 1])
        /\ \A i \in 1 .. n : /\ InPlace(b, t[i])
                             /\ First(b, t[i]) + Covered(t[i])
                                  = IF i = n THEN h ELSE First(b, t[i + 1])
        /\ First(b, s[1]) = f /\ First(b, t[1]) = g
    BY <1>2, <1>6 DEF Piece, InOrder, From
  <2> DEFINE u == s \o t
  <2>3. /\ Len(u) = m + n
        /\ \A i \in 1 .. m : u[i] = s[i]
        /\ \A i \in 1 .. n : u[m + i] = t[i]
    BY <1>3
  <2> HIDE DEF u
  <2>4. ASSUME NEW i \in 1 .. Len(u)
        PROVE  /\ InPlace(b, u[i])
               /\ First(b, u[i]) + Covered(u[i])
                    = IF i = Len(u) THEN h ELSE First(b, u[i + 1])
    <3>1. i \in 1 .. m + n
      BY <2>3
    <3>2. CASE i < m
      <4>1. i \in 1 .. m /\ i + 1 \in 1 .. m /\ i # m /\ i # m + n
        BY <2>1, <3>1, <3>2
      <4>2. u[i] = s[i] /\ u[i + 1] = s[i + 1]
        BY <2>3, <4>1
      <4> QED
        BY <2>2, <2>3, <4>1, <4>2
    <3>3. CASE i = m
      <4>1. i \in 1 .. m /\ 1 \in 1 .. n /\ i + 1 = m + 1 /\ i # m + n
        BY <2>1, <3>1, <3>3
      <4>2. u[i] = s[i] /\ u[i + 1] = t[1]
        BY <2>3, <4>1
      <4> QED
        BY <2>2, <2>3, <3>3, <4>1, <4>2
    <3>4. CASE i > m
      <4>1. PICK j \in 1 .. n : i = m + j
        <5>1. i - m \in 1 .. n /\ i = m + (i - m)
          BY <3>1, <3>4
        <5> QED
          BY <5>1
      <4>2. u[i] = t[j]
        BY <2>3, <4>1
      <4>3. CASE j = n
        BY <2>2, <2>3, <4>1, <4>2, <4>3
      <4>4. CASE j # n
        <5>1. j + 1 \in 1 .. n /\ i + 1 = m + (j + 1) /\ i # m + n
          BY <4>1, <4>4
        <5>2. u[i + 1] = t[j + 1]
          BY <2>3, <5>1
        <5> QED
          BY <2>2, <2>3, <4>1, <4>2, <4>4, <5>1, <5>2
      <4> QED
        BY <4>3, <4>4
    <3> QED
      BY <3>1, <3>2, <3>3, <3>4
  <2>5. First(b, u[1]) = f /\ u # << >>
    <3>1. 1 \in 1 .. m
      BY <2>1
    <3>2. u[1] = s[1]
      BY <2>3, <3>1
    <3>3. Len(u) # 0
      BY <2>1, <2>3
    <3> QED
      BY <2>2, <3>2, <3>3
  <2> QED
    BY <1>3, <2>4, <2>5 DEF Piece, InOrder, From, u
<1> QED
  BY <1>4, <1>5, <1>6

\* A call, by its bytes and its characters.
CallOf(b, k, from, to, bytes, chars, stride, n, lines, lf) ==
    IF b.op = "encode" THEN Call(k, from, bytes, to, chars, stride, n, lines, lf)
    ELSE Call(k, from, chars, to, bytes, stride, n, lines, lf)

\* A run, by its bytes and its characters.
RunOf(b, level, from, to, bytes, chars, stride, n, lines, lf) ==
    IF level = "avx2" /\ n % 2 = 1
    THEN [i \in 1 .. 2 * lines |->
            LET B == bytes + 13 * n * ((i - 1) \div 2)
                C == chars + stride * ((i - 1) \div 2)
            IN  IF i % 2 = 1
                THEN CallOf(b, "avx2", from, to, B, C, 0, n \div 2, 1, FALSE)
                ELSE CallOf(b, "sse41", from, to, B + 13 * (n - 1),
                            C + 16 * (n - 1), 0, 1, 1, lf)]
    ELSE <<CallOf(b, level, from, to, bytes, chars, stride,
                  IF level = "avx2" THEN n \div 2 ELSE n, lines, lf)>>

\* Where the bytes of an operation's call begin, and where they have to end.
Start(b) == IF b.op = "encode" THEN 0 ELSE b.w
Top(b) == IF b.op = "encode" THEN Len(b.src) ELSE b.room - b.w

\* A row of m blocks from block f on, in a line of the batch.
RowAt(b, aside, bytes, chars, f, m, lf) ==
    /\ bytes \in Nat /\ chars \in Nat /\ f \in Nat /\ m \in Nat /\ lf \in BOOLEAN
    /\ f + m <= Total(b)
    /\ \E p \in Nat, v \in 0 .. b.n - 1 :
         /\ f = b.n * p + v /\ chars = b.stride * p + 16 * v /\ v + m <= b.n
         /\ lf <=> b.lf /\ v + m = b.n
    /\ IF aside
       THEN /\ f = Total(b) - 1 /\ bytes = 0 /\ m <= 1
            /\ b.op = "decode" => ~ RoomForSlack(b)
       ELSE bytes = 13 * f + Start(b) /\ 13 * (f + m) + Slack <= Top(b)

\* Such rows in lines lines: one, or whole ones.
RunAt(b, aside, bytes, chars, stride, f, m, lines, lf) ==
    /\ bytes \in Nat /\ chars \in Nat /\ stride \in Nat /\ f \in Nat /\ m \in Nat
    /\ lines \in Nat /\ lf \in BOOLEAN
    /\ f + m * lines <= Total(b)
    /\ \E p \in Nat, v \in 0 .. b.n - 1 :
         /\ f = b.n * p + v /\ chars = b.stride * p + 16 * v /\ v + m <= b.n
         /\ lines = 1 \/ (m = b.n /\ v = 0 /\ stride = b.stride)
         /\ lf <=> b.lf /\ v + m = b.n
    /\ IF aside
       THEN /\ f = Total(b) - 1 /\ bytes = 0 /\ m <= 1 /\ lines = 1
            /\ b.op = "decode" => ~ RoomForSlack(b)
       ELSE bytes = 13 * f + Start(b) /\ 13 * (f + m * lines) + Slack <= Top(b)

\* The bytes' bounds are numbers.
LEMMA EndsAre ==
    ASSUME NEW b, Good(b)
    PROVE  Start(b) \in Nat /\ Top(b) \in Int
<1>1. b.w \in Nat /\ b.room \in Nat /\ Len(b.src) \in Nat
  BY GoodIs
<1> QED
  BY <1>1 DEF Start, Top

\* A call that does one is in place:
LEMMA CallPlaced ==
    ASSUME NEW b, Good(b), NEW k \in {"scalar", "sse41", "avx2"},
           NEW from \in {"src", "pad"}, NEW to \in {"out", "side"},
           IF b.op = "encode" THEN to = "out" ELSE from = "src",
           NEW bytes, NEW chars, NEW stride, NEW n \in Nat, NEW lines, NEW lf, NEW f, NEW m,
           m = IF k = "avx2" THEN 2 * n ELSE n,
           RunAt(b, from = "pad" \/ to = "side", bytes, chars, stride, f, m, lines, lf)
    PROVE  LET c == CallOf(b, k, from, to, bytes, chars, stride, n, lines, lf)
           IN  InPlace(b, c) /\ First(b, c) = f /\ Covered(c) = m * lines
<1> DEFINE c == CallOf(b, k, from, to, bytes, chars, stride, n, lines, lf)
<1>0. /\ bytes \in Nat /\ chars \in Nat /\ stride \in Nat /\ f \in Nat /\ m \in Nat
      /\ lines \in Nat /\ lf \in BOOLEAN
      /\ f + m * lines <= Total(b)
  BY DEF RunAt
<1>a. PICK p \in Nat, v \in 0 .. b.n - 1 :
         /\ f = b.n * p + v /\ chars = b.stride * p + 16 * v /\ v + m <= b.n
         /\ lines = 1 \/ (m = b.n /\ v = 0 /\ stride = b.stride)
         /\ lf <=> b.lf /\ v + m = b.n
  BY DEF RunAt
<1>b. IF from = "pad" \/ to = "side"
      THEN /\ f = Total(b) - 1 /\ bytes = 0 /\ m <= 1 /\ lines = 1
           /\ b.op = "decode" => ~ RoomForSlack(b)
      ELSE /\ bytes = 13 * f + (IF b.op = "encode" THEN 0 ELSE b.w)
           /\ 13 * (f + m * lines) + Slack
                <= IF b.op = "encode" THEN Len(b.src) ELSE b.room - b.w
  BY DEF RunAt, Start, Top
<1>1. /\ c \in Calls
      /\ c.kernel = k /\ c.from = from /\ c.to = to /\ c.stride = stride
      /\ c.n = n /\ c.lines = lines /\ c.lf = lf
      /\ IF b.op = "encode" THEN c.at = bytes /\ c.into = chars
         ELSE c.at = chars /\ c.into = bytes
  BY <1>0 DEF CallOf, Call, Calls
<1> HIDE DEF c
<1>2. b.n \in Nat \ {0} /\ b.w \in Nat /\ b.op \in {"encode", "decode"} /\ Total(b) \in Nat
  BY GoodIs
<1>3. CharAt(b, c) = chars
  BY <1>1 DEF CharAt
<1>4. Row(c) = m /\ Covered(c) = m * lines
  <2>1. Row(c) = m
    BY <1>0, <1>1 DEF Row, Size
  <2> QED
    BY <1>1, <2>1 DEF Covered
<1>5. Aside(c) <=> from = "pad" \/ to = "side"
  BY <1>1 DEF Aside
<1>6. First(b, c) = f /\ (~ Aside(c) => ByteAt(b, c) = 13 * f)
  <2>1. CASE Aside(c)
    BY <1>b, <1>5, <2>1 DEF First
  <2>2. CASE ~ Aside(c)
    <3>1. ByteAt(b, c) = 13 * f
      <4>1. bytes = 13 * f + (IF b.op = "encode" THEN 0 ELSE b.w)
        BY <1>b, <1>5, <2>2
      <4>2. PICK w \in Nat, x \in Nat : w = b.w /\ x = 13 * f /\ (x + w) - w = x /\ x + 0 = x
        BY <1>0, <1>2
      <4>3. CASE b.op = "encode"
        BY <1>1, <4>1, <4>2, <4>3 DEF ByteAt
      <4>4. CASE b.op # "encode"
        <5>1. c.into = x + w
          BY <1>1, <4>1, <4>2, <4>4
        <5> QED
          BY <4>2, <4>4, <5>1 DEF ByteAt
      <4> QED
        BY <4>3, <4>4
    <3>2. (13 * f) \div 13 = f
      BY ONLY <1>0
    <3> QED
      BY <2>2, <3>1, <3>2 DEF First
  <2> QED
    BY <2>1, <2>2
<1>7. f % b.n = v /\ Where(b, f) = chars
  BY <1>a, CellOf
<1>8. c \in Calls /\ IF b.op = "encode" THEN c.to = "out" ELSE c.from = "src"
  BY <1>1
<1>9. /\ First(b, c) \in Nat /\ First(b, c) + Covered(c) <= Total(b)
      /\ CharAt(b, c) = Where(b, First(b, c))
      /\ (First(b, c) % b.n) + Row(c) <= b.n
  BY <1>0, <1>a, <1>3, <1>4, <1>6, <1>7
<1>10. /\ \/ c.lines = 1
          \/ Row(c) = b.n /\ First(b, c) % b.n = 0 /\ c.stride = b.stride
       /\ c.lf <=> b.lf /\ (First(b, c) % b.n) + Row(c) = b.n
  BY <1>a, <1>1, <1>4, <1>6, <1>7
<1>11. CASE Aside(c)
  BY <1>b, <1>1, <1>2, <1>4, <1>5, <1>6, <1>8, <1>9, <1>10, <1>11 DEF InPlace, c
<1>12. CASE ~ Aside(c)
  <2>1. 13 * (First(b, c) + Covered(c)) + Slack
          <= IF b.op = "encode" THEN Len(b.src) ELSE b.room - b.w
    BY <1>b, <1>4, <1>5, <1>6, <1>12
  <2> QED
    BY <1>4, <1>6, <1>8, <1>9, <1>10, <1>12, <2>1 DEF InPlace, c
<1> QED
  BY <1>11, <1>12

\* Each of the lines has its row,
LEMMA RowIs ==
    ASSUME NEW b, Good(b), NEW aside \in BOOLEAN, NEW bytes, NEW chars, NEW stride,
           NEW f, NEW m, NEW lines, NEW lf,
           RunAt(b, aside, bytes, chars, stride, f, m, lines, lf),
           NEW t \in 0 .. lines - 1
    PROVE  RowAt(b, aside, bytes + 13 * m * t, chars + stride * t, f + m * t, m, lf)
<1>1. /\ bytes \in Nat /\ chars \in Nat /\ stride \in Nat /\ f \in Nat /\ m \in Nat
      /\ lines \in Nat /\ lf \in BOOLEAN
  BY DEF RunAt
<1>2. PICK p \in Nat, v \in 0 .. b.n - 1 :
         /\ f = b.n * p + v /\ chars = b.stride * p + 16 * v /\ v + m <= b.n
         /\ lines = 1 \/ (m = b.n /\ v = 0 /\ stride = b.stride)
         /\ lf <=> b.lf /\ v + m = b.n
  BY DEF RunAt
<1>3. b.n \in Nat \ {0} /\ b.stride \in Nat /\ Total(b) \in Nat
  BY GoodIs
<1>4. PICK z \in Nat, y \in Nat : z = m * t /\ 13 * m * t = 13 * z /\ y = stride * t
  <2>1. t \in Nat /\ m * t \in Nat /\ stride * t \in Nat
    BY <1>1
  <2>2. 13 * m * t = 13 * (m * t)
    BY <1>1, <2>1
  <2> QED
    BY <2>1, <2>2
<1>5. PICK g \in Nat : g = m * lines /\ z + m <= g
  <2>1. PICK d \in Nat : lines = t + 1 + d
    <3>1. lines - t - 1 \in Nat /\ lines = t + 1 + (lines - t - 1)
      BY <1>1
    <3> QED
      BY <3>1
  <2>2. m * lines = m * t + m + m * d /\ m * d \in Nat /\ m * t \in Nat
    BY <1>1, <2>1
  <2> QED
    BY <1>1, <1>4, <2>2
<1>6. f + g <= Total(b)
  BY <1>5 DEF RunAt
<1>7. f + z + m <= Total(b)
  BY <1>1, <1>3, <1>4, <1>5, <1>6
<1>8. \E q \in Nat, r \in 0 .. b.n - 1 :
         /\ f + z = b.n * q + r /\ chars + y = b.stride * q + 16 * r /\ r + m <= b.n
         /\ lf <=> b.lf /\ r + m = b.n
  <2>1. CASE lines = 1
    <3>1. t = 0
      BY <2>1
    <3>2. z = 0 /\ y = 0
      BY <1>1, <1>4, <3>1
    <3>3. f + z = f /\ chars + y = chars
      BY <1>1, <3>2
    <3> QED
      BY <1>2, <3>3
  <2>2. CASE lines # 1
    <3>1. m = b.n /\ v = 0 /\ stride = b.stride
      BY <1>2, <2>2
    <3>2. PICK q \in Nat : q = p + t
      BY <1>1
    <3>3. b.n * q = b.n * p + b.n * t /\ b.stride * q = b.stride * p + b.stride * t
      BY <1>3, <3>2
    <3>4. /\ b.n * p \in Nat /\ b.n * t \in Nat /\ b.n * q \in Nat
          /\ b.stride * p \in Nat /\ b.stride * t \in Nat /\ b.stride * q \in Nat
      BY <1>3, <3>2
    <3>5. z = b.n * t /\ y = b.stride * t /\ f = b.n * p /\ chars = b.stride * p
      BY <1>1, <1>2, <1>3, <1>4, <3>1, <3>4
    <3>6. f + z = b.n * q + 0 /\ chars + y = b.stride * q + 16 * 0
      BY <3>3, <3>4, <3>5
    <3>7. 0 \in 0 .. b.n - 1 /\ 0 + m = b.n /\ 0 + m <= b.n
      BY <1>3, <3>1
    <3>8. lf <=> b.lf /\ 0 + m = b.n
      BY <1>2, <3>1
    <3> QED
      BY <3>6, <3>7, <3>8
  <2> QED
    BY <2>1, <2>2
<1>9. IF aside
      THEN /\ f + z = Total(b) - 1 /\ bytes + 13 * z = 0 /\ m <= 1
           /\ b.op = "decode" => ~ RoomForSlack(b)
      ELSE bytes + 13 * z = 13 * (f + z) + Start(b) /\ 13 * (f + z + m) + Slack <= Top(b)
  <2>1. CASE aside
    <3>1. /\ f = Total(b) - 1 /\ bytes = 0 /\ m <= 1 /\ lines = 1
          /\ b.op = "decode" => ~ RoomForSlack(b)
      BY <2>1 DEF RunAt
    <3>2. t = 0
      BY <3>1
    <3>3. z = 0
      BY <1>1, <1>4, <3>2
    <3> QED
      BY <1>1, <2>1, <3>1, <3>3
  <2>2. CASE ~ aside
    <3>1. PICK s \in Nat, top \in Int : s = Start(b) /\ top = Top(b)
      BY EndsAre
    <3>2. bytes = 13 * f + s /\ 13 * (f + g) + Slack <= top
      BY <1>5, <2>2, <3>1 DEF RunAt
    <3>3. bytes + 13 * z = 13 * (f + z) + s /\ 13 * (f + z + m) + Slack <= top
      BY ONLY <1>1, <1>4, <1>5, <3>1, <3>2 DEF Slack
    <3> QED
      BY <2>2, <3>1, <3>3
  <2> QED
    BY <2>1, <2>2
<1>10. bytes + 13 * z \in Nat /\ chars + y \in Nat /\ f + z \in Nat
  BY <1>1, <1>4
<1> QED
  BY <1>1, <1>4, <1>7, <1>8, <1>9, <1>10 DEF RowAt

\* a row is two rows,
LEMMA RowSplit ==
    ASSUME NEW b, Good(b), NEW aside \in BOOLEAN, NEW bytes, NEW chars, NEW f, NEW m, NEW lf,
           RowAt(b, aside, bytes, chars, f, m, lf),
           NEW j \in Nat, j < m
    PROVE  /\ RowAt(b, aside, bytes, chars, f, j, FALSE)
           /\ RowAt(b, aside, bytes + 13 * j, chars + 16 * j, f + j, m - j, lf)
<1>1. /\ bytes \in Nat /\ chars \in Nat /\ f \in Nat /\ m \in Nat /\ lf \in BOOLEAN
      /\ f + m <= Total(b)
  BY DEF RowAt
<1>2. PICK p \in Nat, v \in 0 .. b.n - 1 :
         /\ f = b.n * p + v /\ chars = b.stride * p + 16 * v /\ v + m <= b.n
         /\ lf <=> b.lf /\ v + m = b.n
  BY DEF RowAt
<1>3. b.n \in Nat \ {0} /\ b.stride \in Nat /\ Total(b) \in Nat /\ b.lf \in BOOLEAN
  BY GoodIs
<1>4. PICK n \in Nat, a \in Nat, c \in Nat :
        n = b.n /\ a = b.n * p /\ c = b.stride * p
  <2>1. b.n * p \in Nat /\ b.stride * p \in Nat
    BY <1>3
  <2> QED
    BY <1>3, <2>1
<1>5. v \in Nat /\ v + m <= n /\ f = a + v /\ chars = c + 16 * v
  BY <1>2, <1>3, <1>4
<1>6. /\ v + j <= n /\ v + j # n /\ v + j \in 0 .. n - 1
      /\ f + j = a + (v + j) /\ chars + 16 * j = c + 16 * (v + j)
      /\ (v + j) + (m - j) = v + m
      /\ f + j <= Total(b) /\ (f + j) + (m - j) = f + m /\ m - j \in Nat
      /\ bytes + 13 * j \in Nat /\ chars + 16 * j \in Nat /\ f + j \in Nat
  BY <1>1, <1>3, <1>5
<1>7. /\ IF aside
         THEN /\ f = Total(b) - 1 /\ bytes = 0 /\ m = 1 /\ j = 0
              /\ b.op = "decode" => ~ RoomForSlack(b)
         ELSE /\ bytes = 13 * f + Start(b) /\ 13 * (f + j) + Slack <= Top(b)
              /\ bytes + 13 * j = 13 * (f + j) + Start(b)
              /\ 13 * ((f + j) + (m - j)) + Slack <= Top(b)
  <2>1. CASE aside
    <3>1. /\ f = Total(b) - 1 /\ bytes = 0 /\ m <= 1
          /\ b.op = "decode" => ~ RoomForSlack(b)
      BY <2>1 DEF RowAt
    <3>2. m = 1 /\ j = 0
      BY <1>1, <3>1
    <3> QED
      BY <2>1, <3>1, <3>2
  <2>2. CASE ~ aside
    <3>1. PICK s \in Nat, top \in Int : s = Start(b) /\ top = Top(b)
      BY EndsAre
    <3>2. bytes = 13 * f + s /\ 13 * (f + m) + Slack <= top
      BY <2>2, <3>1 DEF RowAt
    <3>3. 13 * (f + j) + Slack <= top /\ bytes + 13 * j = 13 * (f + j) + s
      BY <1>1, <3>1, <3>2 DEF Slack
    <3> QED
      BY <1>6, <2>2, <3>1, <3>2, <3>3
  <2> QED
    BY <2>1, <2>2
<1>8. RowAt(b, aside, bytes, chars, f, j, FALSE)
  <2>1. \E q \in Nat, r \in 0 .. b.n - 1 :
         /\ f = b.n * q + r /\ chars = b.stride * q + 16 * r /\ r + j <= b.n
         /\ FALSE <=> b.lf /\ r + j = b.n
    BY <1>2, <1>4, <1>6
  <2> QED
    BY <1>1, <1>6, <1>7, <2>1 DEF RowAt
<1>9. RowAt(b, aside, bytes + 13 * j, chars + 16 * j, f + j, m - j, lf)
  <2>1. \E q \in Nat, r \in 0 .. b.n - 1 :
         /\ f + j = b.n * q + r /\ chars + 16 * j = b.stride * q + 16 * r
         /\ r + (m - j) <= b.n
         /\ lf <=> b.lf /\ r + (m - j) = b.n
    <3>1. PICK r \in 0 .. b.n - 1 : r = v + j
      BY <1>4, <1>6
    <3> QED
      BY <1>2, <1>4, <1>6, <3>1
  <2>2. aside => /\ f + j = Total(b) - 1 /\ bytes + 13 * j = 0 /\ m - j <= 1
                 /\ b.op = "decode" => ~ RoomForSlack(b)
    BY <1>3, <1>7
  <2> QED
    BY <1>1, <1>6, <1>7, <2>1, <2>2 DEF RowAt
<1> QED
  BY <1>8, <1>9

\* and a call that does one is in place.
LEMMA RowCall ==
    ASSUME NEW b, Good(b), NEW k \in {"scalar", "sse41", "avx2"},
           NEW from \in {"src", "pad"}, NEW to \in {"out", "side"},
           IF b.op = "encode" THEN to = "out" ELSE from = "src",
           NEW bytes, NEW chars, NEW f, NEW m, NEW lf,
           RowAt(b, from = "pad" \/ to = "side", bytes, chars, f, m, lf),
           NEW n \in Nat, m = IF k = "avx2" THEN 2 * n ELSE n
    PROVE  LET c == CallOf(b, k, from, to, bytes, chars, 0, n, 1, lf)
           IN  InPlace(b, c) /\ First(b, c) = f /\ Covered(c) = m
<1>1. /\ bytes \in Nat /\ chars \in Nat /\ f \in Nat /\ m \in Nat /\ lf \in BOOLEAN
      /\ f + m <= Total(b)
  BY DEF RowAt
<1>2. PICK p \in Nat, v \in 0 .. b.n - 1 :
         /\ f = b.n * p + v /\ chars = b.stride * p + 16 * v /\ v + m <= b.n
         /\ lf <=> b.lf /\ v + m = b.n
  BY DEF RowAt
<1>3. PICK one \in Nat, no \in Nat : one = 1 /\ no = 0 /\ m * one = m
  BY <1>1
<1>4. RunAt(b, from = "pad" \/ to = "side", bytes, chars, no, f, m, one, lf)
  <2>1. \E q \in Nat, r \in 0 .. b.n - 1 :
         /\ f = b.n * q + r /\ chars = b.stride * q + 16 * r /\ r + m <= b.n
         /\ one = 1 \/ (m = b.n /\ r = 0 /\ no = b.stride)
         /\ lf <=> b.lf /\ r + m = b.n
    BY <1>2, <1>3
  <2>2. f + m * one = f + m
    BY <1>3
  <2> QED
    BY <1>1, <1>3, <2>1, <2>2 DEF RunAt, RowAt
<1> DEFINE c == CallOf(b, k, from, to, bytes, chars, no, n, one, lf)
<1>5. InPlace(b, c) /\ First(b, c) = f /\ Covered(c) = m * one
  BY <1>4, CallPlaced
<1> QED
  BY <1>3, <1>5

\* A run does what a call of one block at a time would do.
LEMMA RunIs ==
    ASSUME NEW b, Good(b), NEW level \in {"scalar", "sse41", "avx2"},
           NEW from \in {"src", "pad"}, NEW to \in {"out", "side"},
           IF b.op = "encode" THEN to = "out" ELSE from = "src",
           NEW bytes, NEW chars, NEW stride, NEW f, NEW m, NEW lines, NEW lf,
           RunAt(b, from = "pad" \/ to = "side", bytes, chars, stride, f, m, lines, lf)
    PROVE  Piece(b, RunOf(b, level, from, to, bytes, chars, stride, m, lines, lf),
                 f, f + m * lines)
<1> DEFINE run == RunOf(b, level, from, to, bytes, chars, stride, m, lines, lf)
           aside == from = "pad" \/ to = "side"
<1>1. /\ bytes \in Nat /\ chars \in Nat /\ stride \in Nat /\ f \in Nat /\ m \in Nat
      /\ lines \in Nat /\ lf \in BOOLEAN
      /\ f + m * lines <= Total(b)
  BY DEF RunAt
<1>2. CASE ~ (level = "avx2" /\ m % 2 = 1)
  <2>1. PICK n \in Nat : /\ n = IF level = "avx2" THEN m \div 2 ELSE m
                         /\ m = IF level = "avx2" THEN 2 * n ELSE n
    <3>1. CASE level = "avx2"
      <4>1. m % 2 = 0 /\ m \div 2 \in Nat /\ m = 2 * (m \div 2)
        BY ONLY <1>1, <1>2, <3>1
      <4> QED
        BY <3>1, <4>1
    <3> QED
      BY <1>1, <3>1
  <2> DEFINE c == CallOf(b, level, from, to, bytes, chars, stride, n, lines, lf)
  <2>2. InPlace(b, c) /\ First(b, c) = f /\ Covered(c) = m * lines
    BY <2>1, CallPlaced
  <2>3. run = <<c>>
    BY <1>2, <2>1 DEF RunOf
  <2> HIDE DEF c, run
  <2>4. Piece(b, <<c>>, f, f + Covered(c))
    BY <2>2, OneCall
  <2> QED
    BY <2>2, <2>3, <2>4 DEF run
<1>3. CASE level = "avx2" /\ m % 2 = 1
  <2>1. PICK h \in Nat : m = 2 * h + 1 /\ m \div 2 = h
    BY ONLY <1>1, <1>3
  <2> DEFINE B(t) == bytes + 13 * m * t
             C(t) == chars + stride * t
             even(t) == CallOf(b, "avx2", from, to, B(t), C(t), 0, h, 1, FALSE)
             last(t) == CallOf(b, "sse41", from, to, B(t) + 13 * (m - 1),
                               C(t) + 16 * (m - 1), 0, 1, 1, lf)
  <2>2. ASSUME NEW t \in 0 .. lines - 1
        PROVE  /\ InPlace(b, even(t)) /\ First(b, even(t)) = f + m * t
               /\ Covered(even(t)) = 2 * h
               /\ InPlace(b, last(t)) /\ First(b, last(t)) = f + m * t + 2 * h
               /\ Covered(last(t)) = 1
    <3>1. RowAt(b, aside, B(t), C(t), f + m * t, m, lf)
      BY RowIs
    <3>2. PICK x, y, a : x = C(t) /\ y = B(t) /\ a = f + m * t
      OBVIOUS
    <3>3. PICK j \in Nat : j = 2 * h /\ j < m /\ m - j = 1 /\ m - 1 = j
      BY <2>1
    <3> HIDE DEF B, C, aside
    <3>4. RowAt(b, aside, y, x, a, m, lf) /\ aside \in BOOLEAN
      BY <3>1, <3>2 DEF aside
    <3>5. /\ RowAt(b, aside, y, x, a, j, FALSE)
          /\ RowAt(b, aside, y + 13 * j, x + 16 * j, a + j, m - j, lf)
      BY <3>3, <3>4, RowSplit
    <3>6. /\ InPlace(b, even(t)) /\ First(b, even(t)) = a /\ Covered(even(t)) = j
      <4>1. PICK k \in {"scalar", "sse41", "avx2"} : k = "avx2"
        OBVIOUS
      <4>2. j = IF k = "avx2" THEN 2 * h ELSE h
        BY <3>3, <4>1
      <4>a. PICK no \in BOOLEAN : no = FALSE
        OBVIOUS
      <4> DEFINE c == CallOf(b, k, from, to, y, x, 0, h, 1, no)
      <4>3. InPlace(b, c) /\ First(b, c) = a /\ Covered(c) = j
        <5>1. RowAt(b, from = "pad" \/ to = "side", y, x, a, j, no)
          BY <3>5, <4>a DEF aside
        <5> QED
          BY <4>2, <5>1, RowCall
      <4>4. even(t) = c
        BY <3>2, <4>a, <4>1
      <4> QED
        BY <4>3, <4>4
    <3>7. /\ InPlace(b, last(t)) /\ First(b, last(t)) = a + j /\ Covered(last(t)) = 1
      <4>a. PICK y2, x2, a2 : y2 = y + 13 * j /\ x2 = x + 16 * j /\ a2 = a + j
        OBVIOUS
      <4>1. PICK k \in {"scalar", "sse41", "avx2"}, n \in Nat : k = "sse41" /\ n = 1
        OBVIOUS
      <4>2. n = IF k = "avx2" THEN 2 * n ELSE n
        BY <4>1
      <4>3. RowAt(b, aside, y2, x2, a2, n, lf)
        BY <3>3, <3>5, <4>a, <4>1
      <4> DEFINE c == CallOf(b, k, from, to, y2, x2, 0, n, 1, lf)
      <4>4. InPlace(b, c) /\ First(b, c) = a2 /\ Covered(c) = n
        BY <4>2, <4>3, RowCall DEF aside
      <4>5. last(t) = c
        BY <3>2, <3>3, <4>a, <4>1
      <4> QED
        BY <4>a, <4>1, <4>4, <4>5
    <3> QED
      BY <3>2, <3>3, <3>6, <3>7
  <2> USE <1>1
  <2>3. run = [i \in 1 .. 2 * lines |->
                  IF i % 2 = 1 THEN even((i - 1) \div 2) ELSE last((i - 1) \div 2)]
    BY <1>3, <2>1 DEF RunOf
  <2> HIDE DEF even, last, run
  <2>4. ASSUME NEW i \in 1 .. 2 * lines
        PROVE  \E t \in 0 .. lines - 1 :
                 \/ i = 2 * t + 1 /\ run[i] = even(t)
                 \/ i = 2 * t + 2 /\ run[i] = last(t)
    <3>1. PICK t \in 0 .. lines - 1 :
            /\ (i - 1) \div 2 = t
            /\ (i = 2 * t + 1 /\ i % 2 = 1) \/ (i = 2 * t + 2 /\ i % 2 = 0)
      <4>1. (i - 1) \div 2 \in 0 .. lines - 1
        OBVIOUS
      <4>2. PICK t \in 0 .. lines - 1 : t = (i - 1) \div 2
        BY <4>1
      <4> QED
        BY <4>2
    <3>2. run[i] = IF i % 2 = 1 THEN even(t) ELSE last(t)
      BY <2>3, <3>1
    <3> QED
      BY <3>1, <3>2
  <2>5. run \in Seq(Calls) /\ Len(run) = 2 * lines
    <3>1. \A i \in 1 .. 2 * lines : run[i] \in Calls
      BY <2>2, <2>4 DEF InPlace
    <3>2. PICK n \in Nat : n = 2 * lines
      OBVIOUS
    <3>3. DOMAIN run = 1 .. n /\ run = [i \in 1 .. n |-> run[i]]
      BY <2>3, <3>2
    <3>4. run \in [1 .. n -> Calls]
      BY <3>1, <3>2, <3>3
    <3> QED
      BY ONLY <3>2, <3>4
  <2>6. CASE lines = 0
    <3>1. run = << >>
      <4>1. run \in Seq(Calls) /\ Len(run) = 0
        BY <2>5, <2>6
      <4> QED
        BY ONLY <4>1
    <3>2. f + m * lines = f
      BY <2>6
    <3> QED
      BY <3>1, <3>2, NoCalls DEF run
  <2>7. CASE lines # 0
    <3>1. ASSUME NEW i \in 1 .. Len(run)
          PROVE  /\ InPlace(b, run[i])
                 /\ First(b, run[i]) + Covered(run[i])
                      = IF i = Len(run) THEN f + m * lines ELSE First(b, run[i + 1])
      <4>1. PICK t \in 0 .. lines - 1 : \/ i = 2 * t + 1 /\ run[i] = even(t)
                                        \/ i = 2 * t + 2 /\ run[i] = last(t)
        BY <2>4, <2>5
      <4>2. m * t \in Nat
        OBVIOUS
      <4>3. CASE i = 2 * t + 1 /\ run[i] = even(t)
        <5>1. i + 1 = 2 * t + 2 /\ i + 1 \in 1 .. 2 * lines /\ i # 2 * lines
          BY <4>3
        <5>2. PICK u \in 0 .. lines - 1 : \/ i + 1 = 2 * u + 1 /\ run[i + 1] = even(u)
                                          \/ i + 1 = 2 * u + 2 /\ run[i + 1] = last(u)
          BY <2>4, <5>1
        <5>3. u = t /\ run[i + 1] = last(t)
          BY <5>1, <5>2
        <5> QED
          BY <2>2, <2>5, <4>2, <4>3, <5>1, <5>3
      <4>4. CASE i = 2 * t + 2 /\ run[i] = last(t)
        <5>1. First(b, run[i]) + Covered(run[i]) = f + m * t + m
          BY <2>1, <2>2, <4>2, <4>4
        <5>2. CASE t = lines - 1
          <6>1. i = 2 * lines
            BY <4>4, <5>2
          <6>2. m * lines = m * t + m
            BY <5>2
          <6>3. f + m * lines = f + m * t + m
            BY <4>2, <6>2
          <6>4. i = Len(run)
            BY <2>5, <6>1
          <6>5. InPlace(b, run[i])
            BY <2>2, <4>4
          <6>6. First(b, run[i]) + Covered(run[i]) = f + m * lines
            BY <5>1, <6>3
          <6> QED
            BY ONLY <6>4, <6>5, <6>6
        <5>3. CASE t # lines - 1
          <6>1. i + 1 = 2 * (t + 1) + 1 /\ i + 1 \in 1 .. 2 * lines /\ i # 2 * lines
                /\ t + 1 \in 0 .. lines - 1
            BY <4>4, <5>3
          <6>2. PICK u \in 0 .. lines - 1 : \/ i + 1 = 2 * u + 1 /\ run[i + 1] = even(u)
                                            \/ i + 1 = 2 * u + 2 /\ run[i + 1] = last(u)
            BY <2>4, <6>1
          <6>3. u = t + 1 /\ run[i + 1] = even(t + 1)
            BY <6>1, <6>2
          <6>4. First(b, even(t + 1)) = f + m * (t + 1)
            BY <2>2, <6>1
          <6>5. m * (t + 1) = m * t + m
            OBVIOUS
          <6> QED
            BY <2>2, <2>5, <4>2, <4>4, <5>1, <6>1, <6>3, <6>4, <6>5
        <5> QED
          BY <5>2, <5>3
      <4> QED
        BY <4>1, <4>3, <4>4
    <3>2. run # << >> /\ First(b, run[1]) = f
      <4>1. 1 \in 1 .. 2 * lines /\ Len(run) # 0
        BY <2>5, <2>7
      <4>2. PICK t \in 0 .. lines - 1 : \/ 1 = 2 * t + 1 /\ run[1] = even(t)
                                        \/ 1 = 2 * t + 2 /\ run[1] = last(t)
        BY <2>4, <4>1
      <4>3. t = 0 /\ run[1] = even(t) /\ m * t = 0
        BY <4>2
      <4>4. First(b, even(t)) = f + m * t
        BY <2>2
      <4> QED
        BY <4>1, <4>3, <4>4
    <3> QED
      BY <2>5, <3>1, <3>2 DEF Piece, InOrder, From, run
  <2> QED
    BY <2>6, <2>7
<1> QED
  BY <1>2, <1>3

\* The parts of a batch: all of it, when three bytes are behind its last block;
\* else the lines before the last, the blocks before the last, and the last.
LEMMA BatchRuns ==
    ASSUME NEW b, Good(b), NEW level \in {"scalar", "sse41", "avx2"},
           NEW from \in {"src", "pad"}, NEW to \in {"out", "side"},
           IF b.op = "encode" THEN from = "pad" /\ to = "out"
           ELSE from = "src" /\ to = "side",
           NEW done, done = Start(b) + 13 * b.n * (b.lines - 1),
           NEW last, last = b.stride * (b.lines - 1)
    PROVE  IF 13 * Total(b) + Slack <= Top(b)
           THEN Piece(b, RunOf(b, level, "src", "out", Start(b), 0, b.stride,
                               b.n, b.lines, b.lf), 0, Total(b))
           ELSE b.op = "encode" \/ ~ RoomForSlack(b) =>
                  Piece(b, RunOf(b, level, "src", "out", Start(b), 0, b.stride,
                                 b.n, b.lines - 1, b.lf)
                           \o RunOf(b, level, "src", "out", done, last, 0,
                                    b.n - 1, 1, FALSE)
                           \o RunOf(b, level, from, to, 0, last + 16 * (b.n - 1), 0,
                                    1, 1, b.lf), 0, Total(b))
<1>1. /\ b.n \in Nat \ {0} /\ b.lines \in Nat \ {0} /\ b.stride \in Nat
      /\ b.lf \in BOOLEAN /\ Total(b) \in Nat \ {0} /\ b.op \in {"encode", "decode"}
  BY GoodIs
<1>2. PICK s \in Nat, top \in Int : s = Start(b) /\ top = Top(b) /\ 13 * Total(b) <= top
  <2>1. b.op = "encode" => 13 * Total(b) <= Top(b)
    BY <1>1 DEF Good, Top
  <2>2. b.op = "decode" => 13 * Total(b) <= Top(b)
    <3>1. b.room \in Nat /\ b.w \in Nat
      BY GoodIs
    <3>2. b.op = "decode" => b.room >= b.w + 13 * Total(b)
      BY DEF Good
    <3> QED
      BY <1>1, <3>1, <3>2 DEF Top
  <2> QED
    BY <1>1, <2>1, <2>2, EndsAre
<1>3. PICK q \in Nat : /\ q = b.n * (b.lines - 1) /\ Total(b) = q + b.n
                       /\ done = s + 13 * q
  <2>1. PICK m \in Nat : m = b.lines - 1 /\ b.lines = m + 1
    BY <1>1
  <2>2. b.n * b.lines = b.n * m + b.n /\ b.n * m \in Nat
    BY <1>1, <2>1
  <2>3. 13 * b.n * m = 13 * (b.n * m)
    BY <1>1, <2>1
  <2> QED
    BY <1>2, <2>1, <2>2, <2>3 DEF Total
<1>4. last \in Nat
  BY <1>1
<1>5. PICK no \in Nat, one \in Nat, false \in BOOLEAN :
        no = 0 /\ one = 1 /\ false = FALSE
  OBVIOUS
<1>6. PICK m \in Nat, k \in Nat : m = b.lines - 1 /\ k = b.n - 1
  BY <1>1
<1>7. /\ IF b.op = "encode" THEN to = "out" ELSE from = "src"
      /\ IF b.op = "encode" THEN "out" = "out" ELSE "src" = "src"
      /\ (from = "pad" \/ to = "side") = TRUE /\ ("src" = "pad" \/ "out" = "side") = FALSE
  BY <1>1
<1>a. PICK aside \in BOOLEAN, beside \in BOOLEAN, src \in {"src", "pad"}, out1 \in {"out", "side"} :
        /\ aside = TRUE /\ beside = FALSE /\ src = "src" /\ out1 = "out"
        /\ aside = (from = "pad" \/ to = "side") /\ beside = (src = "pad" \/ out1 = "side")
  BY <1>7
<1>8. CASE 13 * Total(b) + Slack <= Top(b)
  <2>1. RunAt(b, beside, s, no, b.stride, no, b.n, b.lines, b.lf)
    <3>1. \E p \in Nat, v \in 0 .. b.n - 1 :
            /\ no = b.n * p + v /\ no = b.stride * p + 16 * v /\ v + b.n <= b.n
            /\ b.lines = 1 \/ (b.n = b.n /\ v = 0 /\ b.stride = b.stride)
            /\ b.lf <=> b.lf /\ v + b.n = b.n
      <4>1. 0 \in Nat /\ 0 \in 0 .. b.n - 1
        BY <1>1
      <4>2. no = b.n * 0 + 0 /\ no = b.stride * 0 + 16 * 0 /\ 0 + b.n = b.n
        BY <1>1, <1>5
      <4> QED
        BY <1>1, <4>1, <4>2
    <3>2. no + b.n * b.lines = Total(b) /\ s = 13 * no + s
      BY <1>1, <1>2, <1>5 DEF Total
    <3>3. 13 * (no + b.n * b.lines) + Slack <= Top(b) /\ s = 13 * no + Start(b)
      BY <1>2, <1>8, <3>2
    <3>a. ~ beside
      BY <1>a
    <3>b. Total(b) <= Total(b)
      BY <1>1
    <3>c. no + b.n * b.lines <= Total(b)
      BY <3>2, <3>b
    <3>4. ~ beside /\ no + b.n * b.lines <= Total(b)
      BY <3>a, <3>c
    <3>5. no \in Nat /\ s \in Nat /\ b.n \in Nat /\ b.lines \in Nat /\ b.stride \in Nat
          /\ b.lf \in BOOLEAN
      BY <1>1
    <3> QED
      BY ONLY <3>1, <3>3, <3>4, <3>5 DEF RunAt
  <2>2. Piece(b, RunOf(b, level, src, out1, s, no, b.stride, b.n, b.lines, b.lf),
              no, no + b.n * b.lines)
    <3>1. RunAt(b, src = "pad" \/ out1 = "side", s, no, b.stride, no, b.n, b.lines, b.lf)
      BY <1>a, <2>1
    <3>2. IF b.op = "encode" THEN out1 = "out" ELSE src = "src"
      BY <1>a
    <3> QED
      BY <3>1, <3>2, RunIs
  <2>3. no + b.n * b.lines = Total(b)
    BY <1>1, <1>5 DEF Total
  <2> QED
    BY <1>2, <1>5, <1>8, <1>a, <2>2, <2>3
<1>9. CASE ~ (13 * Total(b) + Slack <= Top(b)) /\ (b.op = "encode" \/ ~ RoomForSlack(b))
  <2> DEFINE A == RunOf(b, level, src, out1, s, no, b.stride, b.n, m, b.lf)
             B == RunOf(b, level, src, out1, done, last, no, k, one, false)
             C == RunOf(b, level, from, to, no, last + 16 * k, no, one, one, b.lf)
  <2>0. IF b.op = "encode" THEN out1 = "out" ELSE src = "src"
    BY <1>a
  <2>1. Piece(b, A, no, q)
    <3>1. \E p \in Nat, v \in 0 .. b.n - 1 :
            /\ no = b.n * p + v /\ no = b.stride * p + 16 * v /\ v + b.n <= b.n
            /\ m = 1 \/ (b.n = b.n /\ v = 0 /\ b.stride = b.stride)
            /\ b.lf <=> b.lf /\ v + b.n = b.n
      <4>1. 0 \in Nat /\ 0 \in 0 .. b.n - 1
        BY <1>1
      <4>2. no = b.n * 0 + 0 /\ no = b.stride * 0 + 16 * 0 /\ 0 + b.n = b.n
        BY <1>1, <1>5
      <4> QED
        BY <1>1, <4>1, <4>2
    <3>2. /\ no + b.n * m = q /\ s = 13 * no + s /\ q <= Total(b)
          /\ 13 * q + Slack <= top
      BY <1>1, <1>2, <1>3, <1>5, <1>6 DEF Slack
    <3>3. RunAt(b, beside, s, no, b.stride, no, b.n, m, b.lf)
      BY <1>1, <1>2, <1>5, <1>a, <3>1, <3>2 DEF RunAt
    <3>4. RunAt(b, src = "pad" \/ out1 = "side", s, no, b.stride, no, b.n, m, b.lf)
      BY <1>a, <3>3
    <3>5. Piece(b, A, no, no + b.n * m)
      BY <2>0, <3>4, RunIs
    <3> QED
      BY <3>2, <3>5
  <2>2. Piece(b, B, q, q + k)
    <3>1. \E p \in Nat, v \in 0 .. b.n - 1 :
            /\ q = b.n * p + v /\ last = b.stride * p + 16 * v /\ v + k <= b.n
            /\ one = 1 \/ (k = b.n /\ v = 0 /\ no = b.stride)
            /\ false <=> b.lf /\ v + k = b.n
      <4>1. 0 \in 0 .. b.n - 1
        BY <1>1
      <4>2. q = b.n * m + 0 /\ last = b.stride * m + 16 * 0 /\ 0 + k <= b.n /\ 0 + k # b.n
        BY <1>1, <1>3, <1>4, <1>6
      <4> QED
        BY <1>5, <4>1, <4>2
    <3>2. /\ q + k * one = q + k /\ done = 13 * q + s /\ q + k <= Total(b)
          /\ 13 * (q + k) + Slack <= top
      BY <1>1, <1>2, <1>3, <1>5, <1>6 DEF Slack
    <3>3. done \in Nat
      BY <1>2, <1>3
    <3>4. RunAt(b, beside, done, last, no, q, k, one, false)
      BY <1>1, <1>2, <1>4, <1>5, <1>a, <3>1, <3>2, <3>3 DEF RunAt
    <3>5. RunAt(b, src = "pad" \/ out1 = "side", done, last, no, q, k, one, false)
      BY <1>a, <3>4
    <3>6. Piece(b, B, q, q + k * one)
      BY <2>0, <3>5, RunIs, ZenonT(60)
    <3> QED
      BY <3>2, <3>6
  <2>3. Piece(b, C, q + k, Total(b))
    <3>1. \E p \in Nat, v \in 0 .. b.n - 1 :
            /\ q + k = b.n * p + v /\ last + 16 * k = b.stride * p + 16 * v
            /\ v + one <= b.n
            /\ one = 1 \/ (one = b.n /\ v = 0 /\ no = b.stride)
            /\ b.lf <=> b.lf /\ v + one = b.n
      <4>1. k \in 0 .. b.n - 1
        BY <1>1, <1>6
      <4>2. q + k = b.n * m + k /\ last + 16 * k = b.stride * m + 16 * k
            /\ k + one = b.n /\ k + one <= b.n
        BY <1>1, <1>3, <1>5, <1>6
      <4> QED
        BY <1>5, <4>1, <4>2
    <3>2. PICK f \in Nat, x \in Nat : f = q + k /\ x = last + 16 * k
      BY ONLY <1>3, <1>4, <1>6
    <3>3. /\ f = Total(b) - 1 /\ f + one * one = Total(b) /\ one <= 1
      BY <1>1, <1>3, <1>5, <1>6, <3>2
    <3>4. b.op = "decode" => ~ RoomForSlack(b)
      BY <1>9
    <3>5. RunAt(b, aside, no, x, no, f, one, one, b.lf)
      BY <1>1, <1>5, <1>a, <3>1, <3>2, <3>3, <3>4 DEF RunAt
    <3>6. RunAt(b, from = "pad" \/ to = "side", no, x, no, f, one, one, b.lf)
      BY <1>a, <3>5
    <3>7. Piece(b, C, f, f + one * one)
      BY <1>7, <3>2, <3>6, RunIs
    <3> QED
      BY <3>2, <3>3, <3>7
  <2>4. Piece(b, A \o B \o C, no, Total(b))
    <3> HIDE DEF A, B, C
    <3>1. Piece(b, A \o B, no, q + k)
      BY <2>1, <2>2, Together
    <3> QED
      BY <2>3, <3>1, Together
  <2> QED
    BY <1>2, <1>5, <1>6, <1>9, <1>a, <2>4
<1> QED
  BY <1>8, <1>9

\* The calls of encode_blocks, and of
LEMMA EncodeCallsAre ==
    ASSUME NEW b, Good(b), b.op = "encode"
    PROVE  Piece(b, EncodeCalls(b), 0, Total(b))
<1>1. b.level \in {"scalar", "sse41", "avx2"}
  BY DEF Good
<1>2. b.n \in Nat /\ b.lines \in Nat /\ Len(b.src) \in Nat /\ Total(b) \in Nat
  BY GoodIs
<1>3. PICK last, done : /\ last = b.stride * (b.lines - 1)
                        /\ done = Start(b) + 13 * b.n * (b.lines - 1)
  OBVIOUS
<1>4. 13 * b.n * (b.lines - 1) = done /\ Start(b) = 0
  <2>1. 13 * b.n * (b.lines - 1) \in Int
    BY <1>2
  <2> QED
    BY <1>3, <2>1 DEF Start
<1>5. (13 * Total(b) + Slack <= Top(b)) <=> (Len(b.src) >= 13 * b.n * b.lines + Slack)
  <2>1. 13 * b.n * b.lines = 13 * Total(b)
    BY <1>2 DEF Total
  <2> QED
    BY <1>2, <2>1 DEF Top, Slack
<1>6. PICK from \in {"src", "pad"}, to \in {"out", "side"} : from = "pad" /\ to = "out"
  OBVIOUS
<1>7. IF 13 * Total(b) + Slack <= Top(b)
      THEN Piece(b, RunOf(b, b.level, "src", "out", Start(b), 0, b.stride,
                          b.n, b.lines, b.lf), 0, Total(b))
      ELSE b.op = "encode" \/ ~ RoomForSlack(b) =>
             Piece(b, RunOf(b, b.level, "src", "out", Start(b), 0, b.stride,
                            b.n, b.lines - 1, b.lf)
                      \o RunOf(b, b.level, "src", "out", done, last, 0,
                               b.n - 1, 1, FALSE)
                      \o RunOf(b, b.level, from, to, 0, last + 16 * (b.n - 1), 0,
                               1, 1, b.lf), 0, Total(b))
  BY <1>1, <1>3, <1>6, BatchRuns
<1>8. EncodeCalls(b) =
        IF 13 * Total(b) + Slack <= Top(b)
        THEN RunOf(b, b.level, "src", "out", Start(b), 0, b.stride, b.n, b.lines, b.lf)
        ELSE RunOf(b, b.level, "src", "out", Start(b), 0, b.stride, b.n, b.lines - 1, b.lf)
             \o RunOf(b, b.level, "src", "out", done, last, 0, b.n - 1, 1, FALSE)
             \o RunOf(b, b.level, from, to, 0, last + 16 * (b.n - 1), 0, 1, 1, b.lf)
  <2>1. /\ EncodeRun(b.level, "src", 0, 0, b.stride, b.n, b.lines, b.lf)
             = RunOf(b, b.level, "src", "out", Start(b), 0, b.stride, b.n, b.lines, b.lf)
        /\ EncodeRun(b.level, "src", 0, 0, b.stride, b.n, b.lines - 1, b.lf)
             = RunOf(b, b.level, "src", "out", Start(b), 0, b.stride, b.n, b.lines - 1, b.lf)
    BY <1>4 DEF EncodeRun, RunOf, CallOf
  <2>2. EncodeRun(b.level, "src", done, last, 0, b.n - 1, 1, FALSE)
          = RunOf(b, b.level, "src", "out", done, last, 0, b.n - 1, 1, FALSE)
    BY DEF EncodeRun, RunOf, CallOf
  <2>3. EncodeRun(b.level, "pad", 0, last + 16 * (b.n - 1), 0, 1, 1, b.lf)
          = RunOf(b, b.level, from, to, 0, last + 16 * (b.n - 1), 0, 1, 1, b.lf)
    BY <1>6 DEF EncodeRun, RunOf, CallOf
  <2>4. EncodeCalls(b) =
          IF Len(b.src) >= 13 * b.n * b.lines + Slack
          THEN EncodeRun(b.level, "src", 0, 0, b.stride, b.n, b.lines, b.lf)
          ELSE EncodeRun(b.level, "src", 0, 0, b.stride, b.n, b.lines - 1, b.lf)
               \o EncodeRun(b.level, "src", done, last, 0, b.n - 1, 1, FALSE)
               \o EncodeRun(b.level, "pad", 0, last + 16 * (b.n - 1), 0, 1, 1, b.lf)
    BY <1>3, <1>4 DEF EncodeCalls
  <2> QED
    BY <1>5, <2>1, <2>2, <2>3, <2>4
<1> QED
  BY <1>7, <1>8

\* decode_blocks, do every block once, in order.
LEMMA DecodeCallsAre ==
    ASSUME NEW b, Good(b), b.op = "decode"
    PROVE  Piece(b, DecodeCalls(b), 0, Total(b))
<1>1. b.level \in {"scalar", "sse41", "avx2"} /\ b.lf = FALSE
  BY GoodIs DEF Good
<1>2. b.n \in Nat /\ b.lines \in Nat /\ b.room \in Nat /\ b.w \in Nat /\ Total(b) \in Nat
  BY GoodIs
<1>3. PICK last, done : /\ last = b.stride * (b.lines - 1)
                        /\ done = Start(b) + 13 * b.n * (b.lines - 1)
  OBVIOUS
<1>4. b.w + 13 * b.n * (b.lines - 1) = done /\ Start(b) = b.w
  BY <1>3 DEF Start
<1>5. (13 * Total(b) + Slack <= Top(b)) <=> RoomForSlack(b)
  <2>1. 13 * b.n * b.lines = 13 * Total(b)
    BY <1>2 DEF Total
  <2> QED
    BY <1>2, <2>1 DEF Top, Slack, RoomForSlack
<1>6. PICK from \in {"src", "pad"}, to \in {"out", "side"} : from = "src" /\ to = "side"
  OBVIOUS
<1>7. IF 13 * Total(b) + Slack <= Top(b)
      THEN Piece(b, RunOf(b, b.level, "src", "out", Start(b), 0, b.stride,
                          b.n, b.lines, b.lf), 0, Total(b))
      ELSE b.op = "encode" \/ ~ RoomForSlack(b) =>
             Piece(b, RunOf(b, b.level, "src", "out", Start(b), 0, b.stride,
                            b.n, b.lines - 1, b.lf)
                      \o RunOf(b, b.level, "src", "out", done, last, 0,
                               b.n - 1, 1, FALSE)
                      \o RunOf(b, b.level, from, to, 0, last + 16 * (b.n - 1), 0,
                               1, 1, b.lf), 0, Total(b))
  BY <1>1, <1>3, <1>6, BatchRuns
<1>8. DecodeCalls(b) =
        IF 13 * Total(b) + Slack <= Top(b)
        THEN RunOf(b, b.level, "src", "out", Start(b), 0, b.stride, b.n, b.lines, b.lf)
        ELSE RunOf(b, b.level, "src", "out", Start(b), 0, b.stride, b.n, b.lines - 1, b.lf)
             \o RunOf(b, b.level, "src", "out", done, last, 0, b.n - 1, 1, FALSE)
             \o RunOf(b, b.level, from, to, 0, last + 16 * (b.n - 1), 0, 1, 1, b.lf)
  <2>1. /\ DecodeRun(b.level, 0, b.stride, "out", b.w, b.n, b.lines)
             = RunOf(b, b.level, "src", "out", Start(b), 0, b.stride, b.n, b.lines, b.lf)
        /\ DecodeRun(b.level, 0, b.stride, "out", b.w, b.n, b.lines - 1)
             = RunOf(b, b.level, "src", "out", Start(b), 0, b.stride, b.n, b.lines - 1, b.lf)
    BY <1>1, <1>4 DEF DecodeRun, RunOf, CallOf
  <2>2. DecodeRun(b.level, last, 0, "out", done, b.n - 1, 1)
          = RunOf(b, b.level, "src", "out", done, last, 0, b.n - 1, 1, FALSE)
    BY DEF DecodeRun, RunOf, CallOf
  <2>3. DecodeRun(b.level, last + 16 * (b.n - 1), 0, "side", 0, 1, 1)
          = RunOf(b, b.level, from, to, 0, last + 16 * (b.n - 1), 0, 1, 1, b.lf)
    BY <1>1, <1>6 DEF DecodeRun, RunOf, CallOf
  <2>4. DecodeCalls(b) =
          IF RoomForSlack(b)
          THEN DecodeRun(b.level, 0, b.stride, "out", b.w, b.n, b.lines)
          ELSE DecodeRun(b.level, 0, b.stride, "out", b.w, b.n, b.lines - 1)
               \o DecodeRun(b.level, last, 0, "out", done, b.n - 1, 1)
               \o DecodeRun(b.level, last + 16 * (b.n - 1), 0, "side", 0, 1, 1)
    BY <1>3, <1>4 DEF DecodeCalls
  <2> QED
    BY <1>5, <2>1, <2>2, <2>3, <2>4
<1> QED
  BY <1>5, <1>7, <1>8

\* No batch has begun.
LEMMA StartsSound == Init => IInv
<1> SUFFICES ASSUME Init PROVE IInv
  OBVIOUS
<1>1. PICK b \in Batches \cup Coded, k \in Levels : batch = [b EXCEPT !.level = k]
  BY DEF Init
<1>2. /\ out = [a \in 0 .. batch.room - 1 |-> Keep]
      /\ side = IF Encoding THEN Pad(batch) ELSE Zeros
      /\ todo = IF Encoding THEN EncodeCalls(batch) ELSE DecodeCalls(batch)
      /\ line = 0 /\ unit = 0 /\ worst = <<0, 0>> /\ ok = TRUE
      /\ pc = "run"
  BY DEF Init
<1>3. Good(batch)
  <2>1. k \in {"scalar", "sse41", "avx2"} /\ k \in Kernels
    BY BlockRunsAssumption DEF Kernels
  <2>2. PICK op \in {"encode", "decode"} :
          /\ Shaped(b, op)
          /\ op = "encode" => /\ Len(b.src) >= 13 * b.n * b.lines
                              /\ b.room >= LineRoom(b) + (IF b.lf THEN 1 ELSE 0)
          /\ op = "decode" => /\ ~ b.lf
                              /\ Len(b.src) >= LineRoom(b)
                              /\ b.room >= b.w + 13 * b.n * b.lines
    BY BlockRunsAssumption
  <2>3. b \in [op : {op}, level : Kernels \cup {""}, n : Nat \ {0}, lines : Nat \ {0},
               stride : Nat, lf : BOOLEAN, w : Nat, src : Seq(Byte), room : Nat]
    BY <2>2 DEF Shaped
  <2>4. /\ batch.op = op /\ batch.level = k /\ batch.n = b.n /\ batch.lines = b.lines
        /\ batch.stride = b.stride /\ batch.lf = b.lf /\ batch.w = b.w
        /\ batch.src = b.src /\ batch.room = b.room
        /\ batch \in [op : {op}, level : Kernels \cup {""}, n : Nat \ {0}, lines : Nat \ {0},
                      stride : Nat, lf : BOOLEAN, w : Nat, src : Seq(Byte), room : Nat]
    BY <1>1, <2>1, <2>3
  <2>5. Shaped(batch, op) /\ LineRoom(batch) = LineRoom(b)
    BY <2>2, <2>4 DEF Shaped, LineRoom
  <2>6. 13 * Total(batch) = 13 * b.n * b.lines
    <3>1. b.n \in Nat /\ b.lines \in Nat
      BY <2>3
    <3>2. 13 * (b.n * b.lines) = 13 * b.n * b.lines
      BY ONLY <3>1
    <3>3. Total(batch) = b.n * b.lines
      BY ONLY <2>4 DEF Total
    <3> QED
      BY ONLY <3>2, <3>3
  <2>7. b.w + 13 * b.n * b.lines = batch.w + 13 * Total(batch)
    BY <2>4, <2>6
  <2> QED
    BY <2>1, <2>2, <2>4, <2>5, <2>6, <2>7 DEF Good
<1>4. /\ Total(batch) \in Nat \ {0} /\ batch.op \in {"encode", "decode"}
      /\ batch.n \in Nat \ {0} /\ batch.room \in Nat
  BY <1>3, GoodIs
<1>5. Piece(batch, todo, 0, Total(batch))
  BY <1>2, <1>3, <1>4, EncodeCallsAre, DecodeCallsAre DEF Encoding
<1>6. InOrder(batch, todo, Total(batch)) /\ todo # << >>
  BY <1>4, <1>5 DEF Piece, From
<1>7. InPlace(batch, call) /\ First(batch, call) = 0
  <2>1. Head(todo) = todo[1]
    BY <1>6 DEF InOrder
  <2> QED
    BY <1>5, <1>6, <2>1, HeadIs DEF call, Piece, From
<1>8. call.n \in Nat /\ call.lines \in Nat /\ Row(call) \in Nat /\ Size(call) \in Nat
  <2>1. call.n \in Nat /\ call.lines \in Nat /\ Row(call) \in Nat /\ Size(call) \in {1, 2}
    BY <1>3, <1>7, CallIs
  <2> QED
    BY <2>1
<1>9. Finished = 0
  <2>1. Finished = 0 + Row(call) * 0 + Size(call) * 0
    BY <1>2, <1>6, <1>7 DEF Finished
  <2> QED
    BY <1>8, <2>1
<1>10. Fed = {}
  <2>1. \A l \in 1 .. batch.lines : ~ (batch.n * l <= Finished)
    <3> SUFFICES ASSUME NEW l \in 1 .. batch.lines PROVE ~ (batch.n * l <= 0)
      BY <1>9
    <3>1. PICK n \in Nat \ {0} : n = batch.n
      BY <1>4
    <3>2. l \in Nat /\ l >= 1
      BY <1>3, GoodIs
    <3>3. n * l >= 1
      BY ONLY <3>1, <3>2
    <3> QED
      BY <3>1, <3>2, <3>3
  <2> QED
    BY <2>1 DEF Fed
<1>11. Memory(batch, out)
  BY <1>2 DEF Memory
<1>12. Buffer(side, 15)
  BY <1>2 DEF Pad, Zeros, Buffer
<1>13. Control
  <2>1. worst \in Nat \X Nat /\ ok \in BOOLEAN /\ line \in Nat /\ unit \in Nat
    BY <1>2
  <2> QED
    BY <1>2, <1>3, <1>6, <1>8, <1>12, <2>1 DEF Control
<1>14. \A a \in 0 .. batch.room - 1 : out[a] = Keep
  BY <1>2
<1>15. EncodedTo(batch, out, 0, {})
  BY <1>11, <1>14 DEF EncodedTo
<1>16. DecodedTo(batch, out, 0)
  BY <1>11, <1>14 DEF DecodedTo
<1>17. ~ InSide /\ AllValid(batch, 0)
  BY <1>4, <1>9 DEF InSide, AllValid
<1>18. ok /\ worst[1] <= 90 /\ worst[2] <= 8191
  BY <1>2
<1> QED
  BY <1>9, <1>10, <1>13, <1>15, <1>16, <1>17, <1>18 DEF IInv, EncodeSound, DecodeSound

\* At any moment the output holds what the units so far computed of their
\* blocks and the LFs of the lines that are done, the maxima are within their
\* bounds exactly when these blocks are valid, and the calls to come do the
\* other blocks in order.
THEOREM Invariance == Spec => []IInv
<1>1. IInv /\ [Next]_vars => IInv'
  <2> SUFFICES ASSUME IInv, [Next]_vars PROVE IInv'
    OBVIOUS
  <2>1. CASE EncodeUnit
    BY <2>1, EncodeUnitStep
  <2>2. CASE DecodeUnit
    BY <2>2, DecodeUnitStep
  <2>3. CASE LineEnd
    BY <2>3, LineEndStep
  <2>4. CASE CallEnd
    BY <2>4, CallEndStep
  <2>5. CASE RunEnd
    BY <2>5, RunEndStep
  <2>6. CASE CopyLast
    BY <2>6, CopyLastStep
  <2>7. CASE Done
    <3>1. UNCHANGED vars
      BY <2>7 DEF Done
    <3> QED
      BY <3>1, IdleStep
  <2>8. CASE UNCHANGED vars
    BY <2>8, IdleStep
  <2> QED
    BY <2>1, <2>2, <2>3, <2>4, <2>5, <2>6, <2>7, <2>8 DEF Next
<1> QED
  BY StartsSound, <1>1, PTL DEF Spec

\* No register is loaded from or stored to beyond its buffer, and no LF is
\* written there, at any level and for any batch: the safety contracts of the
\* line functions of x86.rs, as encode_blocks and decode_blocks call them.
THEOREM AccessesStayInside == Spec => []AccessesInside
BY Invariance, SafeNow, PTL

\* When the calls are through, every place holds what the scalar code has.
LEMMA EncodedRight == IInv => EncodesAsScalar
<1> SUFFICES ASSUME IInv, pc = "done", Encoding
             PROVE  \A a \in DOMAIN out :
                      out[a] =
                        IF \E b \in 0 .. Blocks - 1 : a - CharsAt(b) \in 0 .. 15
                        THEN LET b == CHOOSE b \in 0 .. Blocks - 1 : a - CharsAt(b) \in 0 .. 15
                             IN  EncodeScalar(LoadSrc(BytesAt(b), 13))[a - CharsAt(b)]
                        ELSE IF batch.lf /\ \E l \in 1 .. batch.lines :
                                  a = batch.stride * (l - 1) + 16 * batch.n
                        THEN 10
                        ELSE Keep
  BY DEF EncodesAsScalar
<1>1. Good(batch) /\ todo = << >> /\ DOMAIN out = 0 .. batch.room - 1
  BY OutIs DEF IInv, Control
<1>2. /\ Total(batch) \in Nat \ {0} /\ batch.n \in Nat \ {0} /\ batch.lines \in Nat \ {0}
      /\ batch.lf \in BOOLEAN /\ LineRoom(batch) \in Nat /\ batch.room \in Nat
      /\ Blocks = Total(batch)
  BY <1>1, GoodIs DEF Blocks, Total
<1>3. Finished = Total(batch)
  BY <1>1 DEF Finished
<1>4. Fed = {l \in 1 .. batch.lines : batch.lf}
  <2>1. Fed = {l \in 1 .. batch.lines : batch.lf /\ batch.n * l <= Total(batch)}
    BY <1>1, <1>3 DEF Fed
  <2>2. \A l \in 1 .. batch.lines : batch.lf => batch.n * l <= Total(batch)
    BY <1>1, FeedIs
  <2> QED
    BY <2>1, <2>2
<1>5. EncodedTo(batch, out, Total(batch), Fed)
  BY <1>3 DEF IInv, EncodeSound
<1>6. \A b : CharsAt(b) = Where(batch, b) /\ LoadSrc(BytesAt(b), 13) = BlockOf(batch, b)
  BY DEF CharsAt, Where, LoadSrc, BytesAt, BlockOf
<1>7. \A l : FeedAt(batch, l) = batch.stride * (l - 1) + 16 * batch.n
  BY DEF FeedAt
<1> TAKE a \in DOMAIN out
<1>8. a \in 0 .. batch.room - 1 /\ a \in Nat
  BY <1>1, <1>2
<1>9. CASE \E b \in 0 .. Blocks - 1 : a - CharsAt(b) \in 0 .. 15
  <2> DEFINE b == CHOOSE b \in 0 .. Blocks - 1 : a - CharsAt(b) \in 0 .. 15
  <2>1. b \in 0 .. Total(batch) - 1 /\ a - CharsAt(b) \in 0 .. 15
    BY <1>2, <1>9
  <2> HIDE DEF b
  <2>2. PICK x \in 0 .. 15 : x = a - Where(batch, b)
    BY <1>6, <2>1
  <2>3. Where(batch, b) \in Nat
    BY <1>1, <2>1, WhereIs
  <2>4. a = Where(batch, b) + x
    BY <1>8, <2>2, <2>3
  <2>5. out[Where(batch, b) + x] = EncodeScalar(BlockOf(batch, b))[x]
    BY <1>5, <2>1 DEF EncodedTo
  <2>6. out[a] = EncodeScalar(LoadSrc(BytesAt(b), 13))[a - CharsAt(b)]
    BY <1>6, <2>2, <2>4, <2>5
  <2> QED
    BY <1>9, <2>6 DEF b
<1>10. CASE ~ \E b \in 0 .. Blocks - 1 : a - CharsAt(b) \in 0 .. 15
  <2>1. \/ \E l \in Fed : a = FeedAt(batch, l)
        \/ out[a] = Keep
    BY <1>2, <1>5, <1>6, <1>8, <1>10 DEF EncodedTo
  <2>2. \A l \in Fed : out[FeedAt(batch, l)] = 10
    BY <1>5 DEF EncodedTo
  <2>3. CASE batch.lf /\ \E l \in 1 .. batch.lines : a = FeedAt(batch, l)
    <3>1. out[a] = 10
      BY <1>4, <2>2, <2>3
    <3> QED
      BY <1>7, <1>10, <2>3, <3>1
  <2>4. CASE ~ (batch.lf /\ \E l \in 1 .. batch.lines : a = FeedAt(batch, l))
    <3>1. out[a] = Keep
      BY <1>4, <2>1, <2>4
    <3> QED
      BY <1>7, <1>10, <2>4, <3>1
  <2> QED
    BY <2>3, <2>4
<1> QED
  BY <1>9, <1>10

\* Every level encodes every batch as the scalar code does, block by block,
\* each line with its LF, and writes nothing else (encode_blocks, driver.rs).
THEOREM BatchesEncode == Spec => []EncodesAsScalar
BY Invariance, EncodedRight, PTL

\* When the calls are through, the maxima tell whether every block was valid.
LEMMA DecodedRight == IInv => DecodesAsScalar
<1> SUFFICES ASSUME IInv, pc = "done", ~ Encoding
             PROVE  /\ ok <=> \A b \in 0 .. Blocks - 1 : ValidScalar(LoadSrc(CharsAt(b), 16))
                    /\ ok => \A b \in 0 .. Blocks - 1 : \A j \in 0 .. 12 :
                               out[batch.w + BytesAt(b) + j]
                                 = DecodeScalar(LoadSrc(CharsAt(b), 16))[j]
                    /\ \A a \in DOMAIN out :
                         a \notin batch.w .. batch.w + 13 * Blocks + Slack - 1 => out[a] = Keep
  BY DEF DecodesAsScalar
<1>1. /\ Good(batch) /\ todo = << >> /\ DOMAIN out = 0 .. batch.room - 1
      /\ worst = <<0, 0>>
  BY OutIs DEF IInv, Control
<1>2. Total(batch) \in Nat \ {0} /\ Blocks = Total(batch)
  BY <1>1, GoodIs DEF Blocks, Total
<1>3. Finished = Total(batch) /\ ~ InSide
  BY <1>1 DEF Finished, InSide
<1>4. /\ ok /\ worst[1] <= 90 /\ worst[2] <= 8191 <=> AllValid(batch, Total(batch))
      /\ DecodedTo(batch, out, Total(batch))
  BY <1>3 DEF IInv, DecodeSound
<1>5. \A b : LoadSrc(CharsAt(b), 16) = CharsOf(batch, b) /\ BytesAt(b) = 13 * b
  BY DEF CharsAt, Where, LoadSrc, BytesAt, CharsOf
<1>6. worst[1] <= 90 /\ worst[2] <= 8191
  BY <1>1
<1>7. ok <=> \A b \in 0 .. Blocks - 1 : ValidScalar(LoadSrc(CharsAt(b), 16))
  <2>1. ok <=> AllValid(batch, Total(batch))
    BY <1>4, <1>6
  <2> QED
    BY <1>2, <1>5, <2>1 DEF AllValid
<1>8. ASSUME ok, NEW b \in 0 .. Blocks - 1, NEW j \in 0 .. 12
      PROVE  out[batch.w + BytesAt(b) + j] = DecodeScalar(LoadSrc(CharsAt(b), 16))[j]
  <2>1. b \in 0 .. Total(batch) - 1 /\ ValidScalar(CharsOf(batch, b))
    BY <1>2, <1>5, <1>7, <1>8
  <2>2. HasBytes(batch, b, [i \in 0 .. 12 |-> out[batch.w + 13 * b + i]])
    BY <1>4, <2>1 DEF DecodedTo
  <2>3. out[batch.w + 13 * b + j] = DecodeScalar(CharsOf(batch, b))[j]
    BY <2>1, <2>2 DEF HasBytes
  <2> QED
    BY <1>5, <2>3
<1>9. \A a \in DOMAIN out :
        a \notin batch.w .. batch.w + 13 * Blocks + Slack - 1 => out[a] = Keep
  BY <1>1, <1>2, <1>4 DEF DecodedTo
<1> QED
  BY <1>7, <1>8, <1>9

\* Every level finds a batch valid exactly when all its blocks are, then leaves
\* their bytes, each in its place, whatever else the registers held, and writes
\* three bytes behind them at most (decode_blocks, driver.rs).
THEOREM BatchesDecode == Spec => []DecodesAsScalar
BY Invariance, DecodedRight, PTL

=============================================================================
