---------------------------- MODULE CompatProofs ----------------------------
(* What holds of Henke's tool over the library's functions for every size   *)
(* of its buffer, every chunk size and every input: the output never runs   *)
(* into the input that is not read yet.                                     *)
(*                                                                           *)
(* The invariant is a balance.  An encoding call that has read r bytes and  *)
(* holds nbits bits has written at most 2/13 of the bits of the 8 * r it    *)
(* read and the 13 it may have begun with, less those it holds; a decoding  *)
(* call, one byte for 8 of the 7 bits each character is worth at most, the  *)
(* pending one included.  The sizes of the tool are such that the balance   *)
(* keeps the output behind the input, for decoding without a byte to spare. *)
(*                                                                           *)
(* What is printed follows from where the line in progress ends: the text    *)
(* behind the printed lines is at the beginning of the buffer.               *)
EXTENDS CompatTool, Arithmetic, SequenceTheorems, TLAPS

\* Where the call's input and output are, and that it is over outside "call".
Placed ==
    /\ IbufSize >= 1
    /\ out = 0
    /\ pc = "call" => in = Ibuf /\ len <= fed
    /\ pc # "call" => read = len

\* How much the call has written at most.
Balance ==
    /\ pc \in {"call", "wrap"} =>
         IF mode = "encode" THEN 13 * written + 2 * nbits <= 26 + 16 * read
         ELSE 8 * written + nbits + 7 * pending <= 14 + 7 * read
    /\ pc = "flush" => written <= (IF mode = "encode" THEN 2 ELSE 1)

\* What the call has not read is still there.
Unread ==
    pc = "call" =>
        \A x \in read..len - 1 : mem[in + x] = In(fed - len + x + 1)

IInv == TypeOK /\ Placed /\ Balance /\ Unread /\ InputInOrder

----------------------------------------------------------------------------
\* The sizes.

\* The quotient of a division is at most the fraction, and not one less.
LEMMA Quotient ==
    ASSUME NEW a \in Nat, NEW b \in Nat, b > 0
    PROVE  /\ a \div b \in Nat
           /\ b * (a \div b) <= a
PROOF
  BY Z3

\* An encoding buffer has at least four bytes; the input is at most 16 bytes
\* in 29 of those behind the first two.
LEMMA EncodeRoom ==
    ASSUME NEW B \in Nat, B >= 2, EncodeSize(B) >= 1
    PROVE  /\ EncodeSize(B) \in Nat
           /\ 29 * EncodeSize(B) <= 16 * (B - 2)
           /\ B >= 4
           /\ B - EncodeSize(B) \in Nat
PROOF
<1>1. (B - 2) * 16 \in Nat
  OBVIOUS
<1>2. EncodeSize(B) \in Nat /\ 29 * EncodeSize(B) <= (B - 2) * 16
  BY <1>1 DEF EncodeSize
<1> QED
  BY <1>2

\* A decoding buffer has at least three bytes; the input is at most 8 bytes
\* in 15 of those behind the first.
LEMMA DecodeRoom ==
    ASSUME NEW B \in Nat, B >= 2, DecodeSize(B) >= 1
    PROVE  /\ DecodeSize(B) \in Nat
           /\ 15 * DecodeSize(B) <= 8 * (B - 1)
           /\ B >= 3
           /\ 1 + DecodeSize(B) <= B
PROOF
<1>1. (B - 1) * 8 \in Nat
  OBVIOUS
<1>2. DecodeSize(B) \in Nat /\ 15 * DecodeSize(B) <= (B - 1) * 8
  BY <1>1 DEF DecodeSize
<1> QED
  BY <1>2

\* The bounds of the slices, as inequations.
LEMMA EncodeLenBound ==
    ASSUME NEW b \in Nat, NEW s \in Nat
    PROVE  /\ EncodeLen(b, s) \in Nat
           /\ 13 * EncodeLen(b, s) <= 2 * b + 16 * s
PROOF
<1>1. b + 8 * s \in Nat
  OBVIOUS
<1>2. (b + 8 * s) \div 13 \in Nat /\ 13 * ((b + 8 * s) \div 13) <= b + 8 * s
  BY <1>1
<1> QED
  BY <1>2 DEF EncodeLen

LEMMA DecodeLenBound ==
    ASSUME NEW b \in Nat, NEW p \in Nat, NEW s \in Nat
    PROVE  /\ DecodeLen(b, p, s) \in Nat
           /\ 8 * DecodeLen(b, p, s) <= b + 7 * s + 7 * p
PROOF
<1> DEFINE q == (s + p) \div 2
<1>1. q \in Nat /\ 2 * q <= s + p
  OBVIOUS
<1>2. b + 14 * q \in Nat
  BY <1>1
<1>3. (b + 14 * q) \div 8 \in Nat /\ 8 * ((b + 14 * q) \div 8) <= b + 14 * q
  <2> HIDE DEF q
  <2> QED
    BY <1>2
<1>4. DecodeLen(b, p, s) = (b + 14 * q) \div 8
  BY DEF DecodeLen
<1> HIDE DEF q
<1> QED
  BY <1>1, <1>3, <1>4

----------------------------------------------------------------------------
\* What the invariant says of the buffer, for both directions.
LEMMA Sizes ==
    ASSUME ToolAssumption, bufSize \in BufSizes, mode \in {"encode", "decode"},
           IbufSize >= 1
    PROVE  /\ bufSize \in Nat /\ bufSize >= 3 /\ IbufSize \in Nat /\ Ibuf \in Nat
           /\ Ibuf + IbufSize <= bufSize
           /\ mode = "encode" =>
                /\ bufSize >= 4 /\ Ibuf + IbufSize = bufSize
                /\ 29 * IbufSize <= 16 * (bufSize - 2)
           /\ mode = "decode" =>
                /\ Ibuf = 1 /\ 15 * IbufSize <= 8 * (bufSize - 1)
PROOF
<1>1. bufSize \in Nat /\ bufSize >= 2
  BY DEF ToolAssumption
<1>2. CASE mode = "encode"
  <2>1. IbufSize = EncodeSize(bufSize) /\ Ibuf = bufSize - EncodeSize(bufSize)
    BY <1>2 DEF IbufSize, Ibuf
  <2>2. /\ EncodeSize(bufSize) \in Nat /\ bufSize >= 4
        /\ 29 * EncodeSize(bufSize) <= 16 * (bufSize - 2)
        /\ bufSize - EncodeSize(bufSize) \in Nat
    BY <1>1, <2>1, EncodeRoom
  <2> QED
    BY <1>1, <1>2, <2>1, <2>2
<1>3. CASE mode = "decode"
  <2>1. IbufSize = DecodeSize(bufSize) /\ Ibuf = 1
    BY <1>3 DEF IbufSize, Ibuf
  <2>2. /\ DecodeSize(bufSize) \in Nat /\ bufSize >= 3
        /\ 15 * DecodeSize(bufSize) <= 8 * (bufSize - 1)
        /\ 1 + DecodeSize(bufSize) <= bufSize
    BY <1>1, <2>1, DecodeRoom
  <2> QED
    BY <1>1, <1>3, <2>1, <2>2
<1> QED
  BY <1>2, <1>3

\* The next chunk is not empty while there is input, and within it.
LEMMA NextChunk ==
    ASSUME ToolAssumption, len \in Nat, read \in 0..len, read < len
    PROVE  ChunkLen \in 1..len - read
PROOF
  BY DEF ChunkLen, Least, ToolAssumption

\* While a call reads, the slice for the next chunk's output ends before the
\* input behind the chunk.
LEMMA ClearOfInput ==
    ASSUME ToolAssumption, IInv, pc = "call", read < len
    PROVE  /\ Bound \in Nat
           /\ out + written + Bound <= in + read + ChunkLen
           /\ in + len <= bufSize
PROOF
<1>1. /\ bufSize \in Nat /\ IbufSize \in Nat /\ Ibuf \in Nat
      /\ in = Ibuf /\ out = 0
      /\ len \in Nat /\ len <= IbufSize /\ read \in Nat /\ read \in 0..len
      /\ written \in Nat /\ nbits \in Nat /\ pending \in Nat
  <2>1. IbufSize >= 1 /\ in = Ibuf /\ out = 0
    BY DEF IInv, Placed
  <2>2. bufSize \in Nat /\ IbufSize \in Nat /\ Ibuf \in Nat
    BY <2>1, Sizes DEF IInv, TypeOK
  <2> QED
    BY <2>1, <2>2 DEF IInv, TypeOK
<1>2. ChunkLen \in Nat /\ ChunkLen <= len - read /\ ChunkLen >= 1
  BY <1>1, NextChunk
<1>3. CASE mode = "encode"
  <2>1. 13 * written + 2 * nbits <= 26 + 16 * read
    BY <1>3 DEF IInv, Balance
  <2>2. /\ Bound \in Nat
        /\ 13 * Bound <= 2 * nbits + 16 * ChunkLen
    BY <1>1, <1>2, <1>3, EncodeLenBound DEF Bound
  <2>3. /\ bufSize >= 4 /\ Ibuf + IbufSize = bufSize
        /\ 29 * IbufSize <= 16 * (bufSize - 2)
    BY <1>3, Sizes DEF IInv, TypeOK, Placed
  <2> QED
    BY ONLY <1>1, <1>2, <2>1, <2>2, <2>3
<1>4. CASE mode = "decode"
  <2>1. 8 * written + nbits + 7 * pending <= 14 + 7 * read
    BY <1>4 DEF IInv, Balance
  <2>2. /\ Bound \in Nat
        /\ 8 * Bound <= nbits + 7 * ChunkLen + 7 * pending
    BY <1>1, <1>2, <1>4, DecodeLenBound DEF Bound
  <2>3. Ibuf = 1 /\ 15 * IbufSize <= 8 * (bufSize - 1)
    BY <1>4, Sizes DEF IInv, TypeOK, Placed
  <2>4. Ibuf + IbufSize <= bufSize
    BY <1>4, Sizes DEF IInv, TypeOK, Placed
  <2> QED
    BY ONLY <1>1, <1>2, <2>1, <2>2, <2>3, <2>4
<1> QED
  BY <1>3, <1>4 DEF IInv, TypeOK

----------------------------------------------------------------------------
\* What the codec does with a chunk.

\* Encoding keeps the balance, and writes no more than its slice.
LEMMA EncodeBalance ==
    ASSUME NEW b \in Nat, NEW s \in Nat, NEW g \in Nat, NEW t \in Nat,
           g <= (b + 8 * s) \div 13, 13 * g <= t, t <= 14 * g
    PROVE  /\ 2 * g <= EncodeLen(b, s)
           /\ 26 * g + 2 * (b + 8 * s - t) <= 2 * b + 16 * s
PROOF
<1>1. 2 * g <= EncodeLen(b, s)
  BY DEF EncodeLen
<1>2. 26 * g + 2 * (b + 8 * s - t) <= 2 * b + 16 * s
  OBVIOUS
<1> QED
  BY <1>1, <1>2

LEMMA Halves ==
    ASSUME NEW a \in Nat
    PROVE  a \div 2 \in Nat /\ a % 2 \in 0..1 /\ 2 * (a \div 2) + (a % 2) = a
PROOF
  BY Z3

LEMMA Eighths ==
    ASSUME NEW a \in Nat
    PROVE  a \div 8 \in Nat /\ a % 8 \in 0..7 /\ 8 * (a \div 8) + (a % 8) = a
PROOF
  BY Z3

\* Decoding likewise: with the bits that stay, the bytes written are the bits
\* held and given.
LEMMA DecodeBalance ==
    ASSUME NEW b \in Nat, NEW p \in Nat, NEW s \in Nat, NEW c \in Nat,
           NEW t \in Nat, c <= s, t <= 14 * ((p + c) \div 2)
    PROVE  /\ (b + t) \div 8 \in Nat /\ (b + t) % 8 \in 0..7
           /\ (p + c) % 2 \in 0..1
           /\ (b + t) \div 8 <= DecodeLen(b, p, s)
           /\ 8 * ((b + t) \div 8) + ((b + t) % 8) + 7 * ((p + c) % 2)
                <= b + 7 * p + 7 * s
PROOF
<1> DEFINE q == (p + c) \div 2
           w == (b + t) \div 8
<1>1. q \in Nat /\ 2 * q + ((p + c) % 2) = p + c /\ (p + c) % 2 \in 0..1
  BY Halves
<1>2. w \in Nat /\ 8 * w + ((b + t) % 8) = b + t /\ (b + t) % 8 \in 0..7
  BY Eighths
<1>3. t <= 14 * q
  OBVIOUS
<1>4. w <= DecodeLen(b, p, s)
  <2> DEFINE z == (s + p) \div 2
  <2>1. z \in Nat /\ q <= z
    OBVIOUS
  <2>2. b + t \in Nat /\ b + 14 * z \in Nat /\ b + t <= b + 14 * z
    <3> HIDE DEF z, q
    <3> QED
      BY <1>1, <1>3, <2>1
  <2>3. w <= (b + 14 * z) \div 8
    <3> HIDE DEF z
    <3> QED
      BY <2>2
  <2> QED
    BY <2>3 DEF DecodeLen
<1>5. 8 * w + ((b + t) % 8) + 7 * ((p + c) % 2) <= b + 7 * p + 7 * s
  <2> HIDE DEF q, w
  <2> DEFINE r == (b + t) % 8
             u == (p + c) % 2
  <2>1. u \in Nat /\ r \in Nat
    BY <1>1, <1>2
  <2>2. 2 * q + u = p + c /\ 8 * w + r = b + t
    BY <1>1, <1>2
  <2>3. 8 * w + r + 7 * u <= b + 7 * p + 7 * s
    <3> HIDE DEF r, u
    <3> QED
      BY <1>1, <1>2, <1>3, <2>1, <2>2
  <2> QED
    BY <2>3
<1> QED
  BY <1>1, <1>2, <1>4, <1>5

----------------------------------------------------------------------------
\* The chunk is the next bytes of standard input, and reading it and writing
\* within its slice leaves the bytes behind it.
LEMMA ChunkStep ==
    ASSUME ToolAssumption, IInv, pc = "call", read < len,
           NEW w \in Nat, w <= Bound, ChunkRead(w), UNCHANGED toolVars
    PROVE  /\ Unread' /\ InputInOrder'
           /\ mem' \in [0..bufSize - 1 -> Cells]
           /\ read' \in 0..len /\ len' = len /\ in' = in /\ out' = out
           /\ read' = read + ChunkLen
           /\ written' = written + w /\ written' \in Nat /\ made' \in Nat
           /\ eaten' \in Seq(Cells)
PROOF
<1> DEFINE n == ChunkLen
<1>1. /\ bufSize \in Nat /\ Ibuf \in Nat /\ in = Ibuf /\ out = 0
      /\ len \in Nat /\ read \in Nat /\ read < len /\ len <= fed /\ fed \in Nat
      /\ written \in Nat /\ made \in Nat
  <2>1. in = Ibuf /\ out = 0 /\ len <= fed
    BY DEF IInv, Placed
  <2>2. bufSize \in Nat /\ Ibuf \in Nat /\ IbufSize \in Nat
    BY Sizes DEF IInv, TypeOK, Placed
  <2>3. fed \in Nat
    BY DEF IInv, TypeOK, ToolAssumption
  <2> QED
    BY <2>1, <2>2, <2>3 DEF IInv, TypeOK
<1>2. n \in Nat /\ n >= 1 /\ n <= len - read
  BY <1>1, NextChunk
<1>3. out + written + Bound <= in + read + n /\ in + len <= bufSize /\ Bound \in Nat
  BY ClearOfInput
<1>4. /\ read' = read + n /\ written' = written + w /\ made' = made + w
      /\ eaten' = eaten \o ChunkCells /\ mem' = Stored(out + written, w)
      /\ len' = len /\ in' = in /\ out' = out /\ fed' = fed /\ pc' = pc
  BY DEF ChunkRead, toolVars
<1> HIDE DEF n
<1>5. \A x \in read..len - 1 :
         in + x \in 0..bufSize - 1 /\ mem[in + x] = In(fed - len + x + 1)
  <2>1. \A x \in read..len - 1 : mem[in + x] = In(fed - len + x + 1)
    BY DEF IInv, Unread
  <2>2. \A x \in read..len - 1 : in + x \in 0..bufSize - 1
    BY <1>1, <1>3
  <2> QED
    BY <2>1, <2>2
<1>6. mem \in [0..bufSize - 1 -> Cells]
  BY DEF IInv, TypeOK
<1>7. mem' \in [0..bufSize - 1 -> Cells]
  <2> DEFINE low  == out + written
             high == out + written + w - 1
             new(a) == IF a \in low..high THEN Out(made + (a - low) + 1) ELSE mem[a]
  <2>1. mem' = [a \in 0..bufSize - 1 |-> new(a)]
    BY <1>4, <1>6 DEF Stored
  <2>2. \A a \in 0..bufSize - 1 : new(a) \in Cells
    <3> SUFFICES ASSUME NEW a \in 0..bufSize - 1 PROVE new(a) \in Cells
      OBVIOUS
    <3>1. CASE a \in low..high
      <4>1. made + (a - low) + 1 \in Nat
        BY <1>1, <3>1
      <4> QED
        BY <3>1, <4>1 DEF Out, Cells
    <3>2. CASE a \notin low..high
      BY <1>6, <3>2
    <3> QED
      BY <3>1, <3>2
  <2> HIDE DEF new
  <2> QED
    BY <2>1, <2>2
<1>8. Unread'
  <2> SUFFICES ASSUME NEW x \in read'..len' - 1
               PROVE  mem'[in' + x] = In(fed' - len' + x + 1)
    BY DEF Unread
  <2>1. x \in read..len - 1 /\ x >= read + n
    BY <1>1, <1>2, <1>4
  <2>2. in + x \in 0..bufSize - 1 /\ mem[in + x] = In(fed - len + x + 1)
    BY <1>5, <2>1
  <2>3. in + x \notin out + written..out + written + w - 1
    BY <1>1, <1>2, <1>3, <2>1
  <2>4. in + x \in DOMAIN mem
    BY <1>6, <2>2
  <2>5. mem'[in + x] = mem[in + x]
    BY <1>4, <2>3, <2>4 DEF Stored
  <2> QED
    BY <1>4, <2>2, <2>5
<1>9. /\ ChunkCells \in Seq(Cells) /\ Len(ChunkCells) = n
      /\ \A k \in 1..n : ChunkCells[k] = In(fed - len + read + k)
  <2>1. ChunkCells = [k \in 1..n |-> mem[in + read + k - 1]]
    BY DEF ChunkCells, n
  <2>2. ASSUME NEW k \in 1..n
        PROVE  /\ mem[in + read + k - 1] = In(fed - len + read + k)
               /\ mem[in + read + k - 1] \in Cells
    <3>1. read + k - 1 \in read..len - 1
      BY <1>1, <1>2
    <3>2. /\ in + (read + k - 1) \in 0..bufSize - 1
          /\ mem[in + (read + k - 1)] = In(fed - len + (read + k - 1) + 1)
      BY <1>5, <3>1
    <3>3. /\ in + (read + k - 1) = in + read + k - 1
          /\ fed - len + (read + k - 1) + 1 = fed - len + read + k
      BY <1>1
    <3>4. mem[in + (read + k - 1)] \in Cells
      BY <1>6, <3>2
    <3> QED
      BY <3>2, <3>3, <3>4
  <2> DEFINE cell(k) == mem[in + read + k - 1]
  <2>3. \A k \in 1..n : cell(k) \in Cells /\ cell(k) = In(fed - len + read + k)
    BY <2>2
  <2>4. ChunkCells = [k \in 1..n |-> cell(k)]
    BY <2>1
  <2> HIDE DEF cell
  <2>5. ChunkCells \in Seq(Cells) /\ Len(ChunkCells) = n
    BY <1>2, <2>3, <2>4
  <2>6. \A k \in 1..n : ChunkCells[k] = cell(k)
    BY <2>4
  <2> QED
    BY <2>3, <2>5, <2>6
<1>10. eaten' \in Seq(Cells) /\ InputInOrder'
  <2>1. /\ eaten \in Seq(Cells) /\ Len(eaten) = fed - (len - read)
        /\ \A j \in 1..Len(eaten) : eaten[j] = In(j)
    BY DEF IInv, TypeOK, InputInOrder
  <2>2. /\ eaten \o ChunkCells \in Seq(Cells)
        /\ Len(eaten \o ChunkCells) = Len(eaten) + Len(ChunkCells)
    BY <1>9, <2>1, ConcatProperties, Zenon
  <2>3. eaten' \in Seq(Cells) /\ Len(eaten') = Len(eaten) + n
    BY <1>4, <1>9, <2>2, Zenon
  <2>4. ASSUME NEW j \in 1..Len(eaten') PROVE eaten'[j] = In(j)
    <3>1. CASE j <= Len(eaten)
      BY <1>4, <1>9, <2>1, <2>3, <3>1
    <3>2. CASE j > Len(eaten)
      <4>1. j - Len(eaten) \in 1..n
        BY <1>2, <2>1, <2>3, <3>2
      <4>2. eaten'[j] = ChunkCells[j - Len(eaten)]
        BY <1>4, <1>9, <2>1, <2>3, <3>2
      <4>3. ChunkCells[j - Len(eaten)] = In(fed - len + read + (j - Len(eaten)))
        BY <1>9, <4>1
      <4>4. fed - len + read + (j - Len(eaten)) = j
        BY <1>1, <2>1, <4>1
      <4> QED
        BY <4>2, <4>3, <4>4
    <3> QED
      BY <2>1, <3>1, <3>2
  <2>5. Len(eaten') = fed' - (len' - read')
    BY <1>1, <1>2, <1>4, <2>1, <2>3
  <2> QED
    BY <2>3, <2>4, <2>5 DEF InputInOrder
<1>11. read' \in 0..len /\ written' \in Nat /\ made' \in Nat /\ read' = read + ChunkLen
  BY <1>1, <1>2, <1>4 DEF n
<1> QED
  BY <1>4, <1>7, <1>8, <1>10, <1>11

----------------------------------------------------------------------------
LEMMA InitIInv ==
    ASSUME ToolAssumption, Init
    PROVE  IInv
PROOF
<1>1. bufSize \in Nat /\ llen \in Nat
  BY DEF Init, ToolAssumption
<1>2. mem \in [0..bufSize - 1 -> Cells]
  BY DEF Init, Free, Cells
<1>3. IbufSize \in Nat /\ Ibuf \in Nat
  BY Sizes DEF Init
<1>4. eaten = << >> /\ << >> \in Seq(Cells) /\ Len(<< >>) = 0
  BY DEF Init
<1>5. TypeOK
  BY <1>1, <1>2, <1>3, <1>4 DEF Init, TypeOK, ToolAssumption
<1>6. Placed /\ Balance /\ Unread
  BY DEF Init, Placed, Balance, Unread
<1>7. InputInOrder
  BY <1>4 DEF InputInOrder, Init
<1> QED
  BY <1>5, <1>6, <1>7 DEF IInv

LEMMA FreadIInv ==
    ASSUME ToolAssumption, IInv, NEW s \in 1..IbufSize, Fread(s)
    PROVE  IInv'
PROOF
<1>1. /\ IbufSize' = IbufSize /\ Ibuf' = Ibuf
      /\ mode' = mode /\ bufSize' = bufSize /\ llen' = llen
      /\ nbits' = nbits /\ pending' = pending /\ eaten' = eaten /\ made' = made
      /\ col' = col /\ i' = i
      /\ in' = Ibuf /\ len' = s /\ out' = 0 /\ read' = 0 /\ written' = 0
      /\ fed' = fed + s /\ fed + s <= MaxBytes
      /\ pc = "read" /\ pc' = "call"
  BY DEF Fread, Call, IbufSize, Ibuf
<1>2. /\ bufSize \in Nat /\ IbufSize \in Nat /\ Ibuf \in Nat /\ Ibuf + IbufSize <= bufSize
      /\ IbufSize >= 1
  BY Sizes DEF IInv, TypeOK, Placed
<1>3. fed \in Nat /\ MaxBytes \in Nat /\ s \in Nat /\ s <= IbufSize /\ s >= 1
  BY <1>2 DEF IInv, TypeOK, ToolAssumption
<1>4. mem \in [0..bufSize - 1 -> Cells]
  BY DEF IInv, TypeOK
<1> DEFINE new(a) == IF a \in Ibuf..Ibuf + s - 1 THEN In(fed + (a - Ibuf) + 1)
                     ELSE mem[a]
<1>5. mem' = [a \in 0..bufSize - 1 |-> new(a)]
  BY <1>4 DEF Fread
<1>6. mem' \in [0..bufSize - 1 -> Cells]
  <2>1. ASSUME NEW a \in 0..bufSize - 1 PROVE new(a) \in Cells
    <3>1. CASE a \in Ibuf..Ibuf + s - 1
      <4>1. fed + (a - Ibuf) + 1 \in Nat
        BY <1>2, <1>3, <3>1
      <4> QED
        BY <3>1, <4>1 DEF In, Cells
    <3>2. CASE a \notin Ibuf..Ibuf + s - 1
      BY <1>4, <3>2
    <3> QED
      BY <3>1, <3>2
  <2> HIDE DEF new
  <2> QED
    BY <1>5, <2>1
<1>7. Unread'
  <2> SUFFICES ASSUME NEW x \in read'..len' - 1
               PROVE  mem'[in' + x] = In(fed' - len' + x + 1)
    BY DEF Unread
  <2>a. in' = Ibuf /\ len' = s /\ read' = 0 /\ fed' = fed + s
    BY <1>1
  <2>0. x \in 0..s - 1 /\ in' + x = Ibuf + x /\ fed' - len' + x + 1 = fed + s - s + x + 1
    BY <1>2, <1>3, <2>a, Z3
  <2>1. Ibuf + x \in 0..bufSize - 1 /\ Ibuf + x \in Ibuf..Ibuf + s - 1
    BY <1>2, <1>3, <2>0
  <2>2. mem'[Ibuf + x] = new(Ibuf + x)
    <3> HIDE DEF new
    <3> QED
      BY <1>5, <2>1
  <2>3. fed + ((Ibuf + x) - Ibuf) + 1 = fed + s - s + x + 1
    BY <1>2, <1>3, <2>0
  <2>4. new(Ibuf + x) = In(fed + ((Ibuf + x) - Ibuf) + 1)
    BY <2>1
  <2> HIDE DEF new
  <2> QED
    BY <2>0, <2>2, <2>3, <2>4
<1> HIDE DEF new
<1>8. Placed' /\ Balance'
  <2>1. Placed'
    BY <1>1, <1>2, <1>3 DEF Placed
  <2>2. Balance'
    BY <1>1, <1>3 DEF Balance, IInv, TypeOK
  <2> QED
    BY <2>1, <2>2
<1>9. InputInOrder'
  <2>1. read = len /\ len \in Nat
    BY <1>1, <1>2 DEF IInv, Placed, TypeOK
  <2>2. Len(eaten) = fed - (len - read) /\ \A j \in 1..Len(eaten) : eaten[j] = In(j)
    BY DEF IInv, InputInOrder
  <2>3. Len(eaten) = fed + s - (s - 0)
    BY <1>3, <2>1, <2>2
  <2>a. eaten' = eaten /\ len' = s /\ read' = 0 /\ fed' = fed + s
    BY <1>1
  <2>4. Len(eaten') = fed' - (len' - read')
    BY <1>3, <2>3, <2>a, Z3
  <2>5. \A j \in 1..Len(eaten') : eaten'[j] = In(j)
    BY <1>1, <2>2
  <2> QED
    BY <2>4, <2>5 DEF InputInOrder
<1>10. TypeOK'
  <2>1. /\ mode \in {"encode", "decode"} /\ bufSize \in BufSizes /\ llen \in Widths
        /\ nbits \in 0..(IF mode = "encode" THEN 13 ELSE 7)
        /\ pending \in 0..(IF mode = "encode" THEN 0 ELSE 1)
        /\ eaten \in Seq(Cells) /\ made \in Nat /\ col \in Nat /\ i \in Nat
    BY DEF IInv, TypeOK
  <2>2. fed + s \in 0..MaxBytes /\ s \in 0..IbufSize /\ 0 \in 0..s
    BY <1>1, <1>2, <1>3
  <2> QED
    BY <1>1, <1>2, <1>6, <2>1, <2>2 DEF TypeOK
<1> QED
  BY <1>7, <1>8, <1>9, <1>10 DEF IInv

\* Steps that leave the call's state and the memory as they are.
LEMMA QuietIInv ==
    ASSUME ToolAssumption, IInv, UNCHANGED <<callVars, mode, bufSize, llen, fed>>,
           col' \in Nat, i' \in Nat,
           pc' \in {"read", "wrap", "end", "done"},
           pc = "call" => read = len, pc' = "wrap" => pc \in {"call", "wrap"}
    PROVE  IInv'
PROOF
<1>1. IbufSize' = IbufSize /\ Ibuf' = Ibuf
  BY DEF IbufSize, Ibuf
<1>2. TypeOK'
  BY <1>1 DEF IInv, TypeOK, callVars
<1>3. Placed'
  BY <1>1 DEF IInv, Placed, callVars
<1>4. Balance'
  BY DEF IInv, Balance, callVars
<1>5. Unread'
  BY DEF Unread
<1>6. InputInOrder'
  BY DEF IInv, InputInOrder, callVars
<1> QED
  BY <1>2, <1>3, <1>4, <1>5, <1>6 DEF IInv

\* The balance before a chunk and the chunk's own make the one after it.
LEMMA Sums ==
    ASSUME NEW a \in Nat, NEW b \in Nat, NEW p \in Nat, NEW r \in Nat,
           NEW w \in Nat, NEW c \in Nat, NEW b2 \in Nat, NEW p2 \in Nat
    PROVE  /\ 13 * a + 2 * b <= 26 + 16 * r /\ 13 * w + 2 * b2 <= 2 * b + 16 * c
              => 13 * (a + w) + 2 * b2 <= 26 + 16 * (r + c)
           /\ /\ 8 * a + b + 7 * p <= 14 + 7 * r
              /\ 8 * w + b2 + 7 * p2 <= b + 7 * p + 7 * c
              => 8 * (a + w) + b2 + 7 * p2 <= 14 + 7 * (r + c)
PROOF
  BY Z3

LEMMA ChunkIInv ==
    ASSUME ToolAssumption, IInv, Chunk
    PROVE  IInv' /\ written' <= written + Bound
PROOF
<1>1. /\ IbufSize' = IbufSize /\ Ibuf' = Ibuf
      /\ UNCHANGED toolVars /\ pc = "call"
      /\ mode' = mode /\ bufSize' = bufSize /\ llen' = llen /\ fed' = fed
      /\ col' = col /\ i' = i /\ pc' = pc
  BY DEF Chunk, toolVars, IbufSize, Ibuf
<1>2. /\ len \in Nat /\ read \in 0..len /\ written \in Nat
      /\ nbits \in Nat /\ pending \in Nat /\ mode \in {"encode", "decode"}
  <2>1. IbufSize \in Nat
    BY Sizes DEF IInv, TypeOK, Placed
  <2> QED
    BY <2>1 DEF IInv, TypeOK
<1>3. read < len
  BY DEF Chunk, EncodeChunk, DecodeChunk
<1>4. ChunkLen \in Nat /\ ChunkLen >= 1
  BY <1>2, <1>3, NextChunk
<1>5. ASSUME NEW w \in Nat, w <= Bound, ChunkRead(w),
             nbits' \in 0..(IF mode = "encode" THEN 13 ELSE 7),
             pending' \in 0..(IF mode = "encode" THEN 0 ELSE 1),
             nbits' \in Nat, pending' \in Nat,
             mode = "encode" => 13 * w + 2 * nbits' <= 2 * nbits + 16 * ChunkLen,
             mode = "decode" =>
               8 * w + nbits' + 7 * pending' <= nbits + 7 * pending + 7 * ChunkLen
      PROVE  IInv' /\ written' <= written + Bound
  <2>1. /\ Unread' /\ InputInOrder'
        /\ mem' \in [0..bufSize - 1 -> Cells]
        /\ read' \in 0..len /\ len' = len /\ in' = in /\ out' = out
        /\ read' = read + ChunkLen
        /\ written' = written + w /\ written' \in Nat /\ made' \in Nat
        /\ eaten' \in Seq(Cells)
    BY <1>1, <1>3, <1>5, ChunkStep
  <2>2. Placed'
    BY <1>1, <2>1 DEF IInv, Placed
  <2>3. Balance'
    <3>1. CASE mode = "encode"
      <4>0. w \in Nat /\ read \in Nat
        BY <1>2
      <4>1. 13 * written + 2 * nbits <= 26 + 16 * read
        BY <1>1, <3>1 DEF IInv, Balance
      <4>2. 13 * w + 2 * nbits' <= 2 * nbits + 16 * ChunkLen /\ nbits' \in Nat
        BY <1>5, <3>1, Zenon
      <4>3. 13 * (written + w) + 2 * nbits' <= 26 + 16 * (read + ChunkLen)
        BY <1>2, <1>4, <1>5, <4>0, <4>1, <4>2, Sums
      <4> QED
        BY <1>1, <2>1, <3>1, <4>3 DEF Balance
    <3>2. CASE mode = "decode"
      <4>0. w \in Nat /\ read \in Nat
        BY <1>2
      <4>1. 8 * written + nbits + 7 * pending <= 14 + 7 * read
        BY <1>1, <3>2 DEF IInv, Balance
      <4>2. /\ 8 * w + nbits' + 7 * pending' <= nbits + 7 * pending + 7 * ChunkLen
            /\ nbits' \in Nat /\ pending' \in Nat
        BY <1>5, <3>2, Zenon
      <4>3. 8 * (written + w) + nbits' + 7 * pending' <= 14 + 7 * (read + ChunkLen)
        BY <1>2, <1>4, <1>5, <4>0, <4>1, <4>2, Sums
      <4> QED
        BY <1>1, <2>1, <3>2, <4>3 DEF Balance
    <3> QED
      BY <1>2, <3>1, <3>2
  <2>4. TypeOK'
    <3>1. /\ bufSize \in BufSizes /\ llen \in Widths /\ in \in Nat /\ out \in Nat
          /\ len \in 0..IbufSize /\ fed \in 0..MaxBytes /\ col \in Nat /\ i \in Nat
      BY DEF IInv, TypeOK
    <3> QED
      BY <1>1, <1>2, <1>5, <2>1, <3>1 DEF TypeOK
  <2>5. written' <= written + Bound
    <3>1. Bound \in Nat
      BY <1>1, <1>3, ClearOfInput
    <3> QED
      BY <1>2, <1>5, <2>1, <3>1
  <2> QED
    BY <2>1, <2>2, <2>3, <2>4, <2>5 DEF IInv
<1>6. CASE mode = "encode"
  <2>1. PICK g \in 0..(nbits + 8 * ChunkLen) \div 13 : \E t \in 13 * g..14 * g :
          /\ nbits' = nbits + 8 * ChunkLen - t
          /\ nbits' \in 0..13
          /\ ChunkRead(2 * g)
    BY <1>6 DEF Chunk, EncodeChunk
  <2>2. PICK t \in 13 * g..14 * g :
          /\ nbits' = nbits + 8 * ChunkLen - t
          /\ nbits' \in 0..13
          /\ ChunkRead(2 * g)
    BY <2>1
  <2>3. pending' = pending /\ pending \in 0..0
    BY <1>6 DEF Chunk, EncodeChunk, IInv, TypeOK
  <2>4. g \in Nat /\ t \in Nat /\ g <= (nbits + 8 * ChunkLen) \div 13
        /\ 13 * g <= t /\ t <= 14 * g
    <3>1. nbits + 8 * ChunkLen \in Nat
      BY <1>2, <1>4
    <3>2. (nbits + 8 * ChunkLen) \div 13 \in Nat
      BY <3>1
    <3> QED
      BY <2>1, <2>2, <3>2
  <2>5. /\ 2 * g <= EncodeLen(nbits, ChunkLen)
        /\ 26 * g + 2 * (nbits + 8 * ChunkLen - t) <= 2 * nbits + 16 * ChunkLen
    BY <1>2, <1>4, <2>4, EncodeBalance
  <2>6. 2 * g \in Nat /\ 2 * g <= Bound
    BY <1>6, <2>4, <2>5 DEF Bound
  <2>7. 13 * (2 * g) + 2 * nbits' <= 2 * nbits + 16 * ChunkLen
    BY <2>2, <2>4, <2>5
  <2> QED
    BY <1>5, <1>6, <2>2, <2>3, <2>6, <2>7
<1>7. CASE mode = "decode"
  <2>1. PICK c \in 0..ChunkLen : \E t \in 13 * ((pending + c) \div 2)..14 * ((pending + c) \div 2) :
          /\ nbits' = (nbits + t) % 8
          /\ pending' = (pending + c) % 2
          /\ ChunkRead((nbits + t) \div 8)
    BY <1>7 DEF Chunk, DecodeChunk
  <2>2. PICK t \in 13 * ((pending + c) \div 2)..14 * ((pending + c) \div 2) :
          /\ nbits' = (nbits + t) % 8
          /\ pending' = (pending + c) % 2
          /\ ChunkRead((nbits + t) \div 8)
    BY <2>1
  <2>3. c \in Nat /\ c <= ChunkLen /\ t \in Nat /\ t <= 14 * ((pending + c) \div 2)
    <3>1. c \in Nat /\ pending + c \in Nat
      BY <1>2, <1>4
    <3>2. (pending + c) \div 2 \in Nat
      BY <3>1, Halves
    <3> QED
      BY <1>4, <2>1, <2>2, <3>1, <3>2
  <2>4. /\ (nbits + t) \div 8 \in Nat /\ (nbits + t) % 8 \in 0..7
        /\ (pending + c) % 2 \in 0..1
        /\ (nbits + t) \div 8 <= DecodeLen(nbits, pending, ChunkLen)
        /\ 8 * ((nbits + t) \div 8) + ((nbits + t) % 8) + 7 * ((pending + c) % 2)
             <= nbits + 7 * pending + 7 * ChunkLen
    BY <1>2, <1>4, <2>3, DecodeBalance
  <2>5. (nbits + t) \div 8 <= Bound
    BY <1>7, <2>4 DEF Bound
  <2> QED
    BY <1>5, <1>7, <2>2, <2>4, <2>5
<1> QED
  BY <1>2, <1>6, <1>7

\* The end of a stream is at most two characters, or one byte.
LEMMA EndWrites ==
    ASSUME IInv, EndCall
    PROVE  \E w \in 0..(IF mode = "encode" THEN 2 ELSE 1) : End(0, w)
<1>1. CASE mode = "encode"
  <2>1. PICK w \in EncodeEnds(nbits) : End(0, w)
    BY <1>1 DEF EndCall, EncodeEnd
  <2>2. w \in 0..2
    BY DEF EncodeEnds
  <2> QED
    BY <1>1, <2>1, <2>2
<1>2. CASE mode # "encode"
  <2>1. End(0, pending)
    BY <1>2 DEF EndCall, DecodeEnd
  <2>2. pending \in 0..1
    BY <1>2 DEF IInv, TypeOK
  <2> QED
    BY <1>2, <2>1, <2>2
<1> QED
  BY <1>1, <1>2

LEMMA EndIInv ==
    ASSUME ToolAssumption, IInv, EndCall
    PROVE  IInv'
PROOF
<1>1. /\ IbufSize' = IbufSize /\ Ibuf' = Ibuf
      /\ mode' = mode /\ bufSize' = bufSize /\ llen' = llen /\ fed' = fed
      /\ col' = col /\ i' = i /\ pc = "end" /\ pc' = "flush"
  BY DEF EndCall, IbufSize, Ibuf
<1>2. PICK w \in 0..(IF mode = "encode" THEN 2 ELSE 1) : End(0, w)
  BY EndWrites
<1>3. /\ mem' = Stored(0, w) /\ made' = made + w /\ nbits' = 0 /\ pending' = 0
      /\ out' = 0 /\ written' = w /\ len' = 0 /\ read' = 0
      /\ in' = in /\ eaten' = eaten
  BY <1>2 DEF End
<1>4. w \in Nat /\ made \in Nat /\ IbufSize \in Nat /\ bufSize \in Nat
  BY <1>2, Sizes DEF IInv, TypeOK, Placed
<1>5. mem' \in [0..bufSize - 1 -> Cells]
  <2> DEFINE new(a) == IF a \in 0..0 + w - 1 THEN Out(made + (a - 0) + 1) ELSE mem[a]
  <2>1. mem \in [0..bufSize - 1 -> Cells]
    BY DEF IInv, TypeOK
  <2>2. mem' = [a \in 0..bufSize - 1 |-> new(a)]
    BY <1>3, <2>1 DEF Stored
  <2>3. ASSUME NEW a \in 0..bufSize - 1 PROVE new(a) \in Cells
    <3>1. CASE a \in 0..0 + w - 1
      <4>1. made + (a - 0) + 1 \in Nat
        BY <1>4
      <4> QED
        BY <3>1, <4>1 DEF Out, Cells
    <3>2. CASE a \notin 0..0 + w - 1
      BY <2>1, <3>2
    <3> QED
      BY <3>1, <3>2
  <2> HIDE DEF new
  <2> QED
    BY <2>2, <2>3
<1>6. TypeOK'
  <2>1. /\ mode \in {"encode", "decode"} /\ bufSize \in BufSizes /\ llen \in Widths
        /\ in \in Nat /\ eaten \in Seq(Cells) /\ fed \in 0..MaxBytes
        /\ col \in Nat /\ i \in Nat
    BY DEF IInv, TypeOK
  <2>2. made + w \in Nat /\ 0 \in 0..IbufSize /\ 0 \in 0..0
    BY <1>4
  <2> QED
    BY <1>1, <1>3, <1>4, <1>5, <2>1, <2>2 DEF TypeOK
<1>7. Placed'
  BY <1>1, <1>3 DEF IInv, Placed
<1>8. Balance'
  <2>1. w <= (IF mode = "encode" THEN 2 ELSE 1)
    BY <1>2
  <2> QED
    BY <1>1, <1>3, <2>1 DEF Balance
<1>9. Unread'
  BY <1>1 DEF Unread
<1>10. InputInOrder'
  <2>1. read = len /\ len \in Nat /\ fed \in Nat
    BY <1>1, <1>4 DEF IInv, Placed, TypeOK, ToolAssumption
  <2>2. Len(eaten) = fed - (len - read) /\ \A j \in 1..Len(eaten) : eaten[j] = In(j)
    BY DEF IInv, InputInOrder
  <2>3. Len(eaten) = fed - (0 - 0)
    BY <2>1, <2>2
  <2>4. Len(eaten') = fed' - (len' - read')
    BY <1>1, <1>3, <2>3, Zenon
  <2>5. \A j \in 1..Len(eaten') : eaten'[j] = In(j)
    BY <1>3, <2>2
  <2> QED
    BY <2>4, <2>5 DEF InputInOrder
<1> QED
  BY <1>6, <1>7, <1>8, <1>9, <1>10 DEF IInv

LEMMA FlushIInv ==
    ASSUME ToolAssumption, IInv, Flush
    PROVE  IInv'
PROOF
<1>1. /\ IbufSize' = IbufSize /\ Ibuf' = Ibuf
      /\ mode' = mode /\ bufSize' = bufSize /\ llen' = llen /\ fed' = fed
      /\ nbits' = nbits /\ pending' = pending /\ in' = in /\ len' = len /\ out' = out
      /\ read' = read /\ written' = written /\ eaten' = eaten /\ made' = made
      /\ col' = col /\ i' = i /\ pc' = "done" /\ pc = "flush"
  BY DEF Flush, FlushPlain, FlushLines, IbufSize, Ibuf
<1>2. mem \in [0..bufSize - 1 -> Cells]
  BY DEF IInv, TypeOK
<1>3. mem' \in [0..bufSize - 1 -> Cells]
  <2> DEFINE ended == [mem EXCEPT ![written] = Nul]
             split == [ended EXCEPT ![1] = Nul]
             again == [split EXCEPT ![0] = ended[1]]
  <2>1. mem' = mem \/ mem' = again \/ mem' = ended
    BY DEF Flush, FlushPlain, FlushLines
  <2>2. Nul \in Cells
    BY DEF Nul, Cells
  <2>3. ended \in [0..bufSize - 1 -> Cells]
    BY <1>2, <2>2
  <2>4. ended[1] \in Cells
    <3>1. bufSize >= 3 /\ bufSize \in Nat
      BY Sizes DEF IInv, TypeOK, Placed
    <3>2. 1 \in 0..bufSize - 1
      BY <3>1
    <3> HIDE DEF ended
    <3> QED
      BY <2>3, <3>2
  <2> HIDE DEF ended
  <2>5. split \in [0..bufSize - 1 -> Cells]
    BY <2>2, <2>3
  <2> HIDE DEF split
  <2>6. again \in [0..bufSize - 1 -> Cells]
    BY <2>4, <2>5
  <2> HIDE DEF again
  <2> QED
    BY <1>2, <2>1, <2>3, <2>6
<1>4. TypeOK'
  BY <1>1, <1>3 DEF IInv, TypeOK
<1>5. Placed'
  BY <1>1 DEF IInv, Placed
<1>6. Balance'
  BY <1>1 DEF Balance
<1>7. Unread'
  BY <1>1 DEF Unread
<1>8. InputInOrder'
  BY <1>1 DEF IInv, InputInOrder
<1> QED
  BY <1>4, <1>5, <1>6, <1>7, <1>8 DEF IInv

LEMMA NextIInv ==
    ASSUME ToolAssumption, IInv, [Next]_vars
    PROVE  IInv'
PROOF
<1>1. ASSUME NEW s \in 1..IbufSize, Fread(s) PROVE IInv'
  BY <1>1, FreadIInv
<1>2. CASE FreadEnd
  <2>1. /\ UNCHANGED <<callVars, mode, bufSize, llen, fed>>
        /\ col' = col /\ i' = i /\ pc = "read" /\ pc' = "end"
    BY <1>2 DEF FreadEnd
  <2> QED
    BY <2>1, QuietIInv DEF IInv, TypeOK
<1>3. CASE Chunk
  BY <1>3, ChunkIInv
<1>4. CASE Return
  <2>1. /\ UNCHANGED <<callVars, mode, bufSize, llen, fed>>
        /\ col' = col /\ (i' = i \/ i' = 0) /\ pc = "call" /\ read = len
        /\ pc' \in {"read", "wrap"}
    BY <1>4 DEF Return
  <2>2. col' \in Nat /\ i' \in Nat
    BY <2>1 DEF IInv, TypeOK
  <2> QED
    BY <2>1, <2>2, QuietIInv
<1>5. CASE PutLine
  <2>1. /\ UNCHANGED <<callVars, mode, bufSize, llen, fed>>
        /\ col' = col + llen /\ i' = col /\ pc = "wrap" /\ pc' = pc
    BY <1>5 DEF PutLine
  <2>2. col \in Nat /\ llen \in Nat
    BY DEF IInv, TypeOK, ToolAssumption
  <2>3. col' \in Nat /\ i' \in Nat
    BY <2>1, <2>2
  <2> QED
    BY <2>1, <2>3, QuietIInv
<1>6. CASE PutRest
  <2>1. /\ UNCHANGED <<callVars, mode, bufSize, llen, fed>>
        /\ col' = col - written /\ i' = i /\ pc = "wrap" /\ pc' = "read"
        /\ col > written
    BY <1>6 DEF PutRest
  <2>2. col \in Nat /\ written \in Nat /\ i \in Nat
    BY DEF IInv, TypeOK
  <2>3. col' \in Nat /\ i' \in Nat
    BY <2>1, <2>2
  <2> QED
    BY <2>1, <2>3, QuietIInv
<1>7. CASE EndCall
  BY <1>7, EndIInv
<1>8. CASE Flush
  BY <1>8, FlushIInv
<1>9. CASE UNCHANGED vars
  <2>1. UNCHANGED <<callVars, toolVars, IbufSize, Ibuf>>
    BY <1>9 DEF vars, toolVars, IbufSize, Ibuf
  <2> QED
    BY <2>1 DEF IInv, TypeOK, Placed, Balance, Unread, InputInOrder, callVars, toolVars
<1> QED
  BY <1>1, <1>2, <1>3, <1>4, <1>5, <1>6, <1>7, <1>8, <1>9 DEF Next, Done

THEOREM Invariance == ASSUME ToolAssumption PROVE Spec => []IInv
PROOF
<1>1. Init => IInv
  BY InitIInv
<1>2. IInv /\ [Next]_vars => IInv'
  BY NextIInv
<1> QED
  BY <1>1, <1>2, PTL DEF Spec

----------------------------------------------------------------------------
\* The types of the tool and of the functions, among them that no call leaves
\* more than 13 bits to encode, or 7 and one character to decode.
THEOREM Types == ASSUME ToolAssumption PROVE Spec => []TypeOK
PROOF
<1>1. IInv => TypeOK
  BY DEF IInv
<1> QED
  BY <1>1, Invariance, PTL

\* Sharing the buffer costs nothing: the codec gets the bytes of standard
\* input in order, whatever the sizes of the buffer and of the chunks.
THEOREM OverlapIsSafe == ASSUME ToolAssumption PROVE Spec => []InputInOrder
PROOF
<1>1. IInv => InputInOrder
  BY DEF IInv
<1> QED
  BY <1>1, Invariance, PTL

\* The slices never cover input that is to be read.
THEOREM SlicesAreClear == ASSUME ToolAssumption PROVE Spec => []SliceClear
PROOF
<1>1. IInv => SliceClear
  BY ClearOfInput DEF SliceClear
<1> QED
  BY <1>1, Invariance, PTL

\* The bound of a chunk's output is one, whatever the functions hold from the
\* calls before.
THEOREM BoundsHold == ASSUME ToolAssumption PROVE Spec => WithinSlice
PROOF
<1>1. IInv /\ [Next]_vars => [read' > read => written' <= written + Bound]_vars
  <2> SUFFICES ASSUME IInv, [Next]_vars, read' > read
               PROVE  written' <= written + Bound
    OBVIOUS
  <2>1. CASE Chunk
    BY <2>1, ChunkIInv
  <2>2. CASE ~Chunk
    <3>1. read \in Nat
      BY Sizes DEF IInv, TypeOK, Placed
    <3>2. read' = 0 \/ read' = read
      BY <2>2 DEF Next, Fread, Call, FreadEnd, Return, PutLine, PutRest, EndCall,
                 EncodeEnd, DecodeEnd, End, Flush, Done, vars, callVars
    <3> QED
      BY <3>1, <3>2
  <2> QED
    BY <2>1, <2>2
<1> QED
  BY <1>1, Invariance, PTL DEF Spec, WithinSlice

\* What the tool puts into the buffer itself fits as well.
THEOREM ToolStaysInside == ASSUME ToolAssumption PROVE Spec => []InsideBuffer
PROOF
<1>1. ASSUME IInv PROVE InsideBuffer
  <2>1. /\ bufSize \in Nat /\ bufSize >= 3 /\ IbufSize \in Nat
        /\ mode = "encode" => bufSize >= 4 /\ 29 * IbufSize <= 16 * (bufSize - 2)
    BY <1>1, Sizes DEF IInv, TypeOK, Placed
  <2>2. /\ written \in Nat /\ nbits \in Nat /\ col \in Nat
        /\ read \in Nat /\ read <= IbufSize /\ mode \in {"encode", "decode"}
    BY <1>1, <2>1 DEF IInv, TypeOK
  <2>3. ASSUME pc = "wrap", col <= written PROVE col < bufSize
    <3>1. CASE mode = "encode"
      <4>1. 13 * written + 2 * nbits <= 26 + 16 * read
        BY <1>1, <2>3, <3>1 DEF IInv, Balance
      <4> QED
        BY <2>1, <2>2, <2>3, <3>1, <4>1
    <3>2. CASE mode = "decode"
      <4>1. 8 * written + nbits + 7 * pending <= 14 + 7 * read
        BY <1>1, <2>3, <3>2 DEF IInv, Balance
      <4>2. 15 * IbufSize <= 8 * (bufSize - 1) /\ pending \in Nat
        BY <1>1, <3>2, Sizes DEF IInv, TypeOK, Placed
      <4> QED
        BY <2>1, <2>2, <2>3, <3>2, <4>1, <4>2
    <3> QED
      BY <2>2, <3>1, <3>2
  <2>4. pc = "flush" /\ Wrapping => written < bufSize
    <3>1. ASSUME pc = "flush", Wrapping PROVE written <= 2 /\ bufSize >= 4
      BY <1>1, <2>1, <3>1 DEF IInv, Balance, Wrapping
    <3> QED
      BY <2>1, <2>2, <3>1
  <2> QED
    BY <2>1, <2>2, <2>3, <2>4 DEF InsideBuffer
<1> QED
  BY <1>1, Invariance, PTL

----------------------------------------------------------------------------
\* The lines that the tool prints.

\* What is printed: output bytes and line feeds.
Shown == {Out(k) : k \in Nat} \cup {Lf}

\* The k output bytes behind the first n.
Piece(n, k) == [j \in 1..k |-> Out(n + j)]

\* What ends a line that k more bytes fill.
Break(k, room) == IF k = room THEN <<Lf>> ELSE << >>

LEMMA PieceIs ==
    ASSUME NEW n \in Nat, NEW k \in Nat
    PROVE  /\ Piece(n, k) \in Seq(Shown) /\ Len(Piece(n, k)) = k
           /\ \A j \in 1..k : Piece(n, k)[j] = Out(n + j)
<1>1. \A j \in 1..k : Out(n + j) \in Shown
  BY DEF Shown
<1>2. Piece(n, k) \in [1..k -> Shown]
  BY <1>1 DEF Piece
<1>3. Piece(n, k) \in Seq(Shown)
  BY <1>2, SeqDef
<1> QED
  BY <1>2, <1>3 DEF Piece

LEMMA BreakIs ==
    ASSUME NEW k, NEW room
    PROVE  /\ Break(k, room) \in Seq(Shown)
           /\ Len(Break(k, room)) = IF k = room THEN 1 ELSE 0
           /\ k = room => Break(k, room)[1] = Lf
<1>1. Lf \in Shown
  BY DEF Shown
<1> QED
  BY <1>1 DEF Break

\* What stands at place p of wrapped output: it does not depend on its length.
Standing(w, p) == IF p % (w + 1) = 0 THEN Lf ELSE Out(p - (p \div (w + 1)))

LEMMA FlowIs ==
    ASSUME NEW w \in Nat \ {0}, NEW n \in Nat
    PROVE  LET N == n + (n \div w)
               t == Flow(Outputs(n), w, Lf)
           IN  /\ N \in Nat /\ t \in Seq(Shown) /\ Len(t) = N
               /\ \A p \in 1..N : t[p] = Standing(w, p)
<1> DEFINE N == n + (n \div w)
           t == Flow(Outputs(n), w, Lf)
<1>1. N \in Nat
  BY Division
<1>2. Len(Outputs(n)) = n /\ \A x \in 1..n : Outputs(n)[x] = Out(x)
  BY DEF Outputs
<1>3. t = [k \in 1..N |-> IF k % (w + 1) = 0 THEN Lf ELSE Outputs(n)[k - (k \div (w + 1))]]
  BY <1>2 DEF Flow
<1>4. \A p \in 1..N : t[p] = Standing(w, p)
  <2> SUFFICES ASSUME NEW p \in 1..N PROVE t[p] = Standing(w, p)
    OBVIOUS
  <2>1. CASE p % (w + 1) = 0
    BY <1>3, <2>1 DEF Standing
  <2>2. CASE p % (w + 1) # 0
    <3>1. p - (p \div (w + 1)) \in 1..n
      BY <2>2, InText
    <3>2. t[p] = Outputs(n)[p - (p \div (w + 1))]
      BY <1>3, <2>2
    <3>3. Outputs(n)[p - (p \div (w + 1))] = Out(p - (p \div (w + 1)))
      BY <1>2, <3>1, Zenon
    <3> QED
      BY <2>2, <3>2, <3>3, Zenon DEF Standing
  <2> QED
    BY <2>1, <2>2
<1>5. \A p \in 1..N : t[p] \in Shown
  <2> SUFFICES ASSUME NEW p \in 1..N PROVE t[p] \in Shown
    OBVIOUS
  <2>1. CASE p % (w + 1) = 0
    BY <1>4, <2>1, Zenon DEF Standing, Shown
  <2>2. CASE p % (w + 1) # 0
    <3>1. p - (p \div (w + 1)) \in 1..n
      BY <2>2, InText
    <3>2. p - (p \div (w + 1)) \in Nat
      BY <3>1
    <3> QED
      BY <1>4, <2>2, <3>2, Zenon DEF Standing, Shown
  <2> QED
    BY <2>1, <2>2
<1>6. DOMAIN t = 1..N /\ t = [p \in 1..N |-> t[p]]
  BY <1>3
<1> HIDE DEF t, N
<1>7. t \in [1..N -> Shown]
  BY <1>5, <1>6
<1>8. t \in Seq(Shown) /\ Len(t) = N
  BY <1>1, <1>6, <1>7, SeqDef
<1> QED
  BY <1>1, <1>4, <1>8 DEF t, N

\* The output that k more bytes make of the first n, when room is left in the
\* last line.
Grows(w, n, k, room) ==
    /\ Flow(Outputs(n + k), w, Lf)
         = (Flow(Outputs(n), w, Lf) \o Piece(n, k)) \o Break(k, room)
    /\ (n + k) % w = IF k = room THEN 0 ELSE w - (room - k)

\* More text within a line goes on behind what is there, and a line that it
\* fills is ended.
LEMMA MoreFlow ==
    ASSUME NEW w \in Nat \ {0}, NEW n \in Nat, NEW k \in Nat, NEW room \in Nat,
           (n % w) + room = w, k <= room
    PROVE  Grows(w, n, k, room)
<1> DEFINE m == n \div w
           r == n % w
           d == IF k = room THEN 1 ELSE 0
           N == n + m
           s == Flow(Outputs(n), w, Lf)
           t == Flow(Outputs(n + k), w, Lf)
           b == Break(k, room)
           u == (s \o Piece(n, k)) \o b
<1>1. m \in Nat /\ r \in 0..w - 1 /\ n = w * m + r /\ r + room = w
  BY Division
<1> HIDE DEF m, r
<1>2. /\ (n + k) \div w = m + d
      /\ (n + k) % w = IF k = room THEN 0 ELSE w - (room - k)
  <2>1. CASE k = room
    <3>1. n + k = w * (m + 1) + 0
      BY <1>1, <2>1
    <3>2. m + 1 \in Nat /\ 0 \in 0..w - 1
      BY <1>1
    <3>3. (w * (m + 1) + 0) \div w = m + 1 /\ (w * (m + 1) + 0) % w = 0
      BY <3>2, DivisionUnique, Zenon
    <3> QED
      BY <2>1, <3>1, <3>3, Zenon
  <2>2. CASE k # room
    <3>1. n + k = w * m + (r + k) /\ r + k \in 0..w - 1 /\ r + k = w - (room - k)
      BY <1>1, <2>2
    <3> QED
      BY <1>1, <2>2, <3>1, DivisionUnique
  <2> QED
    BY <2>1, <2>2
<1>3. /\ s \in Seq(Shown) /\ Len(s) = N /\ N \in Nat
      /\ \A p \in 1..N : s[p] = Standing(w, p)
  BY FlowIs DEF m
<1>4. /\ t \in Seq(Shown) /\ Len(t) = N + k + d
      /\ \A p \in 1..N + k + d : t[p] = Standing(w, p)
  <2> DEFINE M == (n + k) + ((n + k) \div w)
  <2>1. /\ t \in Seq(Shown) /\ Len(t) = M
        /\ \A p \in 1..M : t[p] = Standing(w, p)
    <3>1. n + k \in Nat
      OBVIOUS
    <3> QED
      BY <3>1, FlowIs, Zenon
  <2>2. M = N + k + d
    BY <1>1, <1>2
  <2> HIDE DEF M
  <2> QED
    BY <2>1, <2>2
<1>5. /\ Piece(n, k) \in Seq(Shown) /\ Len(Piece(n, k)) = k
      /\ \A j \in 1..k : Piece(n, k)[j] = Out(n + j)
  BY PieceIs
<1>6. b \in Seq(Shown) /\ Len(b) = d /\ (d = 1 => b[1] = Lf) /\ d \in {0, 1}
  <2>1. /\ Break(k, room) \in Seq(Shown)
        /\ Len(Break(k, room)) = IF k = room THEN 1 ELSE 0
        /\ k = room => Break(k, room)[1] = Lf
    BY BreakIs, Zenon
  <2> QED
    BY <2>1
<1>7. /\ N + k + d \in Nat
      /\ \A j \in 1..k : Standing(w, N + j) = Out(n + j)
      /\ d = 1 => Standing(w, N + k + 1) = Lf
  <2>1. \A j \in 1..k : Standing(w, N + j) = Out(n + j)
    <3> SUFFICES ASSUME NEW j \in 1..k PROVE Standing(w, N + j) = Out(n + j)
      OBVIOUS
    <3>1. r + j \in 0..w /\ r + j # 0
      BY <1>1
    <3>2. N + j = (w + 1) * m + (r + j)
      BY <1>1
    <3>3. (N + j) \div (w + 1) = m /\ (N + j) % (w + 1) = r + j
      BY <1>1, <3>1, <3>2, Rows
    <3>4. (N + j) - m = n + j
      BY <1>1
    <3> QED
      BY <3>1, <3>3, <3>4, Zenon DEF Standing
  <2>2. ASSUME d = 1 PROVE Standing(w, N + k + 1) = Lf
    <3>1. k = room
      BY <2>2
    <3>2. N + k + 1 = (w + 1) * (m + 1) + 0
      BY <1>1, <3>1
    <3>3. (N + k + 1) % (w + 1) = 0
      <4>1. m + 1 \in Nat /\ 0 \in 0..w
        BY <1>1
      <4> QED
        BY <3>2, <4>1, Rows
    <3> QED
      BY <3>3, Zenon DEF Standing
  <2> QED
    BY <1>3, <1>6, <2>1, <2>2
<1> HIDE DEF N, d, s, t, b
<1>8. /\ u \in Seq(Shown) /\ Len(u) = N + k + d
      /\ \A p \in 1..N + k + d : u[p] = t[p]
  <2> DEFINE v == s \o Piece(n, k)
  <2>1. v \in Seq(Shown) /\ Len(v) = N + k
    BY <1>3, <1>5, ConcatProperties
  <2>2. \A p \in 1..N + k : v[p] = Standing(w, p)
    <3> SUFFICES ASSUME NEW p \in 1..N + k PROVE v[p] = Standing(w, p)
      OBVIOUS
    <3>1. CASE p \in 1..N
      BY <1>3, <1>5, <3>1, ConcatProperties
    <3>2. CASE p \notin 1..N
      <4>1. p - N \in 1..k /\ p = N + (p - N)
        BY <1>3, <3>2
      <4>2. v[p] = Piece(n, k)[p - N]
        <5>1. p \in 1..Len(s) + Len(Piece(n, k)) /\ ~ (p <= Len(s))
          BY <1>3, <1>5, <3>2
        <5>2. v[p] = IF p <= Len(s) THEN s[p] ELSE Piece(n, k)[p - Len(s)]
          BY <1>3, <1>5, <5>1, ConcatProperties, Zenon
        <5> QED
          BY <1>3, <5>1, <5>2, Zenon
      <4> QED
        BY <1>5, <1>7, <4>1, <4>2
    <3> QED
      BY <3>1, <3>2
  <2> HIDE DEF v
  <2>3. v \o b \in Seq(Shown) /\ Len(v \o b) = N + k + d
    BY <1>3, <1>6, <2>1, ConcatProperties
  <2>4. \A p \in 1..N + k + d : (v \o b)[p] = Standing(w, p)
    <3> SUFFICES ASSUME NEW p \in 1..N + k + d PROVE (v \o b)[p] = Standing(w, p)
      OBVIOUS
    <3>0. (v \o b)[p] = IF p <= Len(v) THEN v[p] ELSE b[p - Len(v)]
      <4>1. p \in 1..Len(v) + Len(b)
        BY <1>3, <1>6, <2>1
      <4> QED
        BY <1>6, <2>1, <4>1, ConcatProperties, Zenon
    <3>1. CASE p \in 1..N + k
      <4>1. p <= Len(v)
        BY <1>3, <2>1, <3>1
      <4>2. (v \o b)[p] = v[p]
        BY <3>0, <4>1, Zenon
      <4> QED
        BY <2>2, <3>1, <4>2, Zenon
    <3>2. CASE p \notin 1..N + k
      <4>1. d = 1 /\ p = N + k + 1 /\ p - Len(v) = 1 /\ ~ (p <= Len(v))
        BY <1>3, <1>6, <2>1, <3>2
      <4>2. (v \o b)[p] = b[1]
        BY <3>0, <4>1, Zenon
      <4> QED
        BY <1>6, <1>7, <4>1, <4>2
    <3> QED
      BY <3>1, <3>2
  <2> QED
    BY <1>4, <2>3, <2>4 DEF v
<1>9. u = t
  BY <1>4, <1>8, SeqEqual
<1> QED
  BY <1>2, <1>9 DEF s, t, b, Grows

\* Without lines, the text is as it is.
LEMMA MorePlain ==
    ASSUME NEW n \in Nat, NEW k \in Nat
    PROVE  Outputs(n + k) = Outputs(n) \o Piece(n, k)
<1> DEFINE s == Outputs(n)
           t == Outputs(n + k)
           p == Piece(n, k)
<1>1. /\ s \in Seq(Shown) /\ Len(s) = n /\ \A x \in 1..n : s[x] = Out(x)
      /\ t \in Seq(Shown) /\ Len(t) = n + k /\ \A x \in 1..n + k : t[x] = Out(x)
  BY DEF Outputs, Shown
<1>2. /\ p \in Seq(Shown) /\ Len(p) = k
      /\ \A j \in 1..k : p[j] = Out(n + j)
  BY PieceIs
<1> HIDE DEF s, t, p
<1>3. s \o p \in Seq(Shown) /\ Len(s \o p) = n + k
  BY <1>1, <1>2, ConcatProperties
<1>4. ASSUME NEW x \in 1..n + k
      PROVE  (s \o p)[x] = t[x]
  <2>1. (s \o p)[x] = IF x <= n THEN s[x] ELSE p[x - n]
    BY <1>1, <1>2, ConcatProperties
  <2>2. CASE x <= n
    BY <1>1, <2>1, <2>2
  <2>3. CASE ~ (x <= n)
    <3>1. x - n \in 1..k /\ x = n + (x - n)
      BY <2>3
    <3> QED
      BY <1>1, <1>2, <2>1, <2>3, <3>1
  <2> QED
    BY <2>2, <2>3
<1>5. t = s \o p
  BY <1>1, <1>3, <1>4, SeqEqual
<1> QED
  BY <1>5 DEF s, t, p

\* The last of the text, and the line feed that ends its line if any of it is
\* short.
LEMMA LastFlow ==
    ASSUME NEW w \in Nat \ {0}, NEW n \in Nat, NEW k \in Nat, NEW room \in Nat,
           (n % w) + room = w, k <= room, ~ (k = 0 /\ room = w)
    PROVE  Lines(Outputs(n + k), w, Lf)
                = Flow(Outputs(n), w, Lf) \o (Piece(n, k) \o <<Lf>>)
<1> DEFINE s == Flow(Outputs(n), w, Lf)
           p == Piece(n, k)
           rest == IF (n + k) % w # 0 THEN <<Lf>> ELSE << >>
<1>1. /\ Flow(Outputs(n + k), w, Lf) = (s \o p) \o Break(k, room)
      /\ (n + k) % w = IF k = room THEN 0 ELSE w - (room - k)
  <2>1. Grows(w, n, k, room)
    BY MoreFlow, Zenon
  <2> QED
    BY <2>1, Zenon DEF Grows
<1>2. rest = IF k # room THEN <<Lf>> ELSE << >>
  BY <1>1
<1>3. Len(Outputs(n + k)) = n + k
  BY DEF Outputs
<1>4. Lines(Outputs(n + k), w, Lf) = ((s \o p) \o Break(k, room)) \o rest
  BY <1>1, <1>3 DEF Lines, Break
<1>5. s \in Seq(Shown) /\ p \in Seq(Shown) /\ <<Lf>> \in Seq(Shown)
  <2>1. Lf \in Shown
    BY DEF Shown
  <2>2. s \in Seq(Shown)
    BY FlowIs, Zenon
  <2>3. p \in Seq(Shown)
    BY PieceIs
  <2> QED
    BY <2>1, <2>2, <2>3
<1> HIDE DEF s, p, rest
<1>6. s \o p \in Seq(Shown) /\ (s \o p) \o <<Lf>> \in Seq(Shown)
      /\ (s \o p) \o <<Lf>> = s \o (p \o <<Lf>>)
  BY <1>5, ConcatProperties, ConcatAssociative
<1>7. ((s \o p) \o Break(k, room)) \o rest = (s \o p) \o <<Lf>>
  <2>1. CASE k = room
    <3>1. Break(k, room) = <<Lf>> /\ rest = << >>
      BY <1>2, <2>1 DEF Break
    <3>2. ((s \o p) \o <<Lf>>) \o << >> = (s \o p) \o <<Lf>>
      BY <1>6, ConcatEmptySeq
    <3> QED
      BY <3>1, <3>2, Zenon
  <2>2. CASE k # room
    <3>1. Break(k, room) = << >> /\ rest = <<Lf>>
      BY <1>2, <2>2 DEF Break
    <3>2. (s \o p) \o << >> = s \o p
      BY <1>6, ConcatEmptySeq
    <3> QED
      BY <3>1, <3>2, Zenon
  <2> QED
    BY <2>1, <2>2
<1> QED
  BY <1>4, <1>6, <1>7 DEF s, p

----------------------------------------------------------------------------
\* What the tool has printed.

Width == IF Wrapping THEN llen ELSE 0

\* The first n bytes are printed, and their last line has room for more.
Lay(n, room) ==
    /\ printed = Flow(Outputs(n), Width, Lf)
    /\ Wrapping => (n % llen) + room = llen

\* The call's output is at the beginning of the buffer.
Held ==
    /\ written <= made /\ written <= bufSize
    /\ \A a \in 0..written - 1 : mem[a] = Out((made - written) + a + 1)

\* What is printed, and where the line in progress ends, counted from the
\* beginning of the buffer.
LinesSound ==
    /\ pc \in {"read", "end"} => Lay(made, col)
    /\ pc \in {"call", "flush"} => Lay(made - written, col) /\ Held
    /\ pc = "wrap" =>
          /\ Wrapping /\ Held /\ i \in 0..written /\ i <= col
          /\ Lay((made - written) + i, col - i)
    /\ pc = "done" => printed = Lines(Outputs(made), Width, Lf)

Taken(m, from, k) == [j \in 1..k |-> m[from + j - 1]]

\* The bytes of the buffer that are printed are the next ones of the output.
LEMMA Copied ==
    ASSUME NEW m, NEW n \in Nat, NEW from \in Nat, NEW k \in Nat,
           \A b \in 0..k - 1 : m[from + b] = Out(n + b + 1)
    PROVE  Taken(m, from, k) = Piece(n, k)
<1>1. ASSUME NEW j \in 1..k
      PROVE  m[from + j - 1] = Out(n + j)
  <2>1. j - 1 \in 0..k - 1 /\ from + (j - 1) = from + j - 1 /\ n + (j - 1) + 1 = n + j
    OBVIOUS
  <2>2. m[from + (j - 1)] = Out(n + (j - 1) + 1)
    BY <2>1
  <2> QED
    BY <2>1, <2>2
<1> QED
  BY <1>1, Zenon DEF Piece, Taken

LEMMA SliceIs ==
    ASSUME TypeOK, Held, NEW from \in Nat, NEW to \in from..written
    PROVE  Slice(from, to) = Piece((made - written) + from, to - from)
<1>1. made \in Nat /\ written \in Nat /\ made - written \in Nat /\ to - from \in Nat
      /\ (made - written) + from \in Nat /\ to <= written
  BY DEF TypeOK, Held
<1>2. ASSUME NEW b \in 0..(to - from) - 1
      PROVE  mem[from + b] = Out(((made - written) + from) + b + 1)
  <2>1. from + b \in 0..written - 1
        /\ (made - written) + (from + b) + 1 = ((made - written) + from) + b + 1
    BY <1>1
  <2> QED
    BY <2>1, Zenon DEF Held
<1>3. Taken(mem, from, to - from) = Piece((made - written) + from, to - from)
  BY <1>1, <1>2, Copied, Zenon
<1> QED
  BY <1>3 DEF Slice, Taken

\* puts prints up to the NUL that the tool has put, as there is no other.
LEMMA PutsIs ==
    ASSUME NEW m, NEW n \in Nat, NEW from \in Nat, NEW k \in Nat,
           \A b \in 0..k - 1 : m[from + b] = Out(n + b + 1),
           m[from + k] = Nul
    PROVE  Puts(m, from, from + k) = Piece(n, k) \o <<Lf>>
<1> DEFINE P(a) == m[a] = Nul /\ \A b \in from..a - 1 : m[b] # Nul
           end == CHOOSE a \in from..from + k : P(a)
<1>1. ASSUME NEW a \in from..from + k, a # from + k
      PROVE  m[a] # Nul
  <2>1. a - from \in 0..k - 1 /\ from + (a - from) = a
    BY <1>1
  <2>2. m[from + (a - from)] = Out(n + (a - from) + 1)
    BY <2>1
  <2> QED
    BY <2>1, <2>2 DEF Out, Nul
<1>2. from + k \in from..from + k /\ P(from + k)
  BY <1>1
<1>3. \A a \in from..from + k : P(a) => a = from + k
  BY <1>1
<1>4. end = from + k
  <2> HIDE DEF P
  <2> QED
    BY <1>2, <1>3
<1>5. Taken(m, from, k) = Piece(n, k)
  BY Copied, Zenon
<1>6. Puts(m, from, from + k) = Taken(m, from, end - from) \o <<Lf>>
  BY DEF Puts, Taken
<1> HIDE DEF end
<1>7. end - from = k
  BY <1>4
<1> QED
  BY <1>5, <1>6, <1>7, Zenon

LEMMA InitLines ==
    ASSUME ToolAssumption, Init
    PROVE  LinesSound
<1>1. llen \in Nat /\ made = 0 /\ col = llen /\ printed = << >> /\ pc = "read"
  BY DEF Init, ToolAssumption
<1>2. Outputs(0) = << >> /\ Flow(<< >>, 0, Lf) = << >>
  BY DEF Outputs, Flow
<1>3. ASSUME llen \in Nat \ {0}
      PROVE  Flow(<< >>, llen, Lf) = << >> /\ (0 % llen) + llen = llen
  <2>1. 0 % llen = 0 /\ 0 \div llen = 0
    <3>1. llen * 0 + 0 = 0 /\ 0 \in 0..llen - 1
      BY <1>3
    <3>2. (llen * 0 + 0) \div llen = 0 /\ (llen * 0 + 0) % llen = 0
      BY <1>3, <3>1, DivisionUnique
    <3> QED
      BY <3>1, <3>2, Zenon
  <2>2. /\ Flow(Outputs(0), llen, Lf) \in Seq(Shown)
        /\ Len(Flow(Outputs(0), llen, Lf)) = 0 + (0 \div llen)
    BY <1>3, FlowIs
  <2>3. Flow(Outputs(0), llen, Lf) = << >>
    BY <2>1, <2>2, EmptySeq
  <2> QED
    BY <1>2, <1>3, <2>1, <2>3
<1>4. Lay(made, col)
  BY <1>1, <1>2, <1>3 DEF Lay, Width, Wrapping
<1> QED
  BY <1>1, <1>4 DEF LinesSound

LEMMA FreadLines ==
    ASSUME ToolAssumption, IInv, LinesSound, NEW s \in 1..IbufSize, Fread(s)
    PROVE  LinesSound'
<1>1. /\ pc = "read" /\ pc' = "call" /\ written' = 0
      /\ UNCHANGED <<made, printed, col, llen, mode, bufSize>>
  BY DEF Fread, Call
<1>2. made \in Nat /\ made - 0 = made /\ bufSize \in Nat
  BY Sizes DEF IInv, TypeOK, Placed
<1>3. Lay(made, col)
  BY <1>1 DEF LinesSound
<1>4. Lay(made - written, col)'
  BY <1>1, <1>2, <1>3 DEF Lay, Width, Wrapping
<1>5. Held'
  BY <1>1, <1>2 DEF Held
<1> QED
  BY <1>1, <1>4, <1>5 DEF LinesSound

\* A chunk's output goes behind what the call has written.
LEMMA ChunkLines ==
    ASSUME ToolAssumption, IInv, LinesSound, Chunk
    PROVE  LinesSound'
<1>1. pc = "call" /\ pc' = "call" /\ UNCHANGED toolVars /\ read < len
  BY DEF Chunk, toolVars, EncodeChunk, DecodeChunk
<1>2. PICK w \in Int : ChunkRead(w) /\ w >= 0
  <2>0. /\ nbits \in Nat /\ pending \in Nat /\ ChunkLen \in Nat
    <3>1. IbufSize \in Nat
      BY Sizes DEF IInv, TypeOK, Placed
    <3>2. len \in Nat /\ read \in 0..len
      BY <3>1 DEF IInv, TypeOK
    <3> QED
      BY <1>1, <3>2, NextChunk DEF IInv, TypeOK
  <2>1. CASE mode = "encode"
    <3>1. PICK g \in 0..(nbits + 8 * ChunkLen) \div 13 : ChunkRead(2 * g)
      BY <2>1 DEF Chunk, EncodeChunk
    <3>2. 2 * g \in Int /\ 2 * g >= 0
      OBVIOUS
    <3> QED
      BY <3>1, <3>2
  <2>2. CASE mode # "encode"
    <3>1. PICK c \in 0..ChunkLen :
             \E t \in 13 * ((pending + c) \div 2)..14 * ((pending + c) \div 2) :
                ChunkRead((nbits + t) \div 8)
      BY <2>2 DEF Chunk, DecodeChunk
    <3>2. PICK t \in 13 * ((pending + c) \div 2)..14 * ((pending + c) \div 2) :
                ChunkRead((nbits + t) \div 8)
      BY <3>1
    <3>3. (pending + c) \div 2 \in Nat
      BY <2>0, Halves
    <3>4. t \in Nat
      BY <3>2, <3>3
    <3>5. (nbits + t) \div 8 \in Int /\ (nbits + t) \div 8 >= 0
      BY <2>0, <3>4
    <3> QED
      BY <3>2, <3>5
  <2> QED
    BY <2>1, <2>2
<1>3. /\ mem' = Stored(out + written, w) /\ made' = made + w
      /\ written' = written + w /\ out = 0
  BY <1>2 DEF ChunkRead, IInv, Placed
<1>4. /\ written \in Nat /\ made \in Nat /\ w \in Nat /\ bufSize \in Nat
      /\ mem \in [0..bufSize - 1 -> Cells]
  BY <1>2, Sizes DEF IInv, TypeOK, Placed
<1>5. written' <= bufSize
  <2>1. /\ Bound \in Nat /\ out + written + Bound <= in + read + ChunkLen
        /\ in + len <= bufSize
    BY <1>1, ClearOfInput
  <2>2. ChunkLen \in 1..len - read
    BY <1>1, <1>4, Sizes, NextChunk DEF IInv, TypeOK, Placed
  <2>3. written' <= written + Bound
    BY ChunkIInv
  <2>4. in \in Nat /\ len \in Nat /\ read \in Nat
    BY Sizes DEF IInv, TypeOK, Placed
  <2> QED
    BY <1>3, <1>4, <2>1, <2>2, <2>3, <2>4
<1>6. made' - written' = made - written /\ written <= made
  BY <1>1, <1>3, <1>4 DEF LinesSound, Held
<1>7. ASSUME NEW a \in 0..written' - 1
      PROVE  mem'[a] = Out((made' - written') + a + 1)
  <2>1. a \in 0..bufSize - 1 /\ 0 + written = written
    BY <1>3, <1>4, <1>5
  <2>2. mem'[a] = IF a \in 0 + written..0 + written + w - 1
                  THEN Out(made + (a - (0 + written)) + 1) ELSE mem[a]
    BY <1>3, <1>4, <2>1 DEF Stored
  <2>3. CASE a < written
    <3>1. a \in 0..written - 1
      BY <1>4, <2>3
    <3>2. mem[a] = Out((made - written) + a + 1)
      BY <1>1, <3>1 DEF LinesSound, Held
    <3> QED
      BY <1>4, <1>6, <2>2, <2>3, <3>2
  <2>4. CASE a >= written
    <3>1. a \in 0 + written..0 + written + w - 1
          /\ made + (a - (0 + written)) + 1 = (made - written) + a + 1
      BY <1>3, <1>4, <2>4
    <3> QED
      BY <1>6, <2>2, <3>1, Zenon
  <2> QED
    BY <1>4, <2>3, <2>4
<1>8. Held'
  <2>1. bufSize' = bufSize /\ written' <= made'
    BY <1>1, <1>3, <1>4, <1>6 DEF toolVars
  <2> QED
    BY <1>5, <1>7, <2>1 DEF Held
<1>9. Lay(made - written, col)'
  <2>1. Lay(made - written, col)
    BY <1>1 DEF LinesSound
  <2>2. UNCHANGED <<printed, col, llen, mode>>
    BY <1>1 DEF toolVars
  <2> QED
    BY <1>6, <2>1, <2>2 DEF Lay, Width, Wrapping
<1> QED
  BY <1>1, <1>8, <1>9 DEF LinesSound

\* Printing the next k bytes, within a line.
LEMMA Printing ==
    ASSUME TypeOK, ToolAssumption, NEW n \in Nat, NEW room \in Nat, Lay(n, room),
           NEW k \in Nat
    PROVE  /\ ~ Wrapping => Flow(Outputs(n + k), Width, Lf) = printed \o Piece(n, k)
           /\ Wrapping /\ k < room =>
                 /\ Flow(Outputs(n + k), Width, Lf) = printed \o Piece(n, k)
                 /\ ((n + k) % llen) + (room - k) = llen
           /\ Wrapping /\ k = room =>
                 /\ Flow(Outputs(n + k), Width, Lf) = printed \o (Piece(n, k) \o <<Lf>>)
                 /\ ((n + k) % llen) + llen = llen
           /\ Wrapping => printed \in Seq(Shown) /\ room >= 1 /\ llen \in Nat \ {0}
<1>1. CASE ~ Wrapping
  <2>1. Flow(Outputs(n), 0, Lf) = Outputs(n) /\ Flow(Outputs(n + k), 0, Lf) = Outputs(n + k)
    BY DEF Flow
  <2>2. printed = Outputs(n) /\ Width = 0
    BY <1>1, <2>1 DEF Lay, Width
  <2>3. Outputs(n + k) = Outputs(n) \o Piece(n, k)
    BY MorePlain
  <2> QED
    BY <1>1, <2>1, <2>2, <2>3, Zenon
<1>2. CASE Wrapping
  <2>1. llen \in Nat \ {0} /\ Width = llen /\ (n % llen) + room = llen
        /\ printed = Flow(Outputs(n), llen, Lf)
    BY <1>2 DEF Lay, Width, Wrapping, TypeOK, ToolAssumption
  <2>2. printed \in Seq(Shown) /\ Piece(n, k) \in Seq(Shown)
    <3>1. Flow(Outputs(n), llen, Lf) \in Seq(Shown)
      BY <2>1, FlowIs, Zenon
    <3> QED
      BY <2>1, <3>1, PieceIs
  <2>3. room >= 1
    <3>1. n % llen \in 0..llen - 1
      BY <2>1, Division
    <3> QED
      BY <2>1, <3>1
  <2>4. k <= room => Grows(llen, n, k, room)
    BY <2>1, MoreFlow, Zenon
  <2>5. ASSUME k < room
        PROVE  /\ Flow(Outputs(n + k), Width, Lf) = printed \o Piece(n, k)
               /\ ((n + k) % llen) + (room - k) = llen
    <3>1. k <= room /\ k # room /\ llen \in Nat /\ room - k \in Nat
      BY <2>1, <2>5
    <3>2. /\ Flow(Outputs(n + k), llen, Lf)
                = (Flow(Outputs(n), llen, Lf) \o Piece(n, k)) \o Break(k, room)
          /\ (n + k) % llen = llen - (room - k)
      BY <2>4, <3>1, Zenon DEF Grows
    <3>3. Break(k, room) = << >>
      BY <3>1 DEF Break
    <3>4. (printed \o Piece(n, k)) \o << >> = printed \o Piece(n, k)
      <4>1. printed \o Piece(n, k) \in Seq(Shown)
        BY <2>2, ConcatProperties
      <4> QED
        BY <4>1, ConcatEmptySeq
    <3>5. Flow(Outputs(n + k), Width, Lf) = printed \o Piece(n, k)
      BY <2>1, <3>2, <3>3, <3>4, Zenon
    <3>6. ((n + k) % llen) + (room - k) = llen
      BY ONLY <3>1, <3>2, room \in Nat, k \in Nat
    <3> QED
      BY <3>5, <3>6
  <2>6. ASSUME k = room
        PROVE  /\ Flow(Outputs(n + k), Width, Lf) = printed \o (Piece(n, k) \o <<Lf>>)
               /\ ((n + k) % llen) + llen = llen
    <3>1. k <= room /\ llen \in Nat
      BY <2>1, <2>6
    <3>2. /\ Flow(Outputs(n + k), llen, Lf)
                = (Flow(Outputs(n), llen, Lf) \o Piece(n, k)) \o Break(k, room)
          /\ (n + k) % llen = 0
      BY <2>4, <2>6, <3>1, Zenon DEF Grows
    <3>3. Break(k, room) = <<Lf>> /\ <<Lf>> \in Seq(Shown)
      <4>1. Lf \in Shown
        BY DEF Shown
      <4> QED
        BY <2>6, <4>1 DEF Break
    <3>4. (printed \o Piece(n, k)) \o <<Lf>> = printed \o (Piece(n, k) \o <<Lf>>)
      BY <2>2, <3>3, ConcatAssociative
    <3>5. Flow(Outputs(n + k), Width, Lf) = printed \o (Piece(n, k) \o <<Lf>>)
      BY <2>1, <3>2, <3>3, <3>4, Zenon
    <3>6. ((n + k) % llen) + llen = llen
      BY ONLY <3>1, <3>2
    <3> QED
      BY <3>5, <3>6
  <2> QED
    BY <1>2, <2>1, <2>2, <2>3, <2>5, <2>6
<1> QED
  BY <1>1, <1>2

LEMMA ReturnLines ==
    ASSUME ToolAssumption, IInv, LinesSound, Return
    PROVE  LinesSound'
<1>1. /\ pc = "call" /\ UNCHANGED <<mem, written, made, mode, bufSize, llen, col>>
      /\ Wrapping => pc' = "wrap" /\ i' = 0 /\ printed' = printed
      /\ ~ Wrapping => pc' = "read" /\ printed' = printed \o Slice(0, written)
      /\ Lay(made - written, col) /\ Held
  BY DEF Return, callVars, LinesSound
<1>2. /\ written \in Nat /\ made \in Nat /\ made - written \in Nat /\ col \in Nat
      /\ (made - written) + 0 = made - written /\ col - 0 = col
      /\ (made - written) + written = made /\ written - 0 = written
      /\ 0 \in 0..written /\ written \in 0..written /\ 0 <= col
  BY <1>1 DEF IInv, TypeOK, Held
<1>3. Held' /\ Width' = Width /\ Wrapping' = Wrapping
  BY <1>1 DEF Held, Width, Wrapping
<1>4. CASE Wrapping
  <2>1. Lay((made - written) + i, col - i)'
    BY <1>1, <1>2, <1>3, <1>4 DEF Lay
  <2> QED
    BY <1>1, <1>2, <1>3, <1>4, <2>1 DEF LinesSound
<1>5. CASE ~ Wrapping
  <2>1. Slice(0, written) = Piece((made - written) + 0, written - 0)
    BY <1>1, <1>2, SliceIs DEF IInv
  <2>2. Flow(Outputs((made - written) + written), Width, Lf)
            = printed \o Piece(made - written, written)
    BY <1>1, <1>2, <1>5, Printing DEF IInv
  <2>3. printed' = Flow(Outputs(made), Width, Lf)
    BY <1>1, <1>2, <1>5, <2>1, <2>2
  <2>4. Lay(made, col)'
    BY <1>1, <1>3, <1>5, <2>3 DEF Lay
  <2> QED
    BY <1>1, <1>5, <2>4 DEF LinesSound
<1> QED
  BY <1>4, <1>5

LEMMA PutLineLines ==
    ASSUME ToolAssumption, IInv, LinesSound, PutLine
    PROVE  LinesSound'
<1> DEFINE n == (made - written) + i
           k == col - i
           m == [mem EXCEPT ![col] = Nul]
<1>1. /\ pc = "wrap" /\ pc' = "wrap" /\ col <= written
      /\ UNCHANGED <<mem, written, made, mode, bufSize, llen>>
      /\ printed' = printed \o Puts(m, i, col) /\ i' = col /\ col' = col + llen
      /\ Wrapping /\ Held /\ i \in 0..written /\ i <= col /\ Lay(n, k)
  BY DEF PutLine, callVars, LinesSound
<1>2. /\ written \in Nat /\ made \in Nat /\ col \in Nat /\ i \in Nat /\ llen \in Nat
      /\ bufSize \in Nat /\ mem \in [0..bufSize - 1 -> Cells]
  BY Sizes DEF IInv, TypeOK, Placed, ToolAssumption
<1>3. n \in Nat /\ k \in Nat /\ i + k = col /\ n + k = (made - written) + col
  BY <1>1, <1>2 DEF Held
<1>4. col < bufSize
  <2>1. mode = "encode" /\ 13 * written + 2 * nbits <= 26 + 16 * read
    BY <1>1 DEF Wrapping, IInv, Balance
  <2>2. /\ bufSize >= 4 /\ 29 * IbufSize <= 16 * (bufSize - 2) /\ IbufSize \in Nat
    BY <2>1, Sizes DEF IInv, TypeOK, Placed
  <2>3. nbits \in Nat /\ read \in Nat /\ read <= IbufSize
    BY <2>1, <2>2 DEF IInv, TypeOK
  <2> QED
    BY ONLY <1>1, <1>2, <2>1, <2>2, <2>3
<1>5. m[i + k] = Nul
  BY <1>2, <1>3, <1>4
<1>6. ASSUME NEW b \in 0..k - 1
      PROVE  m[i + b] = Out(n + b + 1)
  <2>1. i + b \in 0..written - 1 /\ i + b # col /\ i + b \in 0..bufSize - 1
        /\ (made - written) + (i + b) + 1 = n + b + 1
    BY <1>1, <1>2, <1>3, <1>4
  <2>2. mem[i + b] = Out((made - written) + (i + b) + 1)
    BY <1>1, <2>1, Zenon DEF Held
  <2>3. m[i + b] = mem[i + b]
    BY <1>2, <2>1
  <2> QED
    BY <2>1, <2>2, <2>3, Zenon
<1> HIDE DEF n, k, m
<1>7. Puts(m, i, i + k) = Piece(n, k) \o <<Lf>>
  <2>1. i \in Nat /\ n \in Nat /\ k \in Nat
    BY <1>2, <1>3
  <2>2. \A b \in 0..k - 1 : m[i + b] = Out(n + b + 1)
    BY <1>6
  <2> QED
    BY ONLY <1>5, <2>1, <2>2, PutsIs, Zenon
<1>8. /\ Flow(Outputs(n + k), Width, Lf) = printed \o (Piece(n, k) \o <<Lf>>)
      /\ ((n + k) % llen) + llen = llen
  BY <1>1, <1>3, Printing DEF IInv
<1>9. printed' = Flow(Outputs(n + k), Width, Lf)
  BY <1>1, <1>3, <1>7, <1>8, Zenon
<1>10. Lay((made - written) + i, col - i)'
  <2>1. (col + llen) - col = llen
    BY <1>2
  <2>2. Width' = Width
    BY <1>1 DEF Width, Wrapping
  <2> QED
    BY <1>1, <1>3, <1>8, <1>9, <2>1, <2>2, Zenon DEF Lay
<1>11. Held' /\ Wrapping'
  BY <1>1 DEF Held, Wrapping
<1>12. i' \in 0..written' /\ i' <= col'
  BY <1>1, <1>2
<1> QED
  BY <1>1, <1>10, <1>11, <1>12 DEF LinesSound

LEMMA PutRestLines ==
    ASSUME ToolAssumption, IInv, LinesSound, PutRest
    PROVE  LinesSound'
<1> DEFINE n == (made - written) + i
           room == col - i
           k == written - i
<1>1. /\ pc = "wrap" /\ pc' = "read" /\ col > written
      /\ UNCHANGED <<mem, written, made, mode, bufSize, llen, i>>
      /\ printed' = printed \o Slice(i, written) /\ col' = col - written
      /\ Wrapping /\ Held /\ i \in 0..written /\ i <= col /\ Lay(n, room)
  BY DEF PutRest, callVars, LinesSound
<1>2. /\ written \in Nat /\ made \in Nat /\ col \in Nat /\ i \in Nat /\ llen \in Nat
  BY DEF IInv, TypeOK, ToolAssumption
<1>3. /\ n \in Nat /\ k \in Nat /\ room \in Nat /\ k < room /\ n + k = made
      /\ room - k = col - written /\ written \in i..written
  BY <1>1, <1>2 DEF Held
<1>4. Slice(i, written) = Piece(n, k)
  BY <1>1, <1>2, <1>3, SliceIs DEF IInv
<1> HIDE DEF n, k, room
<1>5. /\ Flow(Outputs(n + k), Width, Lf) = printed \o Piece(n, k)
      /\ ((n + k) % llen) + (room - k) = llen
  BY <1>1, <1>3, Printing DEF IInv
<1>6. Lay(made, col)'
  <2>1. Width' = Width
    BY <1>1 DEF Width, Wrapping
  <2> QED
    BY <1>1, <1>3, <1>4, <1>5, <2>1, Zenon DEF Lay
<1> QED
  BY <1>1, <1>6 DEF LinesSound

LEMMA EndLines ==
    ASSUME ToolAssumption, IInv, LinesSound, EndCall
    PROVE  LinesSound'
<1>1. PICK w \in 0..(IF mode = "encode" THEN 2 ELSE 1) : End(0, w)
  BY EndWrites
<1>2. /\ pc = "end" /\ pc' = "flush" /\ UNCHANGED <<mode, bufSize, llen, col, printed>>
      /\ mem' = Stored(0, w) /\ made' = made + w /\ written' = w
      /\ Lay(made, col)
  BY <1>1 DEF EndCall, End, LinesSound
<1>3. /\ w \in Nat /\ made \in Nat /\ bufSize \in Nat /\ bufSize >= 3 /\ w <= 2
      /\ mem \in [0..bufSize - 1 -> Cells]
  BY <1>1, Sizes DEF IInv, TypeOK, Placed
<1>4. made' - written' = made /\ written' <= made' /\ written' <= bufSize'
  BY <1>2, <1>3
<1>5. ASSUME NEW a \in 0..written' - 1
      PROVE  mem'[a] = Out((made' - written') + a + 1)
  <2>1. a \in 0..bufSize - 1 /\ a \in 0..0 + w - 1 /\ made + (a - 0) + 1 = made + a + 1
    BY <1>2, <1>3
  <2>2. mem'[a] = IF a \in 0..0 + w - 1 THEN Out(made + (a - 0) + 1) ELSE mem[a]
    BY <1>2, <1>3, <2>1 DEF Stored
  <2> QED
    BY <1>4, <2>1, <2>2, Zenon
<1>6. Held'
  BY <1>4, <1>5, Zenon DEF Held
<1>7. Lay(made - written, col)'
  <2>1. Width' = Width /\ Wrapping' = Wrapping
    BY <1>2 DEF Width, Wrapping
  <2> QED
    BY <1>2, <1>4, <2>1, Zenon DEF Lay
<1> QED
  BY <1>2, <1>6, <1>7 DEF LinesSound

\* The last characters, and the end of the last line.
LEMMA FlushLinesDone ==
    ASSUME ToolAssumption, IInv, LinesSound, Flush
    PROVE  LinesSound'
<1> DEFINE n == made - written
           ended == [mem EXCEPT ![written] = Nul]
           split == [ended EXCEPT ![1] = Nul]
           again == [split EXCEPT ![0] = ended[1]]
           whole == Lines(Outputs(made), Width, Lf)
<1>1. /\ pc = "flush" /\ pc' = "done" /\ UNCHANGED <<made, mode, llen>>
      /\ Held /\ Lay(n, col)
  <2>1. pc = "flush" /\ pc' = "done" /\ UNCHANGED <<made, mode, llen>>
    BY DEF Flush, FlushPlain, FlushLines
  <2>2. Held /\ Lay(n, col)
    BY <2>1 DEF LinesSound
  <2> QED
    BY <2>1, <2>2
<1>2. /\ written \in Nat /\ made \in Nat /\ col \in Nat /\ n \in Nat
      /\ n + written = made /\ bufSize \in Nat /\ bufSize >= 3
      /\ mem \in [0..bufSize - 1 -> Cells] /\ written \in 0..written
      /\ n + 0 = n /\ written - 0 = written
  BY <1>1, Sizes DEF IInv, TypeOK, Placed, Held
<1>3. \A b \in 0..written - 1 : mem[b] = Out(n + b + 1)
  BY <1>1 DEF Held
<1>4. CASE ~ Wrapping
  <2>1. printed' = printed \o Slice(0, written)
    BY <1>4 DEF Flush, FlushPlain, FlushLines
  <2>2. Slice(0, written) = Piece(n + 0, written - 0)
    BY <1>1, <1>2, SliceIs DEF IInv
  <2>3. Flow(Outputs(n + written), Width, Lf) = printed \o Piece(n, written)
    BY <1>1, <1>2, <1>4, Printing DEF IInv
  <2>4. printed' = Outputs(made) /\ Width = 0
    BY <1>2, <1>4, <2>1, <2>2, <2>3 DEF Width, Flow
  <2>5. whole = Outputs(made)
    <3>1. Outputs(made) \o << >> = Outputs(made)
      <4>1. Outputs(made) \in Seq(Shown)
        BY <1>2 DEF Outputs, Shown
      <4> QED
        BY <4>1, ConcatEmptySeq
    <3> QED
      BY <2>4, <3>1 DEF Lines, Flow
  <2>6. Width' = Width
    BY <1>1 DEF Width, Wrapping
  <2> QED
    BY <1>1, <2>4, <2>5, <2>6 DEF LinesSound
<1>5. CASE Wrapping
  <2>1. /\ llen \in Nat \ {0} /\ Width = llen /\ (n % llen) + col = llen
        /\ printed = Flow(Outputs(n), llen, Lf) /\ Width' = llen
    BY <1>1, <1>5 DEF Lay, Width, Wrapping, IInv, TypeOK, ToolAssumption
  <2>2. printed \in Seq(Shown) /\ col >= 1
    BY <1>1, <1>2, <1>5, Printing DEF IInv
  <2>3. mode = "encode" /\ written <= 2 /\ written < bufSize
    BY <1>1, <1>2, <1>5 DEF Wrapping, IInv, Balance
  <2>4. CASE written = 0 /\ col = llen
    <3>1. printed' = printed
      BY <1>5, <2>4 DEF Flush, FlushPlain, FlushLines
    <3>2. made = n /\ n % llen = 0
      <4>1. n % llen \in Nat
        BY <1>2, <2>1, Division
      <4> QED
        BY <1>2, <2>1, <2>4, <4>1
    <3>3. Len(Outputs(made)) = made
      BY <1>2 DEF Outputs
    <3>4. whole = printed \o << >>
      BY <2>1, <3>2, <3>3 DEF Lines
    <3>5. printed \o << >> = printed
      BY <2>2, ConcatEmptySeq
    <3> QED
      BY <1>1, <2>1, <3>1, <3>4, <3>5 DEF LinesSound
  <2>5. CASE ~ (written = 0 /\ col = llen) /\ written > col
    <3>1. written = 2 /\ col = 1 /\ made = (n + 1) + 1 /\ n + 1 \in Nat /\ 1 \in Nat
      BY <1>2, <2>2, <2>3, <2>5
    <3>2. printed' = (printed \o Puts(split, 0, 1)) \o Puts(again, 0, 1)
      BY <1>5, <2>5 DEF Flush, FlushPlain, FlushLines
    <3>3. /\ 0 \in 0..bufSize - 1 /\ 1 \in 0..bufSize - 1 /\ 2 \in 0..bufSize - 1
          /\ mem[0] = Out(n + 0 + 1) /\ mem[1] = Out((n + 1) + 0 + 1)
      <4>1. 0 \in 0..written - 1 /\ 1 \in 0..written - 1 /\ n + 1 + 1 = (n + 1) + 0 + 1
        BY <1>2, <3>1
      <4>2. mem[0] = Out(n + 0 + 1) /\ mem[1] = Out(n + 1 + 1)
        BY <1>3, <4>1, Zenon
      <4> QED
        BY <1>2, <4>1, <4>2
    <3>4. /\ split[0] = mem[0] /\ split[1] = Nul
          /\ again[0] = mem[1] /\ again[1] = Nul
      BY <1>2, <3>1, <3>3
    <3> HIDE DEF split, again, n
    <3>5. Puts(split, 0, 0 + 1) = Piece(n, 1) \o <<Lf>>
      <4>1. \A b \in 0..1 - 1 : split[0 + b] = Out(n + b + 1)
        BY <1>2, <3>3, <3>4
      <4>2. 0 \in Nat /\ 1 \in Nat /\ n \in Nat /\ split[0 + 1] = Nul
        BY <1>2, <3>4
      <4> QED
        BY ONLY <4>1, <4>2, PutsIs, Zenon
    <3>6. Puts(again, 0, 0 + 1) = Piece(n + 1, 1) \o <<Lf>>
      <4>1. \A b \in 0..1 - 1 : again[0 + b] = Out((n + 1) + b + 1)
        BY <1>2, <3>3, <3>4
      <4>2. 0 \in Nat /\ 1 \in Nat /\ again[0 + 1] = Nul
        BY <3>4
      <4> QED
        BY ONLY <3>1, <4>1, <4>2, PutsIs, Zenon
    <3>7. /\ Flow(Outputs(n + 1), llen, Lf) = printed \o (Piece(n, 1) \o <<Lf>>)
          /\ ((n + 1) % llen) + llen = llen
      <4>1. 1 = col /\ 1 \in Nat /\ TypeOK
        BY <3>1 DEF IInv
      <4>2. /\ Flow(Outputs(n + 1), Width, Lf) = printed \o (Piece(n, 1) \o <<Lf>>)
            /\ ((n + 1) % llen) + llen = llen
        BY <1>1, <1>2, <1>5, <4>1, Printing, Zenon
      <4> QED
        BY <2>1, <4>2, Zenon
    <3>8. Lines(Outputs((n + 1) + 1), llen, Lf)
            = Flow(Outputs(n + 1), llen, Lf) \o (Piece(n + 1, 1) \o <<Lf>>)
      <4>1. 1 <= llen /\ ~ (1 = 0 /\ llen = llen) /\ llen \in Nat
        BY <2>1
      <4> QED
        BY <2>1, <3>1, <3>7, <4>1, LastFlow, Zenon
    <3>9. printed' = whole
      <4>1. 0 + 1 = 1
        OBVIOUS
      <4> QED
        BY <2>1, <3>1, <3>2, <3>5, <3>6, <3>7, <3>8, <4>1, Zenon
    <3> QED
      BY <1>1, <2>1, <3>9 DEF LinesSound
  <2>6. CASE ~ (written = 0 /\ col = llen) /\ ~ (written > col)
    <3>1. printed' = printed \o Puts(ended, 0, written)
      BY <1>5, <2>6 DEF Flush, FlushPlain, FlushLines
    <3>2. /\ ended[0 + written] = Nul
          /\ \A b \in 0..written - 1 : ended[0 + b] = Out(n + b + 1)
      BY <1>2, <1>3, <2>3
    <3>3. Puts(ended, 0, 0 + written) = Piece(n, written) \o <<Lf>>
      <4> HIDE DEF ended, n
      <4>1. 0 \in Nat /\ written \in Nat /\ n \in Nat
        BY <1>2
      <4> QED
        BY ONLY <3>2, <4>1, PutsIs, Zenon
    <3>4. Lines(Outputs(n + written), llen, Lf)
            = Flow(Outputs(n), llen, Lf) \o (Piece(n, written) \o <<Lf>>)
      <4>1. written <= col
        BY <1>2, <2>6
      <4> HIDE DEF n
      <4> QED
        BY <1>2, <2>1, <2>6, <4>1, LastFlow, Zenon
    <3>5. printed' = whole
      <4>1. 0 + written = written
        BY <1>2
      <4> QED
        BY <1>2, <2>1, <3>1, <3>3, <3>4, <4>1, Zenon
    <3> QED
      BY <1>1, <2>1, <3>5 DEF LinesSound
  <2> QED
    BY <2>4, <2>5, <2>6
<1> QED
  BY <1>4, <1>5

LEMMA NextLines ==
    ASSUME ToolAssumption, IInv, LinesSound, [Next]_vars
    PROVE  LinesSound'
<1>1. CASE FreadEnd
  <2>1. /\ pc = "read" /\ pc' = "end"
        /\ UNCHANGED <<made, printed, col, mode, llen>>
    BY <1>1 DEF FreadEnd, callVars
  <2> QED
    BY <2>1 DEF LinesSound, Lay, Width, Wrapping
<1>2. CASE UNCHANGED vars
  BY <1>2 DEF vars, callVars, toolVars, LinesSound, Lay, Held, Width, Wrapping
<1> QED
  BY <1>1, <1>2, FreadLines, ChunkLines, ReturnLines, PutLineLines, PutRestLines,
     EndLines, FlushLinesDone DEF Next, Done

\* What is printed is the codec's output, in order, none of it overwritten
\* before it was printed, in lines of llen characters.
THEOREM PrintedInLines == ASSUME ToolAssumption PROVE Spec => []PrintsLines
<1>1. Init => LinesSound
  BY InitLines
<1>2. IInv /\ LinesSound /\ [Next]_vars => LinesSound'
  BY NextLines
<1>3. LinesSound => PrintsLines
  BY DEF LinesSound, PrintsLines, Lay, Width
<1> QED
  BY <1>1, <1>2, <1>3, Invariance, PTL DEF Spec
=============================================================================
