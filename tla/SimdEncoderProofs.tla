-------------------------- MODULE SimdEncoderProofs --------------------------
(* Theorems about SimdEncoder, for any streams, any widths that are 0 or a   *)
(* multiple of 32, any batch size and any cuts.                              *)
EXTENDS SimdEncoder, TLAPS

Arith == INSTANCE Arithmetic

----------------------------------------------------------------------------
\* Groups: 13 bits are two characters.

\* One more byte completes a group or not.
LEMMA GroupsByByte ==
    ASSUME NEW m \in Nat
    PROVE  LET r == (8 * m) % 13 IN
           /\ GroupChars(m) \in Nat /\ r \in 0 .. 12
           /\ r < 5 => /\ GroupChars(m + 1) = GroupChars(m)
                       /\ (8 * (m + 1)) % 13 = r + 8
           /\ r >= 5 => /\ GroupChars(m + 1) = GroupChars(m) + 2
                        /\ (8 * (m + 1)) % 13 = r - 5
<1> DEFINE r == (8 * m) % 13
           q == (8 * m) \div 13
<1>1. r \in 0 .. 12 /\ q \in Nat /\ 8 * m = 13 * q + r
  OBVIOUS
<1>2. 8 * (m + 1) = 8 * m + 8
  OBVIOUS
<1> DEFINE e == 8 * (m + 1)
<1>3. e = 13 * q + r + 8
  BY <1>1, <1>2
<1>G. GroupChars(m) = 2 * q /\ GroupChars(m + 1) = 2 * (e \div 13)
  BY DEF GroupChars
<1> HIDE DEF q, r, e
<1>4. CASE r < 5
  <2>1. e \div 13 = q /\ e % 13 = r + 8
    BY <1>1, <1>3, <1>4
  <2> QED BY <2>1, <1>1, <1>4, <1>G DEF r, e
<1>5. CASE r >= 5
  <2>1. e \div 13 = q + 1 /\ e % 13 = r - 5
    BY <1>1, <1>3, <1>5
  <2> QED BY <2>1, <1>1, <1>5, <1>G DEF r, e
<1> QED BY <1>1, <1>4, <1>5 DEF r

\* The groups of n more bytes and the bits pending before them.
LEMMA GroupsByCall ==
    ASSUME NEW m \in Nat, NEW n \in Nat
    PROVE  /\ 2 * ((((8 * m) % 13) + 8 * n) \div 13) \in Nat
           /\ GroupChars(m + n)
                = GroupChars(m) + 2 * ((((8 * m) % 13) + 8 * n) \div 13)
<1> DEFINE r == (8 * m) % 13
           q == (8 * m) \div 13
           s == (r + 8 * n) \div 13
           e == 8 * (m + n)
<1>1. r \in 0 .. 12 /\ q \in Nat /\ 8 * m = 13 * q + r
  OBVIOUS
<1>2. e = 8 * m + 8 * n
  OBVIOUS
<1>G. GroupChars(m) = 2 * q /\ GroupChars(m + n) = 2 * (e \div 13)
  BY DEF GroupChars
<1> HIDE DEF q, r, e
<1>3. s \in Nat /\ e \div 13 = q + s
  BY <1>1, <1>2
<1> QED BY <1>1, <1>3, <1>G DEF r

\* Blocks of 13 bytes, with no bit pending, are 16 characters each.
LEMMA GroupsByBlock ==
    ASSUME NEW m \in Nat, NEW k \in Nat, (8 * m) % 13 = 0
    PROVE  /\ GroupChars(m + 13 * k) = GroupChars(m) + 16 * k
           /\ (8 * (m + 13 * k)) % 13 = 0
           /\ GroupChars(m) % 16 = 0
<1> DEFINE q == (8 * m) \div 13
           e == 8 * (m + 13 * k)
<1>1. q \in Nat /\ 8 * m = 13 * q
  OBVIOUS
<1>2. e = 13 * (q + 8 * k)
  BY <1>1
<1>G. GroupChars(m) = 2 * q /\ GroupChars(m + 13 * k) = 2 * (e \div 13)
  BY DEF GroupChars
<1> HIDE DEF q, e
<1>3. e \div 13 = q + 8 * k /\ e % 13 = 0
  BY <1>1, <1>2
<1>4. (2 * q) % 16 = 0
  BY <1>1
<1> QED BY <1>1, <1>3, <1>4, <1>G DEF e

\* More bytes are no fewer characters.
LEMMA GroupsGrow ==
    ASSUME NEW m \in Nat, NEW n \in Nat, m <= n
    PROVE  GroupChars(m) \in Nat /\ GroupChars(n) \in Nat
           /\ GroupChars(m) <= GroupChars(n)
BY DEF GroupChars

\* The last group has its characters in the tail's table.
LEMMA TailIsLast ==
    ASSUME NEW n \in Nat
    PROVE  LET r    == (8 * n) % 13
               last == IF r = 0 THEN 0 ELSE IF r <= 6 THEN 1 ELSE 2
           IN  16 * (n \div 13) + TailChars[(n % 13) + 1]
                 = GroupChars(n) + last
<1> DEFINE t == n % 13
           b == n \div 13
<1>1. t \in 0 .. 12 /\ b \in Nat /\ n = 13 * b + t
  OBVIOUS
<1>G. GroupChars(n) = 2 * ((8 * n) \div 13)
  BY DEF GroupChars
<1> HIDE DEF t, b
<1>2. 8 * n = 13 * (8 * b) + 8 * t
  BY <1>1
<1>3. /\ (8 * n) % 13 = (8 * t) % 13
      /\ (8 * n) \div 13 = 8 * b + (8 * t) \div 13
  BY <1>1, <1>2
<1>4. t = 0 \/ t = 1 \/ t = 2 \/ t = 3 \/ t = 4 \/ t = 5 \/ t = 6 \/ t = 7
      \/ t = 8 \/ t = 9 \/ t = 10 \/ t = 11 \/ t = 12
  BY <1>1
<1>5. LET r    == (8 * t) % 13
          last == IF r = 0 THEN 0 ELSE IF r <= 6 THEN 1 ELSE 2
      IN  TailChars[t + 1] = 2 * ((8 * t) \div 13) + last
  BY <1>4 DEF TailChars
<1> QED BY <1>1, <1>3, <1>5, <1>G DEF t, b

----------------------------------------------------------------------------
\* Lines.

\* Characters that end in the line of those before them, or fill it.
LEMMA LineByPart ==
    ASSUME NEW a \in Nat, NEW b \in Nat, NEW k \in Nat \ {0}, (a % k) + b <= k
    PROVE  /\ (a % k) + b = k => /\ (a + b) % k = 0
                                 /\ (a + b) \div k = (a \div k) + 1
           /\ (a % k) + b < k => /\ (a + b) % k = (a % k) + b
                                 /\ (a + b) \div k = a \div k
<1> DEFINE q == a \div k
           r == a % k
<1>1. q \in Nat /\ r \in 0 .. (k - 1) /\ a = k * q + r
  BY Arith!Division
<1> HIDE DEF q, r
<1>2. ASSUME r + b = k PROVE (a + b) % k = 0 /\ (a + b) \div k = q + 1
  <2>1. a + b = k * (q + 1) + 0
    BY <1>1, <1>2
  <2> DEFINE p == q + 1
  <2>2. p \in Nat /\ 0 \in 0 .. (k - 1)
    BY <1>1
  <2> HIDE DEF p
  <2>3. (k * p + 0) \div k = p /\ (k * p + 0) % k = 0
    BY <2>2, Arith!DivisionUnique, Zenon
  <2> QED BY <2>1, <2>3, Zenon DEF p
<1>3. ASSUME r + b < k PROVE (a + b) % k = r + b /\ (a + b) \div k = q
  <2>1. a + b = k * q + (r + b) /\ r + b \in 0 .. (k - 1)
    BY <1>1, <1>3
  <2> QED BY <2>1, <1>1, Arith!DivisionUnique
<1> QED BY <1>2, <1>3 DEF q, r

\* The lines that b characters more fill, counted from the open one.
LEMMA LinesFilled ==
    ASSUME NEW a \in Nat, NEW b \in Nat, NEW k \in Nat \ {0}
    PROVE  /\ ((a % k) + b) \div k \in Nat
           /\ (a + b) \div k = (a \div k) + (((a % k) + b) \div k)
<1> DEFINE q == a \div k
           r == a % k
<1>1. q \in Nat /\ r \in 0 .. (k - 1) /\ a = k * q + r
  BY Arith!Division
<1> HIDE DEF q, r
<1> DEFINE c == r + b
<1>2. c \in Nat
  BY <1>1
<1>3. a + b = c + k * q
  BY <1>1
<1> HIDE DEF c
<1>4. c \div k \in Nat
  BY <1>2, Arith!Division
<1>5. (c + k * q) \div k = c \div k + q
  BY <1>1, <1>2, Arith!AddBlocks
<1>6. (a + b) \div k = c \div k + q
  BY <1>3, <1>5, Zenon
<1>7. (a + b) \div k = q + c \div k
  BY <1>1, <1>4, <1>6
<1> QED BY <1>4, <1>7 DEF c, q, r

\* So do those that they leave open.
LEMMA LinesLaid ==
    ASSUME NEW a \in Nat, NEW b \in Nat, NEW k \in Nat \ {0}
    PROVE  /\ ((a % k) + b + k - 1) \div k \in Nat
           /\ (a + b + k - 1) \div k
                = (a \div k) + (((a % k) + b + k - 1) \div k)
<1> DEFINE c == b + k - 1
<1>1. c \in Nat
  OBVIOUS
<1>2. a % k \in Nat
  BY Arith!Division
<1>3. a + c = a + b + k - 1 /\ (a % k) + c = (a % k) + b + k - 1
  BY <1>2
<1> HIDE DEF c
<1>4. /\ ((a % k) + c) \div k \in Nat
      /\ (a + c) \div k = (a \div k) + (((a % k) + c) \div k)
  BY <1>1, LinesFilled
<1> QED BY <1>3, <1>4, Zenon

\* Whole blocks leave the column of a line of whole blocks at one.
LEMMA ColumnOfBlocks ==
    ASSUME NEW a \in Nat, NEW k \in Nat \ {0}, a % 16 = 0, k % 16 = 0
    PROVE  (a % k) % 16 = 0
<1> DEFINE q == a \div k
           r == a % k
           x == a \div 16
           y == k \div 16
<1>1. q \in Nat /\ r \in 0 .. (k - 1) /\ a = k * q + r
  BY Arith!Division
<1>2. x \in Nat /\ a = 16 * x /\ y \in Nat /\ k = 16 * y
  OBVIOUS
<1> HIDE DEF q, r, x, y
<1> DEFINE z == y * q
<1>3. z \in Nat /\ k * q = 16 * z
  BY <1>1, <1>2
<1> HIDE DEF z
<1>4. r = 16 * (x - z)
  BY <1>1, <1>2, <1>3
<1>5. r % 16 = 0
  BY <1>1, <1>2, <1>3, <1>4
<1> QED BY <1>5 DEF r

\* A line is whole blocks.
LEMMA WidthBlocks ==
    ASSUME NEW k \in Widths
    PROVE  /\ k \in Nat /\ k % 16 = 0
           /\ k > 0 => (k \div 16) \in Nat \ {0} /\ 16 * (k \div 16) = k
<1>1. k \in Nat /\ k % 32 = 0
  BY EncoderAssumption
<1>2. k = 32 * (k \div 32) /\ k \div 32 \in Nat
  BY <1>1
<1>3. k % 16 = 0
  BY <1>2
<1> QED BY <1>1, <1>3

\* Columns and lines of n characters are numbers.
LEMMA LineNumbers ==
    ASSUME NEW n \in Nat, NEW k \in Nat
    PROVE  Column(n, k) \in Nat /\ FullLines(n, k) \in Nat
<1>1. CASE k = 0
  BY <1>1 DEF Column, FullLines
<1>2. CASE k # 0
  <2>1. n \div k \in Nat /\ n % k \in Nat
    BY <1>2, Arith!Division
  <2> QED BY <1>2, <2>1 DEF Column, FullLines
<1> QED BY <1>1, <1>2

----------------------------------------------------------------------------
\* One character or one byte.

Cores == [wrap : Widths, started : BOOLEAN, col : Nat, queue : Nat,
          nbits : 0 .. 12]

Encoded == [core : Cores, w : Seq(Symbol)]

\* A number of Powers, as the backends see it.
LEMMA GroupSize == 2^13 = 8192
BY SMT

LEMMA CoreCol ==
    ASSUME NEW c \in Cores, NEW x \in Nat
    PROVE  LET d == [c EXCEPT !.col = x] IN
           /\ d \in Cores /\ d.wrap = c.wrap /\ d.started = c.started
           /\ d.queue = c.queue /\ d.nbits = c.nbits /\ d.col = x
BY DEF Cores

Requeue(c, x, y) == [c EXCEPT !.queue = x, !.nbits = y]

LEMMA QueueStarted ==
    ASSUME NEW c \in Cores, NEW x \in Nat, NEW y \in 0 .. 12
    PROVE  Requeue(c, x, y).started = c.started
BY DEF Cores, Requeue

LEMMA CoreTypes ==
    ASSUME NEW c \in Cores
    PROVE  /\ c.wrap \in Widths /\ c.wrap \in Nat /\ c.col \in Nat
           /\ c.queue \in Nat /\ c.nbits \in 0 .. 12 /\ c.started \in BOOLEAN
BY WidthBlocks DEF Cores

\* One character more in the line, or a full line.
LEMMA LineByChar ==
    ASSUME NEW a \in Nat, NEW k \in Nat \ {0}
    PROVE  LET full == Column(a, k) + 1 = k IN
           /\ Column(a + 1, k) = IF full THEN 0 ELSE Column(a, k) + 1
           /\ FullLines(a + 1, k)
                = IF full THEN FullLines(a, k) + 1 ELSE FullLines(a, k)
<1>1. /\ Column(a, k) = a % k /\ Column(a + 1, k) = (a + 1) % k
      /\ FullLines(a, k) = a \div k /\ FullLines(a + 1, k) = (a + 1) \div k
  BY DEF Column, FullLines
<1>2. a % k \in 0 .. (k - 1)
  BY Arith!Division
<1>3. CASE (a % k) + 1 = k
  <2>1. (a + 1) % k = 0 /\ (a + 1) \div k = (a \div k) + 1
    <3>1. 1 \in Nat /\ (a % k) + 1 <= k
      BY <1>2
    <3> QED BY <1>3, <3>1, LineByPart, Zenon
  <2> QED BY <1>1, <1>3, <2>1, Zenon
<1>4. CASE (a % k) + 1 # k
  <2>1. (a % k) + 1 < k
    BY <1>2, <1>4
  <2>2. (a + 1) % k = (a % k) + 1 /\ (a + 1) \div k = a \div k
    <3>1. 1 \in Nat /\ (a % k) + 1 <= k
      BY <1>2
    <3> QED BY <2>1, <3>1, LineByPart, Zenon
  <2> QED BY <1>1, <1>4, <2>2, Zenon
<1> QED BY <1>3, <1>4

LEMMA Grow ==
    ASSUME NEW s \in Seq(Symbol), NEW u \in Seq(Symbol)
    PROVE  /\ s \o u \in Seq(Symbol) /\ Len(s) \in Nat /\ Len(u) \in Nat
           /\ Len(s \o u) = Len(s) + Len(u)
OBVIOUS

\* The values of a group.
GroupValues == {v \in Nat : v <= 8191}

\* A character moves the column by one, and brings the LF of a full line.
LEMMA PutCharMoves ==
    ASSUME NEW e \in Encoded, NEW c \in Char, NEW a \in Nat,
           e.core.col = Column(a, e.core.wrap)
    PROVE  LET f == PutChar(e, c)
               k == e.core.wrap
           IN  /\ f \in Encoded
               /\ f.core.wrap = k /\ f.core.started = e.core.started
               /\ f.core.queue = e.core.queue /\ f.core.nbits = e.core.nbits
               /\ f.core.col = Column(a + 1, k)
               /\ Len(f.w) + FullLines(a, k)
                    = Len(e.w) + 1 + FullLines(a + 1, k)
<1> DEFINE k == e.core.wrap
           f == PutChar(e, c)
           col  == e.core.col + 1
           full == col = k
<1>1. e.core \in Cores /\ e.w \in Seq(Symbol) /\ c \in Symbol /\ LF \in Symbol
  BY DEF Encoded, Char, Symbol, LF
<1>2. k \in Nat /\ e.core.col \in Nat
  BY <1>1, CoreTypes
<1>3. CASE k = 0
  <2>1. f = [core |-> e.core, w |-> Append(e.w, c)]
    BY <1>3 DEF PutChar
  <2>2. Append(e.w, c) \in Seq(Symbol) /\ Len(Append(e.w, c)) = Len(e.w) + 1
        /\ Len(e.w) \in Nat
    BY <1>1
  <2>3. f.core = e.core /\ f.w = Append(e.w, c) /\ f \in Encoded
    BY <1>1, <2>1, <2>2 DEF Encoded
  <2>4. Column(a, k) = 0 /\ Column(a + 1, k) = 0
        /\ FullLines(a, k) = 0 /\ FullLines(a + 1, k) = 0
    BY <1>3 DEF Column, FullLines
  <2> HIDE DEF f
  <2> QED BY <2>2, <2>3, <2>4 DEF f
<1>4. CASE k # 0
  <2> DEFINE s == IF full THEN <<c, LF>> ELSE <<c>>
             x == IF full THEN 0 ELSE col
             d == [e.core EXCEPT !.col = x]
  <2>1. f = [core |-> d, w |-> e.w \o s]
    BY <1>4 DEF PutChar
  <2>2. s \in Seq(Symbol) /\ Len(s) = (IF full THEN 2 ELSE 1) /\ x \in Nat
    BY <1>1, <1>2
  <2>3. /\ d \in Cores /\ d.wrap = k /\ d.started = e.core.started
        /\ d.queue = e.core.queue /\ d.nbits = e.core.nbits /\ d.col = x
    <3> HIDE DEF x
    <3> QED BY <1>1, <2>2, CoreCol
  <2>4. /\ x = Column(a + 1, k)
        /\ FullLines(a + 1, k)
             = IF full THEN FullLines(a, k) + 1 ELSE FullLines(a, k)
    <3>1. k \in Nat \ {0}
      BY <1>2, <1>4
    <3>2. e.core.col = Column(a, k)
      OBVIOUS
    <3> HIDE DEF k
    <3> QED BY <3>1, <3>2, LineByChar
  <2> HIDE DEF s, x, d
  <2>5. f.core = d /\ f.w = e.w \o s /\ f \in Encoded
    BY <1>1, <2>1, <2>2, <2>3 DEF Encoded
  <2>6. /\ Len(f.w) = Len(e.w) + (IF full THEN 2 ELSE 1) /\ Len(e.w) \in Nat
    <3>1. Len(e.w \o s) = Len(e.w) + Len(s) /\ Len(e.w) \in Nat
      BY <1>1, <2>2, Grow
    <3> HIDE DEF full, f
    <3> QED BY <2>2, <2>5, <3>1
  <2>7. FullLines(a, k) \in Nat
    BY <1>2, LineNumbers
  <2> HIDE DEF f, full
  <2>8. Len(f.w) + FullLines(a, k) = Len(e.w) + 1 + FullLines(a + 1, k)
    <3>1. \/ Len(f.w) = Len(e.w) + 2 /\ FullLines(a + 1, k) = FullLines(a, k) + 1
          \/ Len(f.w) = Len(e.w) + 1 /\ FullLines(a + 1, k) = FullLines(a, k)
      BY <2>4, <2>6, Zenon
    <3>2. Len(f.w) \in Nat
      BY <2>5 DEF Encoded
    <3>3. a + 1 \in Nat
      OBVIOUS
    <3>4. FullLines(a + 1, k) \in Nat
      BY <1>2, <3>3, LineNumbers
    <3> DEFINE u == Len(f.w)
               y == Len(e.w)
               l == FullLines(a, k)
               m == FullLines(a + 1, k)
    <3>5. u \in Nat /\ y \in Nat /\ l \in Nat /\ m \in Nat
      BY <2>6, <2>7, <3>2, <3>4, Zenon
    <3>6. \/ u = y + 2 /\ m = l + 1
          \/ u = y + 1 /\ m = l
      BY <3>1, Zenon
    <3> HIDE DEF u, y, l, m
    <3>7. u + l = y + 1 + m
      BY <3>5, <3>6
    <3> QED BY <3>7, Zenon DEF u, y, l, m
  <2> QED BY <2>3, <2>4, <2>5, <2>8 DEF f
<1> QED BY <1>3, <1>4

\* A group moves it by two.
LEMMA PutPairMoves ==
    ASSUME NEW e \in Encoded, NEW v \in GroupValues, NEW a \in Nat,
           e.core.col = Column(a, e.core.wrap)
    PROVE  LET f == PutPair(e, v)
               k == e.core.wrap
           IN  /\ f \in Encoded
               /\ f.core.wrap = k /\ f.core.started = e.core.started
               /\ f.core.queue = e.core.queue /\ f.core.nbits = e.core.nbits
               /\ f.core.col = Column(a + 2, k)
               /\ Len(f.w) + FullLines(a, k)
                    = Len(e.w) + 2 + FullLines(a + 2, k)
<1> DEFINE k == e.core.wrap
           g == PutChar(e, v % 91)
           f == PutChar(g, v \div 91)
<1>0. v % 91 \in Char /\ v \div 91 \in Char
  BY DEF Char, GroupValues
<1>1. /\ g \in Encoded
      /\ g.core.wrap = k /\ g.core.started = e.core.started
      /\ g.core.queue = e.core.queue /\ g.core.nbits = e.core.nbits
      /\ g.core.col = Column(a + 1, k)
      /\ Len(g.w) + FullLines(a, k) = Len(e.w) + 1 + FullLines(a + 1, k)
  BY <1>0, PutCharMoves
<1> HIDE DEF g
<1>2. a + 1 \in Nat /\ (a + 1) + 1 = a + 2
  OBVIOUS
<1>3. /\ f \in Encoded
      /\ f.core.wrap = k /\ f.core.started = e.core.started
      /\ f.core.queue = e.core.queue /\ f.core.nbits = e.core.nbits
      /\ f.core.col = Column(a + 2, k)
      /\ Len(f.w) + FullLines(a + 1, k) = Len(g.w) + 1 + FullLines(a + 2, k)
  BY <1>0, <1>1, <1>2, PutCharMoves
<1> HIDE DEF f
<1>4. k \in Nat
  <2>1. e.core \in Cores
    BY DEF Encoded
  <2> QED BY <2>1, CoreTypes
<1>5. Len(e.w) \in Nat /\ Len(f.w) \in Nat /\ Len(g.w) \in Nat
  BY <1>1, <1>3 DEF Encoded
<1> HIDE DEF k
<1>6. /\ FullLines(a, k) \in Nat /\ FullLines(a + 1, k) \in Nat
      /\ FullLines(a + 2, k) \in Nat
  <2>1. a + 1 \in Nat /\ a + 2 \in Nat
    OBVIOUS
  <2> QED BY <1>4, <2>1, LineNumbers
<1>7. Len(f.w) + FullLines(a, k) = Len(e.w) + 2 + FullLines(a + 2, k)
  <2>1. /\ Len(g.w) + FullLines(a, k) = Len(e.w) + 1 + FullLines(a + 1, k)
        /\ Len(f.w) + FullLines(a + 1, k) = Len(g.w) + 1 + FullLines(a + 2, k)
    BY <1>1, <1>3, Zenon
  <2> DEFINE x == Len(f.w)
             y == Len(g.w)
             z == Len(e.w)
             l == FullLines(a, k)
             m == FullLines(a + 1, k)
             n == FullLines(a + 2, k)
  <2>2. /\ x \in Nat /\ y \in Nat /\ z \in Nat
        /\ l \in Nat /\ m \in Nat /\ n \in Nat
    BY <1>5, <1>6, Zenon
  <2>3. y + l = z + 1 + m /\ x + m = y + 1 + n
    BY <2>1, Zenon
  <2> HIDE DEF x, y, z, l, m, n
  <2>4. x + l = z + 2 + n
    BY <2>2, <2>3
  <2> QED BY <2>4, Zenon DEF x, y, z, l, m, n
<1> QED BY <1>3, <1>7 DEF f, g, k, PutPair

\* f is e with another queue.
SameButQueue(f, e, x, y) ==
    /\ f \in Encoded /\ f.w = e.w
    /\ f.core.wrap = e.core.wrap /\ f.core.started = e.core.started
    /\ f.core.queue = x /\ f.core.nbits = y
    /\ f.core.col = e.core.col

LEMMA RequeuedIs ==
    ASSUME NEW e \in Encoded, NEW x \in Nat, NEW y \in 0 .. 12
    PROVE  SameButQueue(Requeued(e, x, y), e, x, y)
<1> DEFINE c == e.core
           d == Requeue(c, x, y)
<1>1. c \in Cores /\ e.w \in Seq(Symbol)
  BY DEF Encoded
<1> HIDE DEF c
<1>2. /\ d \in Cores /\ d.wrap = c.wrap
      /\ d.queue = x /\ d.nbits = y /\ d.col = c.col
  BY <1>1 DEF Cores, Requeue
<1>4. d.started = c.started
  BY <1>1, QueueStarted, Zenon
<1>3. Requeued(e, x, y) = [core |-> d, w |-> e.w]
  BY DEF Requeued, Requeue, c
<1> HIDE DEF d
<1> QED BY <1>1, <1>2, <1>3, <1>4 DEF SameButQueue, Encoded, c

\* A byte is pending bits, or two characters and what is left of it.
LEMMA PushByteMoves ==
    ASSUME NEW e \in Encoded, NEW b \in Byte, NEW m \in Nat,
           e.core.queue < 2^e.core.nbits,
           e.core.nbits = (8 * m) % 13,
           e.core.col = Column(GroupChars(m), e.core.wrap)
    PROVE  LET f == PushByte(e, b)
               k == e.core.wrap
           IN  /\ f \in Encoded
               /\ f.core.queue < 2^f.core.nbits
               /\ f.core.wrap = k /\ f.core.started = e.core.started
               /\ f.core.nbits = (8 * (m + 1)) % 13
               /\ f.core.col = Column(GroupChars(m + 1), k)
               /\ Len(f.w) + WrittenLen(m, k) = Len(e.w) + WrittenLen(m + 1, k)
<1> DEFINE k == e.core.wrap
           r == e.core.nbits
           q == e.core.queue + b * 2^r
           a == GroupChars(m)
           f == PushByte(e, b)
<1>1. /\ k \in Nat /\ r \in 0 .. 12 /\ e.core.queue \in Nat
      /\ Len(e.w) \in Nat
  <2>1. e.core \in Cores /\ e.w \in Seq(Symbol)
    BY DEF Encoded
  <2> QED BY <2>1, CoreTypes
<1>2. q \in Nat /\ q < 2^(r + 8)
  <2>1. r \in 0 .. 13 /\ b \in Arith!Byte
    BY <1>1 DEF Byte, Arith!Byte
  <2> HIDE DEF r
  <2>2. e.core.queue < 2^r
    BY DEF r
  <2> QED BY <1>1, <2>1, <2>2, Arith!LoadByte, Zenon
<1>3. /\ a \in Nat
      /\ r < 5 => GroupChars(m + 1) = a /\ (8 * (m + 1)) % 13 = r + 8
      /\ r >= 5 => GroupChars(m + 1) = a + 2 /\ (8 * (m + 1)) % 13 = r - 5
  BY GroupsByByte
<1>C. e.core.col = Column(a, k)
  OBVIOUS
<1> HIDE DEF q, a, k, r, f
<1>5. FullLines(a, k) \in Nat /\ FullLines(a + 2, k) \in Nat
  <2>1. a + 2 \in Nat
    BY <1>3
  <2> QED BY <1>1, <1>3, <2>1, LineNumbers
<1>6. CASE r < 5
  <2>1. f = Requeued(e, q, r + 8)
    BY <1>1, <1>6 DEF PushByte, q, r, f
  <2>2. r + 8 \in 0 .. 12
    BY <1>1, <1>6
  <2>3. /\ f \in Encoded /\ f.w = e.w
        /\ f.core.wrap = k /\ f.core.started = e.core.started
        /\ f.core.queue = q /\ f.core.nbits = r + 8 /\ f.core.col = e.core.col
    <3> DEFINE y == r + 8
    <3>1. f = Requeued(e, q, y) /\ q \in Nat /\ y \in 0 .. 12
      BY <1>2, <2>1, <2>2, Zenon
    <3> HIDE DEF y, f, q
    <3>2. SameButQueue(f, e, q, y)
      BY <3>1, RequeuedIs, Zenon
    <3> QED BY <3>2, Zenon DEF SameButQueue, k, y
  <2>4. f.core.queue < 2^f.core.nbits
    BY <1>2, <2>3, Zenon
  <2>5. WrittenLen(m + 1, k) = WrittenLen(m, k)
    BY <1>3, <1>6 DEF WrittenLen, a
  <2>6. f.core.nbits = (8 * (m + 1)) % 13
        /\ f.core.col = Column(GroupChars(m + 1), k)
    BY <1>3, <1>6, <1>C, <2>3
  <2>7. Len(f.w) + WrittenLen(m, k) = Len(e.w) + WrittenLen(m + 1, k)
    BY <2>3, <2>5, Zenon
  <2> QED BY <2>3, <2>4, <2>6, <2>7 DEF f, k
<1>7. CASE r >= 5
  <2> DEFINE v == q % 2^13
             s == q \div 2^13
             g == Requeued(e, s, r + 8 - 13)
  <2>1. s \in Nat /\ s < 2^(r + 8 - 13)
    <3> DEFINE n == r + 8
    <3>1. n \in 0 .. 21 /\ 13 \in {8, 13, 14, 16} /\ 13 <= n
      BY <1>1, <1>7
    <3>2. q < 2^n
      BY <1>2
    <3> HIDE DEF n
    <3>3. q \div 2^13 \in Nat /\ q \div 2^13 < 2^(n - 13)
      BY <1>2, <3>1, <3>2, Arith!Drop, Zenon
    <3>4. s = q \div 2^13
      BY Zenon DEF s
    <3>5. n - 13 = r + 8 - 13
      BY <1>1 DEF n
    <3> QED BY <3>3, <3>4, <3>5, Zenon
  <2>2. v \in GroupValues
    BY <1>2, GroupSize DEF GroupValues
  <2>3. f = PutPair(g, v)
    BY <1>1, <1>7 DEF PushByte, q, r, f
  <2> HIDE DEF v, s
  <2>4. r + 8 - 13 \in 0 .. 12
    BY <1>1, <1>7
  <2>5. /\ g \in Encoded /\ g.w = e.w
        /\ g.core.wrap = k /\ g.core.started = e.core.started
        /\ g.core.queue = s /\ g.core.nbits = r + 8 - 13
        /\ g.core.col = e.core.col
    <3> DEFINE y == r + 8 - 13
    <3>1. g = Requeued(e, s, y) /\ s \in Nat /\ y \in 0 .. 12
      BY <2>1, <2>4, Zenon
    <3> HIDE DEF y, g
    <3>2. SameButQueue(g, e, s, y)
      BY <3>1, RequeuedIs, Zenon
    <3> QED BY <3>2, Zenon DEF SameButQueue, k, y
  <2> HIDE DEF g
  <2>6. /\ f \in Encoded
        /\ f.core.wrap = k /\ f.core.started = g.core.started
        /\ f.core.queue = g.core.queue /\ f.core.nbits = g.core.nbits
        /\ f.core.col = Column(a + 2, k)
        /\ Len(f.w) + FullLines(a, k) = Len(g.w) + 2 + FullLines(a + 2, k)
    <3>1. g.core.col = Column(a, g.core.wrap) /\ g.core.wrap = k
      BY <1>C, <2>5, Zenon
    <3>2. /\ f \in Encoded
          /\ f.core.wrap = g.core.wrap /\ f.core.started = g.core.started
          /\ f.core.queue = g.core.queue /\ f.core.nbits = g.core.nbits
          /\ f.core.col = Column(a + 2, g.core.wrap)
          /\ Len(f.w) + FullLines(a, g.core.wrap)
               = Len(g.w) + 2 + FullLines(a + 2, g.core.wrap)
      BY <1>3, <2>2, <2>3, <2>5, <3>1, PutPairMoves
    <3> QED BY <3>1, <3>2, Zenon
  <2>7. f.core.queue < 2^f.core.nbits
    BY <2>1, <2>5, <2>6, Zenon
  <2>8. f.core.nbits = r - 5
    <3>1. f.core.nbits = r + 8 - 13
      BY <2>5, <2>6, Zenon
    <3>2. r + 8 - 13 = r - 5
      BY ONLY <1>1
    <3> QED BY <3>1, <3>2, Zenon
  <2>9. Len(f.w) + WrittenLen(m, k) = Len(e.w) + WrittenLen(m + 1, k)
    <3>1. Len(f.w) \in Nat
      BY <2>6 DEF Encoded
    <3>2. Len(g.w) = Len(e.w)
      BY <2>5
    <3>3. /\ GroupChars(m) = a /\ GroupChars(m + 1) = a + 2
      BY <1>3, <1>7 DEF a
    <3>4. Len(f.w) + FullLines(a, k) = Len(e.w) + 2 + FullLines(a + 2, k)
      BY <2>6, <3>2, Zenon
    <3>5. /\ WrittenLen(m, k) = (IF k = 0 THEN 1 ELSE 2) + a + FullLines(a, k)
          /\ WrittenLen(m + 1, k)
               = (IF k = 0 THEN 1 ELSE 2) + (a + 2) + FullLines(a + 2, k)
      BY <3>3, Zenon DEF WrittenLen
    <3>6. (IF k = 0 THEN 1 ELSE 2) \in Nat
      OBVIOUS
    <3> DEFINE x  == Len(f.w)
               y  == Len(e.w)
               l  == FullLines(a, k)
               n  == FullLines(a + 2, k)
               h  == IF k = 0 THEN 1 ELSE 2
               w0 == WrittenLen(m, k)
               w1 == WrittenLen(m + 1, k)
    <3>7. x \in Nat /\ y \in Nat /\ l \in Nat /\ n \in Nat /\ h \in Nat
      BY <1>1, <1>5, <3>1, <3>6, Zenon
    <3>8. x + l = y + 2 + n /\ w0 = h + a + l /\ w1 = h + (a + 2) + n
      BY <3>4, <3>5, Zenon
    <3> HIDE DEF x, y, l, n, h, w0, w1
    <3>9. x + w0 = y + w1
      BY <1>3, <3>7, <3>8
    <3> QED BY <3>9, Zenon DEF x, y, w0, w1
  <2>10. f.core.nbits = (8 * (m + 1)) % 13
         /\ f.core.col = Column(GroupChars(m + 1), k)
    BY <1>3, <1>7, <2>6, <2>8
  <2> QED BY <2>5, <2>6, <2>7, <2>9, <2>10 DEF f, k
<1> QED BY <1>1, <1>6, <1>7

\* The characters of the last group.
LEMMA PutLastMoves ==
    ASSUME NEW e \in Encoded, NEW a \in Nat,
           e.core.col = Column(a, e.core.wrap)
    PROVE  LET f == PutLast(e)
               k == e.core.wrap
               c == LastChars(e.core)
           IN  /\ c \in 0 .. 2
               /\ f \in Encoded
               /\ f.core.col = Column(a + c, k)
               /\ Len(f.w) + FullLines(a, k)
                    = Len(e.w) + c + FullLines(a + c, k)
<1> DEFINE k == e.core.wrap
           c == LastChars(e.core)
           v == e.core.queue % 2^13
           f == PutLast(e)
<1>1. e.core \in Cores /\ e.w \in Seq(Symbol) /\ Len(e.w) \in Nat
  BY DEF Encoded
<1>2. /\ k \in Nat /\ e.core.queue \in Nat /\ e.core.nbits \in 0 .. 12
  BY <1>1, CoreTypes
<1>3. v \in GroupValues /\ v % 91 \in Char
  <2>1. v \in GroupValues
    BY <1>2, GroupSize DEF GroupValues
  <2> HIDE DEF v
  <2> QED BY <2>1 DEF GroupValues, Char
<1> HIDE DEF v
<1>4. CASE e.core.nbits = 0
  <2>1. c = 0 /\ f = e /\ a + 0 = a
    BY <1>4 DEF LastChars, PutLast
  <2>2. FullLines(a, k) \in Nat
    BY <1>2, LineNumbers
  <2> HIDE DEF c, f
  <2>3. Len(f.w) + FullLines(a, k) = Len(e.w) + 0 + FullLines(a, k)
    BY <1>1, <2>1, <2>2
  <2> QED BY <2>1, <2>3 DEF c, f
<1>5. CASE e.core.nbits # 0 /\ e.core.nbits <= 6
  <2>1. c = 1 /\ f = PutChar(e, v % 91)
    BY <1>5 DEF LastChars, PutLast, v
  <2>2. /\ f \in Encoded
        /\ f.core.col = Column(a + 1, k)
        /\ Len(f.w) + FullLines(a, k) = Len(e.w) + 1 + FullLines(a + 1, k)
    BY <1>3, <2>1, PutCharMoves
  <2> HIDE DEF c, f
  <2> QED BY <2>1, <2>2 DEF c, f
<1>6. CASE e.core.nbits > 6
  <2>1. c = 2 /\ f = PutPair(e, v)
    BY <1>2, <1>6 DEF LastChars, PutLast, v
  <2>2. /\ f \in Encoded
        /\ f.core.col = Column(a + 2, k)
        /\ Len(f.w) + FullLines(a, k) = Len(e.w) + 2 + FullLines(a + 2, k)
    <3>1. v \in GroupValues /\ f = PutPair(e, v)
      BY <1>3, <2>1, Zenon
    <3> HIDE DEF f
    <3> QED BY <3>1, PutPairMoves, Zenon
  <2> HIDE DEF c, f
  <2> QED BY <2>1, <2>2 DEF c, f
<1>7. \/ e.core.nbits = 0
      \/ e.core.nbits # 0 /\ e.core.nbits <= 6
      \/ e.core.nbits > 6
  BY <1>2
<1> HIDE DEF k, c, f
<1>8. /\ c \in 0 .. 2 /\ f \in Encoded /\ f.core.col = Column(a + c, k)
      /\ Len(f.w) + FullLines(a, k) = Len(e.w) + c + FullLines(a + c, k)
  BY <1>4, <1>5, <1>6, <1>7, Zenon DEF k, c, f
<1> QED BY <1>8, Zenon DEF k, c, f

----------------------------------------------------------------------------
\* Batches of blocks.

\* Every character of a block that is in the stream is one.
LEMMA BlockCharIs ==
    ASSUME stream \in Seq(Byte), NEW p \in Nat, p + 13 <= Len(stream),
           NEW j \in 0 .. 15
    PROVE  BlockChar(p, j) \in Char
<1> DEFINE k  == j \div 2
           b0 == (13 * k) \div 8
           at(i) == LET b == b0 + i IN IF b < 13 THEN stream[p + b + 1] ELSE 0
           x  == at(0) + 2^8 * at(1) + 2^16 * at(2)
           y  == 2^((13 * k) % 8)
           v  == BlockGroup(p, k)
<1>1. k \in 0 .. 7
  OBVIOUS
<1>2. b0 \in 0 .. 11 /\ (13 * k) % 8 \in 0 .. 7
  BY <1>1
<1> HIDE DEF k, b0
<1>3. ASSUME NEW i \in 0 .. 2 PROVE at(i) \in Nat
  <2>1. CASE b0 + i < 13
    <3>1. p + (b0 + i) + 1 \in 1 .. Len(stream)
      BY <1>2, <2>1
    <3> DEFINE z == stream[p + (b0 + i) + 1]
    <3>4. z \in Byte
      BY <3>1
    <3> HIDE DEF z
    <3>2. z \in Nat
      BY <3>4 DEF Byte
    <3>3. at(i) = stream[p + (b0 + i) + 1]
      BY <2>1, Zenon
    <3> QED BY <3>2, <3>3, Zenon DEF z
  <2>2. CASE ~ (b0 + i < 13)
    <3>1. at(i) = 0
      BY <2>2, Zenon
    <3> HIDE DEF at
    <3> QED BY <3>1
  <2> QED BY <2>1, <2>2, Zenon
<1>4. at(0) \in Nat /\ at(1) \in Nat /\ at(2) \in Nat
  BY <1>3
<1> HIDE DEF at
<1>5. x \in Nat
  <2>1. 2^8 = 256 /\ 2^16 = 65536
    BY SMT
  <2> QED BY <1>4, <2>1
<1>6. y \in Nat \ {0}
  <2> DEFINE s == (13 * k) % 8
  <2>1. s = 0 \/ s = 1 \/ s = 2 \/ s = 3 \/ s = 4 \/ s = 5 \/ s = 6 \/ s = 7
    BY <1>2
  <2> HIDE DEF s
  <2>2. /\ Arith!Power(0) = 1 /\ Arith!Power(1) = 2 /\ Arith!Power(2) = 4
        /\ Arith!Power(3) = 8 /\ Arith!Power(4) = 16 /\ Arith!Power(5) = 32
        /\ Arith!Power(6) = 64 /\ Arith!Power(7) = 128
    BY SMT DEF Arith!Power
  <2>3. Arith!Power(s) \in Nat \ {0}
    BY <2>1, <2>2
  <2>4. Arith!Power(s) = 2^s
    BY DEF Arith!Power
  <2> QED BY <2>3, <2>4, Zenon DEF s
<1>7. v = (x \div y) % 2^13
  BY DEF BlockGroup, at, b0
<1> HIDE DEF x, y, v
<1>8. x \div y \in Nat
  BY <1>5, <1>6, Arith!Division
<1>9. v \in GroupValues
  BY <1>7, <1>8, GroupSize DEF GroupValues
<1>10. v % 91 \in Char /\ v \div 91 \in Char
  BY <1>9 DEF GroupValues, Char
<1> QED BY <1>10 DEF BlockChar, v, k

\* A batch writes its blocks' characters, and its lines' LFs.
LEMMA BatchTextIs ==
    ASSUME stream \in Seq(Byte), pos \in Nat,
           NEW n \in Nat \ {0}, NEW lines \in Nat \ {0},
           NEW terminate \in BOOLEAN,
           pos + 13 * (n * lines) <= Len(stream)
    PROVE  LET stride == 16 * n + (IF terminate THEN 1 ELSE 0) IN
           /\ BatchText(n, lines, terminate) \in Seq(Symbol)
           /\ Len(BatchText(n, lines, terminate)) = stride * lines
<1> DEFINE stride == 16 * n + (IF terminate THEN 1 ELSE 0)
           sym(x) == LET l == (x - 1) \div stride
                         c == (x - 1) % stride
                     IN  IF c = 16 * n THEN LF
                         ELSE BlockChar(pos + 13 * (l * n + c \div 16), c % 16)
<1>1. stride \in Nat \ {0} /\ (stride = 16 * n \/ stride = 16 * n + 1)
  OBVIOUS
<1>2. BatchText(n, lines, terminate) = [x \in 1 .. stride * lines |-> sym(x)]
  BY DEF BatchText
<1> HIDE DEF stride
<1>3. stride * lines \in Nat
  BY <1>1
<1>4. ASSUME NEW x \in 1 .. stride * lines PROVE sym(x) \in Symbol
  <2> DEFINE l == (x - 1) \div stride
             c == (x - 1) % stride
  <2>1. /\ l \in Nat /\ c \in 0 .. (stride - 1)
        /\ x - 1 = stride * l + c /\ x - 1 < stride * lines
    <3> DEFINE y == x - 1
               z == stride * lines
    <3>1. y \in Nat /\ y < z
      <4>1. z \in Nat /\ x \in 1 .. z
        BY <1>3
      <4> HIDE DEF z
      <4> QED BY <4>1
    <3> HIDE DEF y, z
    <3>2. /\ y \div stride \in Nat /\ y % stride \in 0 .. (stride - 1)
          /\ y = stride * (y \div stride) + (y % stride)
      BY <1>1, <3>1, Arith!Division
    <3> QED BY <3>1, <3>2, Zenon DEF y, z, l, c
  <2> HIDE DEF l, c
  <2>2. l + 1 <= lines
    <3>1. SUFFICES ASSUME lines <= l PROVE FALSE
      BY <2>1
    <3>2. stride * lines <= stride * l
      BY <1>1, <2>1, <3>1, Arith!MulMonotone
    <3>3. stride * l \in Nat
      BY <1>1, <2>1
    <3> QED BY <1>3, <2>1, <3>2, <3>3
  <2>3. CASE c = 16 * n
    BY <2>3 DEF l, c, Symbol, LF
  <2>4. CASE c # 16 * n
    <3> DEFINE d == c \div 16
               m == l * n + d
               q == pos + 13 * m
    <3>1. c < 16 * n /\ c \in Nat
      BY <1>1, <2>1, <2>4
    <3>2. d \in Nat /\ d + 1 <= n /\ c % 16 \in 0 .. 15
      BY <3>1
    <3> HIDE DEF d
    <3>3. n * (l + 1) <= n * lines
      BY <2>1, <2>2, Arith!MulMonotone
    <3>4. n * (l + 1) = l * n + n /\ l * n \in Nat /\ n * lines \in Nat
      BY <2>1
    <3>5. m \in Nat /\ m + 1 <= n * lines
      BY <3>2, <3>3, <3>4
    <3> HIDE DEF m
    <3>6. q \in Nat /\ q + 13 <= Len(stream)
      <4> DEFINE z == n * lines
      <4>1. z \in Nat /\ m + 1 <= z /\ pos + 13 * z <= Len(stream)
        BY <3>4, <3>5
      <4> HIDE DEF z
      <4> QED BY <3>5, <4>1
    <3> HIDE DEF q
    <3>7. BlockChar(q, c % 16) \in Char
      BY <3>2, <3>6, BlockCharIs
    <3>8. sym(x) = BlockChar(q, c % 16)
      BY <2>4 DEF q, m, d, l, c
    <3> QED BY <3>7, <3>8 DEF Symbol
  <2> QED BY <2>3, <2>4
<1> HIDE DEF sym
<1>5. /\ [x \in 1 .. stride * lines |-> sym(x)] \in Seq(Symbol)
      /\ Len([x \in 1 .. stride * lines |-> sym(x)]) = stride * lines
  BY <1>3, <1>4
<1> QED BY <1>2, <1>5 DEF stride

\* m of the blocks that a call has left: the rest of them, and the loads.
LEMMA BlocksTaken ==
    ASSUME NEW p \in Nat, NEW n \in Nat, p <= n, NEW m \in Nat \ {0},
           m <= (n - p) \div 13
    PROVE  /\ p + 13 * m \in Nat /\ p + 13 * m <= n
           /\ (n - p) \div 13 - m = (n - (p + 13 * m)) \div 13
           /\ (n - p) \div 13 - m \in Nat
<1> DEFINE q == (n - p) \div 13
           r == (n - p) % 13
<1>1. q \in Nat /\ r \in 0 .. 12 /\ n - p = 13 * q + r
  OBVIOUS
<1> HIDE DEF q, r
<1>2. m <= q
  BY DEF q
<1>3. n - (p + 13 * m) = 13 * (q - m) + r /\ q - m \in Nat
  BY <1>1, <1>2
<1> DEFINE x == n - (p + 13 * m)
           y == q - m
<1> HIDE DEF x, y
<1>4. x = 13 * y + r /\ y \in Nat
  BY <1>3 DEF x, y
<1>5. x \div 13 = y
  BY <1>1, <1>4
<1>6. p + 13 * m <= n
  BY <1>1, <1>2
<1> QED BY <1>3, <1>5, <1>6 DEF x, y, q

LEMMA LoadsStay ==
    ASSUME pos \in Nat, end \in Nat, NEW m \in Nat \ {0}, pos + 13 * m <= end
    PROVE  LoadsTo(m) \in Nat /\ LoadsTo(m) <= end
BY DEF LoadsTo

----------------------------------------------------------------------------
\* Every step keeps the invariant.

\* What the invariant says of the numbers of a state.
LEMMA StateFacts ==
    ASSUME IInv
    PROVE  /\ stream \in Seq(Byte) /\ Len(stream) \in Nat
           /\ fed \in Nat /\ pos \in Nat /\ end \in Nat
           /\ fed <= pos /\ pos <= end /\ end <= Len(stream)
           /\ core \in Cores /\ core.wrap \in Widths /\ core.wrap \in Nat
           /\ core.col \in Nat /\ core.queue \in Nat /\ core.nbits \in 0 .. 12
           /\ blocks \in Nat /\ reach \in Nat /\ promised \in Nat
           /\ w \in Seq(Symbol) /\ text \in Seq(Symbol)
           /\ Len(w) \in Nat /\ Len(text) \in Nat
           /\ Out \in Encoded /\ Out.core = core /\ Out.w = w
<1>1. TypeOK
  BY DEF IInv
<1>2. core \in Cores
  BY <1>1 DEF TypeOK, Cores
<1>3. w \in Seq(Symbol) /\ text \in Seq(Symbol) /\ stream \in Seq(Byte)
  BY <1>1 DEF TypeOK
<1>4. Out \in Encoded /\ Out.core = core /\ Out.w = w
  BY <1>2, <1>3 DEF Out, Encoded
<1>5. Len(w) \in Nat /\ Len(text) \in Nat /\ Len(stream) \in Nat
  BY <1>3
<1>6. /\ fed \in Nat /\ pos \in Nat /\ end \in Nat
      /\ fed <= pos /\ pos <= end /\ end <= Len(stream)
      /\ blocks \in Nat /\ reach \in Nat /\ promised \in Nat
  <2>1. /\ fed \in 0 .. end /\ pos \in fed .. end /\ end \in 0 .. Len(stream)
        /\ blocks \in Nat /\ reach \in Nat /\ promised \in Nat
    BY <1>1 DEF TypeOK
  <2> QED BY <1>5, <2>1
<1> QED BY <1>2, <1>3, <1>4, <1>5, <1>6, CoreTypes

\* The written length is a number.
LEMMA WrittenIs ==
    ASSUME NEW m \in Nat, NEW k \in Nat
    PROVE  /\ GroupChars(m) \in Nat /\ FullLines(GroupChars(m), k) \in Nat
           /\ WrittenLen(m, k) \in Nat
<1>1. GroupChars(m) \in Nat
  BY GroupsGrow
<1>2. FullLines(GroupChars(m), k) \in Nat
  BY <1>1, LineNumbers
<1> DEFINE a == GroupChars(m)
           l == FullLines(GroupChars(m), k)
<1>3. a \in Nat /\ l \in Nat /\ WrittenLen(m, k) = (IF k = 0 THEN 1 ELSE 2) + a + l
  BY <1>1, <1>2, Zenon DEF WrittenLen
<1> HIDE DEF a, l
<1>4. WrittenLen(m, k) \in Nat
  BY <1>3
<1> QED BY <1>1, <1>2, <1>4

\* push_byte, in the prefix and in the tail of a call.
LEMMA TakeByteStep ==
    ASSUME IInv, pc = "align" \/ pc = "tail", pos < end, TakeByte
    PROVE  IInv'
<1> DEFINE b == stream[pos + 1]
           f == PushByte(Out, b)
           k == core.wrap
<1> USE StateFacts
<1>1. b \in Byte
  <2>1. pos + 1 \in 1 .. Len(stream)
    OBVIOUS
  <2> QED BY <2>1
<1>2. /\ core.queue < 2^core.nbits
      /\ core.nbits = (8 * pos) % 13
      /\ core.col = Column(GroupChars(pos), k)
  BY DEF IInv, TypeOK, CountersAgree
<1>3. /\ f \in Encoded
      /\ f.core.queue < 2^f.core.nbits
      /\ f.core.wrap = k /\ f.core.started = core.started
      /\ f.core.nbits = (8 * (pos + 1)) % 13
      /\ f.core.col = Column(GroupChars(pos + 1), k)
      /\ Len(f.w) + WrittenLen(pos, k) = Len(w) + WrittenLen(pos + 1, k)
  <2> HIDE DEF b
  <2>1. Out \in Encoded /\ Out.core = core /\ Out.w = w /\ pos \in Nat
    OBVIOUS
  <2>2. /\ Out.core.queue < 2^Out.core.nbits
        /\ Out.core.nbits = (8 * pos) % 13
        /\ Out.core.col = Column(GroupChars(pos), Out.core.wrap)
    BY <1>2, <2>1, Zenon
  <2>3. /\ f \in Encoded
        /\ f.core.queue < 2^f.core.nbits
        /\ f.core.wrap = Out.core.wrap /\ f.core.started = Out.core.started
        /\ f.core.nbits = (8 * (pos + 1)) % 13
        /\ f.core.col = Column(GroupChars(pos + 1), Out.core.wrap)
        /\ Len(f.w) + WrittenLen(pos, Out.core.wrap)
             = Len(Out.w) + WrittenLen(pos + 1, Out.core.wrap)
    BY <1>1, <2>1, <2>2, PushByteMoves, Zenon
  <2> QED BY <2>1, <2>3, Zenon
<1>4. /\ core' = f.core /\ w' = f.w /\ pos' = pos + 1
      /\ stream' = stream /\ fed' = fed /\ end' = end /\ blocks' = blocks
      /\ reach' = reach /\ text' = text /\ promised' = promised /\ pc' = pc
  BY DEF TakeByte
<1> HIDE DEF f, b
<1>5. TypeOK'
  <2>1. core' \in Cores /\ w' \in Seq(Symbol)
    BY <1>3, <1>4 DEF Encoded
  <2>2. core'.queue < 2^core'.nbits
    BY <1>3, <1>4, Zenon
  <2>3. fed' \in 0 .. end' /\ pos' \in fed' .. end' /\ end' \in 0 .. Len(stream')
    <3>1. /\ fed \in Nat /\ pos \in Nat /\ end \in Nat /\ Len(stream) \in Nat
          /\ fed <= pos /\ end <= Len(stream) /\ pos < end
      BY <1>1, Zenon
    <3>2. fed \in 0 .. end /\ pos + 1 \in fed .. end /\ end \in 0 .. Len(stream)
      BY ONLY <3>1
    <3> QED BY <1>4, <3>2, Zenon
  <2>4. blocks' \in Nat /\ reach' \in Nat /\ promised' \in Nat
        /\ stream' \in Seq(Byte) /\ text' \in Seq(Symbol)
        /\ pc' \in {"idle", "align", "blocks", "tail", "ended"}
    BY <1>4
  <2> QED BY <2>1, <2>2, <2>3, <2>4 DEF TypeOK, Cores
<1>6. CallShape'
  BY <1>4 DEF IInv, CallShape, Running
<1>7. CountersAgree'
  <2>1. core.started = (end > 0)
    BY Zenon DEF IInv, CountersAgree
  <2>2. core'.started = (end' > 0)
    BY <1>3, <1>4, <2>1, Zenon
  <2>3. /\ core'.nbits = (8 * pos') % 13
        /\ core'.col = Column(GroupChars(pos'), core'.wrap)
    BY <1>3, <1>4, Zenon
  <2> QED BY <2>2, <2>3, Zenon DEF CountersAgree
<1>8. LengthsAgree'
  <2>1. core'.wrap = k /\ text' = text
    BY <1>3, <1>4
  <2>2. /\ Len(text) + Len(w) = WrittenLen(pos, k)
        /\ Len(text) + promised = WrittenLen(end, k)
        /\ fed > 0 => Len(text) = WrittenLen(fed, k)
        /\ fed = 0 => text = << >>
    BY DEF IInv, LengthsAgree, Running
  <2>3. Len(text) + Len(f.w) = WrittenLen(pos + 1, k)
    <3>1. Len(f.w) \in Nat
      BY <1>3 DEF Encoded
    <3>2. pos + 1 \in Nat
      OBVIOUS
    <3>3. WrittenLen(pos, k) \in Nat /\ WrittenLen(pos + 1, k) \in Nat
      BY <3>2, WrittenIs
    <3> DEFINE x == Len(f.w)
               y == Len(w)
               z == Len(text)
               u == WrittenLen(pos, k)
               v == WrittenLen(pos + 1, k)
    <3>4. x \in Nat /\ y \in Nat /\ z \in Nat /\ u \in Nat /\ v \in Nat
      BY <3>1, <3>3
    <3>5. x + u = y + v /\ z + y = u
      BY <1>3, <2>2, Zenon
    <3> HIDE DEF x, y, z, u, v
    <3>6. z + x = v
      BY <3>4, <3>5
    <3> QED BY <3>6, Zenon DEF x, z, v
  <2>4. /\ fed' > 0 => Len(text') = WrittenLen(fed', core'.wrap)
        /\ fed' = 0 => text' = << >>
        /\ Len(text') + Len(w') = WrittenLen(pos', core'.wrap)
        /\ Len(text') + promised' = WrittenLen(end', core'.wrap)
    BY <1>4, <2>1, <2>2, <2>3, Zenon
  <2>5. pc' # "ended"
    BY <1>4
  <2> QED BY <2>4, <2>5, Zenon DEF LengthsAgree
<1>9. LoadsInBounds'
  BY <1>4 DEF IInv, LoadsInBounds
<1> QED BY <1>5, <1>6, <1>7, <1>8, <1>9 DEF IInv

\* The prefix is done: the blocks that are whole.
LEMMA AlignedStep ==
    ASSUME IInv, Aligned
    PROVE  IInv'
<1> USE StateFacts
<1>1. /\ pc = "align" /\ (core.nbits = 0 \/ pos = end)
      /\ blocks' = (end - pos) \div 13 /\ pc' = "blocks"
      /\ stream' = stream /\ fed' = fed /\ end' = end /\ pos' = pos
      /\ core' = core /\ w' = w /\ reach' = reach /\ text' = text
      /\ promised' = promised
  BY DEF Aligned
<1>2. TypeOK'
  <2>1. blocks' \in Nat
    <3>1. pos \in Nat /\ end \in Nat /\ pos <= end
      BY Zenon
    <3>2. (end - pos) \div 13 \in Nat
      BY ONLY <3>1
    <3> QED BY <1>1, <3>2, Zenon
  <2> QED BY <1>1, <2>1 DEF IInv, TypeOK
<1>3. CallShape'
  BY <1>1 DEF IInv, CallShape, Running
<1>4. CountersAgree'
  BY <1>1, Zenon DEF IInv, CountersAgree
<1>5. LengthsAgree'
  <2>1. /\ Len(text) + Len(w) = WrittenLen(pos, core.wrap)
        /\ Len(text) + promised = WrittenLen(end, core.wrap)
        /\ fed > 0 => Len(text) = WrittenLen(fed, core.wrap)
        /\ fed = 0 => text = << >>
    BY <1>1, Zenon DEF IInv, LengthsAgree, Running
  <2>2. pc' # "ended"
    BY <1>1
  <2> QED BY <1>1, <2>1, <2>2, Zenon DEF LengthsAgree
<1>6. LoadsInBounds'
  BY <1>1 DEF IInv, LoadsInBounds
<1> QED BY <1>2, <1>3, <1>4, <1>5, <1>6 DEF IInv

\* So are the blocks.
LEMMA BlocksDoneStep ==
    ASSUME IInv, BlocksDone
    PROVE  IInv'
<1> USE StateFacts
<1>1. /\ pc = "blocks" /\ pc' = "tail" /\ blocks' = blocks
      /\ stream' = stream /\ fed' = fed /\ end' = end /\ pos' = pos
      /\ core' = core /\ w' = w /\ reach' = reach /\ text' = text
      /\ promised' = promised
  BY DEF BlocksDone
<1>2. TypeOK'
  BY <1>1 DEF IInv, TypeOK
<1>3. CallShape'
  BY <1>1 DEF IInv, CallShape, Running
<1>4. CountersAgree'
  BY <1>1, Zenon DEF IInv, CountersAgree
<1>5. LengthsAgree'
  <2>1. /\ Len(text) + Len(w) = WrittenLen(pos, core.wrap)
        /\ Len(text) + promised = WrittenLen(end, core.wrap)
        /\ fed > 0 => Len(text) = WrittenLen(fed, core.wrap)
        /\ fed = 0 => text = << >>
    BY <1>1, Zenon DEF IInv, LengthsAgree, Running
  <2>2. pc' # "ended"
    BY <1>1
  <2> QED BY <1>1, <2>1, <2>2, Zenon DEF LengthsAgree
<1>6. LoadsInBounds'
  BY <1>1 DEF IInv, LoadsInBounds
<1> QED BY <1>2, <1>3, <1>4, <1>5, <1>6 DEF IInv

\* A batch, when what it writes and the column are those of its blocks.
LEMMA BatchStep ==
    ASSUME IInv, pc = "blocks", blocks > 0,
           NEW n \in Nat \ {0}, NEW lines \in Nat \ {0}, n * lines <= blocks,
           TakeBatch(n, lines),
           NEW s \in Seq(Symbol), w' = w \o s,
           core' \in Cores, core'.wrap = core.wrap,
           core'.started = core.started, core'.queue = core.queue,
           core'.nbits = core.nbits,
           LET a == GroupChars(pos)
               b == GroupChars(pos) + 16 * (n * lines)
           IN  /\ core'.col = Column(b, core.wrap)
               /\ Len(s) + FullLines(a, core.wrap)
                    = 16 * (n * lines) + FullLines(b, core.wrap)
    PROVE  IInv'
<1> USE StateFacts
<1> DEFINE m == n * lines
           k == core.wrap
           a == GroupChars(pos)
           b == a + 16 * m
<1>1. m \in Nat \ {0} /\ m <= blocks
  <2>1. n \in Nat \ {0} /\ lines \in Nat \ {0} /\ n * lines <= blocks
    OBVIOUS
  <2>2. m \in Nat \ {0}
    <3>1. m \in Nat
      BY ONLY <2>1
    <3>2. m # 0
      BY ONLY <2>1
    <3> QED BY <3>1, <3>2
  <2> HIDE DEF m
  <2> QED BY <2>1, <2>2, Zenon DEF m
<1>2. /\ blocks = (end - pos) \div 13 /\ (core.nbits = 0 \/ pos = end)
      /\ fed < end
  BY DEF IInv, CallShape, Running
<1>3. core.nbits = 0
  <2>1. ASSUME pos = end PROVE FALSE
    <3>1. (end - pos) \div 13 = 0 /\ blocks > 0
      <4>1. pos = end /\ pos \in Nat /\ end \in Nat
        BY <2>1, Zenon
      <4>2. (end - pos) \div 13 = 0
        BY ONLY <4>1
      <4> QED BY <4>2, Zenon
    <3>2. ~ (0 > 0)
      BY ONLY SMT
    <3> QED BY <1>2, <3>1, <3>2, Zenon
  <2> QED BY <1>2, <2>1, Zenon
<1>4. /\ core.nbits = (8 * pos) % 13
      /\ core.started = (end > 0)
  BY Zenon DEF IInv, CountersAgree
<1>5. /\ pos' = pos + 13 * m /\ blocks' = blocks - m /\ reach' = LoadsTo(m)
      /\ stream' = stream /\ fed' = fed /\ end' = end /\ text' = text
      /\ promised' = promised /\ pc' = pc
  <2>1. 13 * n * lines = 13 * m
    <3>1. n \in Nat /\ lines \in Nat
      OBVIOUS
    <3> QED BY ONLY <3>1
  <2> HIDE DEF m
  <2> QED BY <2>1 DEF TakeBatch, m
<1>C. core'.col = Column(b, k)
      /\ Len(s) + FullLines(a, k) = 16 * m + FullLines(b, k)
  BY Zenon
<1> HIDE DEF m
<1>6. /\ pos' \in Nat /\ pos' <= end /\ blocks' = (end - pos') \div 13
      /\ blocks' \in Nat /\ pos <= pos'
  <2>1. m <= (end - pos) \div 13
    BY <1>1, <1>2, Zenon
  <2>2. pos \in Nat /\ end \in Nat /\ pos <= end
    OBVIOUS
  <2>3. /\ pos + 13 * m \in Nat /\ pos + 13 * m <= end
        /\ (end - pos) \div 13 - m = (end - (pos + 13 * m)) \div 13
        /\ (end - pos) \div 13 - m \in Nat
    BY <1>1, <2>1, <2>2, BlocksTaken
  <2>4. pos <= pos + 13 * m
    BY <1>1, <2>2
  <2> QED BY <1>2, <1>5, <2>3, <2>4, Zenon
<1>7. GroupChars(pos') = b /\ (8 * pos') % 13 = 0
  <2>1. (8 * pos) % 13 = 0
    BY <1>3, <1>4, Zenon
  <2> QED BY <1>1, <1>5, <2>1, GroupsByBlock
<1>8. TypeOK'
  <2>1. w' \in Seq(Symbol)
    BY Grow
  <2>2. core'.queue < 2^core'.nbits
    <3>1. core.queue < 2^core.nbits
      BY DEF IInv, TypeOK
    <3> QED BY <3>1, Zenon
  <2>3. fed' \in 0 .. end' /\ pos' \in fed' .. end' /\ end' \in 0 .. Len(stream')
    <3> DEFINE p == pos'
    <3>1. p \in Nat /\ pos <= p /\ p <= end
      BY <1>6
    <3> DEFINE z == Len(stream)
    <3>3. /\ fed \in Nat /\ pos \in Nat /\ end \in Nat /\ z \in Nat
          /\ fed <= pos /\ pos <= end /\ end <= z
      BY Zenon
    <3> HIDE DEF p, z
    <3>2. p \in fed .. end /\ fed \in 0 .. end /\ end \in 0 .. z
      BY ONLY <3>1, <3>3
    <3> QED BY <1>5, <3>2, Zenon DEF p, z
  <2>4. reach' \in Nat
    BY <1>1, <1>5, <1>6, LoadsStay
  <2>5. /\ stream' \in Seq(Byte) /\ text' \in Seq(Symbol) /\ promised' \in Nat
        /\ pc' \in {"idle", "align", "blocks", "tail", "ended"}
    BY <1>5
  <2> QED BY <1>6, <2>1, <2>2, <2>3, <2>4, <2>5 DEF TypeOK, Cores
<1>9. CallShape'
  <2>1. blocks' = (end' - pos') \div 13 /\ core'.nbits = 0
    BY <1>3, <1>5, <1>6
  <2>2. pc' = "blocks" /\ fed' < end'
    BY <1>2, <1>5
  <2> QED BY <2>1, <2>2 DEF CallShape, Running
<1>10. CountersAgree'
  <2>1. core'.started = (end' > 0)
    BY <1>4, <1>5, Zenon
  <2>2. /\ core'.nbits = (8 * pos') % 13
        /\ core'.col = Column(GroupChars(pos'), core'.wrap)
    BY <1>3, <1>7, <1>C, Zenon
  <2> QED BY <2>1, <2>2, Zenon DEF CountersAgree
<1>11. LengthsAgree'
  <2>1. /\ Len(text) + Len(w) = WrittenLen(pos, k)
        /\ Len(text) + promised = WrittenLen(end, k)
        /\ fed > 0 => Len(text) = WrittenLen(fed, k)
        /\ fed = 0 => text = << >>
    BY Zenon DEF IInv, LengthsAgree, Running
  <2>2. Len(w') = Len(w) + Len(s) /\ Len(s) \in Nat
    BY Grow
  <2>3. Len(text) + Len(w') = WrittenLen(pos', k)
    <3>1. /\ a \in Nat /\ FullLines(a, k) \in Nat
          /\ WrittenLen(pos, k) \in Nat
      BY WrittenIs
    <3>2. b \in Nat /\ FullLines(b, k) \in Nat
      BY <1>6, <1>7, WrittenIs
    <3> DEFINE x == Len(w')
               y == Len(w)
               z == Len(text)
               t == Len(s)
               h == IF k = 0 THEN 1 ELSE 2
               l == FullLines(a, k)
               d == FullLines(b, k)
               u == WrittenLen(pos, k)
               v == WrittenLen(pos', k)
    <3>3. /\ y \in Nat /\ z \in Nat /\ t \in Nat /\ h \in Nat
          /\ l \in Nat /\ d \in Nat /\ u \in Nat
      BY <2>2, <3>1, <3>2
    <3>4. u = h + a + l /\ v = h + b + d
      BY <1>7, Zenon DEF WrittenLen
    <3>5. z + y = u /\ x = y + t /\ t + l = 16 * m + d /\ b = a + 16 * m
      BY <2>1, <2>2, <1>C, Zenon
    <3>7. a \in Nat /\ b \in Nat /\ m \in Nat
      BY <1>1, <3>1, <3>2
    <3> HIDE DEF x, y, z, t, h, l, d, u, v, a, b
    <3>6. z + x = v
      BY ONLY <3>3, <3>4, <3>5, <3>7
    <3> QED BY <3>6, Zenon DEF x, z, v
  <2>4. pc' # "ended"
    BY <1>5
  <2>5. /\ fed' > 0 => Len(text') = WrittenLen(fed', core'.wrap)
        /\ fed' = 0 => text' = << >>
        /\ Len(text') + Len(w') = WrittenLen(pos', core'.wrap)
        /\ Len(text') + promised' = WrittenLen(end', core'.wrap)
    BY <1>5, <2>1, <2>3, Zenon
  <2> QED BY <2>4, <2>5, Zenon DEF LengthsAgree
<1>12. LoadsInBounds'
  <2>1. LoadsTo(m) <= end
    BY <1>1, <1>5, <1>6, LoadsStay
  <2> QED BY <1>5, <2>1 DEF LoadsInBounds
<1> QED BY <1>8, <1>9, <1>10, <1>11, <1>12 DEF IInv

\* A call returns.
LEMMA ReturnStep ==
    ASSUME IInv, Return
    PROVE  IInv'
<1> USE StateFacts
<1>1. /\ pc = "tail" /\ pos = end /\ text' = text \o w /\ fed' = end
      /\ w' = << >> /\ reach' = 0 /\ promised' = 0 /\ pc' = "idle"
      /\ stream' = stream /\ end' = end /\ pos' = pos /\ core' = core
      /\ blocks' = blocks
  BY DEF Return
<1>2. TypeOK'
  <2>1. text' \in Seq(Symbol) /\ w' \in Seq(Symbol)
    BY <1>1, Grow
  <2> QED BY <1>1, <2>1 DEF IInv, TypeOK
<1>3. CallShape'
  BY <1>1 DEF IInv, CallShape, Running
<1>4. CountersAgree'
  BY <1>1, Zenon DEF IInv, CountersAgree
<1>5. LengthsAgree'
  <2>1. Len(text) + Len(w) = WrittenLen(pos, core.wrap)
    BY <1>1, Zenon DEF IInv, LengthsAgree, Running
  <2>2. Len(text') = Len(text) + Len(w)
    BY <1>1, Grow
  <2>3. Len(text') = WrittenLen(fed', core'.wrap)
    BY <1>1, <2>1, <2>2, Zenon
  <2>4. fed < end
    BY <1>1 DEF IInv, CallShape, Running
  <2>5. fed' # 0 /\ pc' = "idle"
    BY <1>1, <2>4
  <2> QED BY <2>3, <2>5 DEF LengthsAgree, Running
<1>6. LoadsInBounds'
  BY <1>1 DEF LoadsInBounds
<1> QED BY <1>2, <1>3, <1>4, <1>5, <1>6 DEF IInv

\* The prefix that a call writes, which is its first thing.
HeaderLen(c) == IF c.started THEN 0 ELSE Len(Header(c))

LEMMA HeaderIs ==
    ASSUME NEW c \in Cores
    PROVE  /\ Header(c) \in Seq(Symbol)
           /\ Len(Header(c)) = IF c.wrap = 0 THEN 1 ELSE 2
           /\ HeaderLen(c) \in Nat
<1>1. Dash \in Symbol /\ LF \in Symbol
  BY DEF Dash, LF, Symbol, Char
<1>2. <<Dash, LF>> \in Seq(Symbol) /\ Len(<<Dash, LF>>) = 2
      /\ <<Dash>> \in Seq(Symbol) /\ Len(<<Dash>>) = 1
  BY <1>1
<1>3. c.wrap \in Nat
  BY CoreTypes
<1>4. Header(c) = IF c.wrap > 0 THEN <<Dash, LF>> ELSE <<Dash>>
  BY Zenon DEF Header
<1>5. Header(c) \in Seq(Symbol) /\ Len(Header(c)) = IF c.wrap = 0 THEN 1 ELSE 2
  <2>1. CASE c.wrap = 0
    <3>1. ~ (c.wrap > 0)
      BY <2>1
    <3>2. Header(c) = <<Dash>>
      BY <1>4, <3>1, Zenon
    <3> QED BY <1>2, <2>1, <3>2
  <2>2. CASE c.wrap # 0
    <3>1. c.wrap > 0
      BY <1>3, <2>2
    <3>2. Header(c) = <<Dash, LF>>
      BY <1>4, <3>1, Zenon
    <3> QED BY <1>2, <2>2, <3>2
  <2> QED BY <2>1, <2>2, Zenon
<1>6. HeaderLen(c) = 0 \/ HeaderLen(c) = 1 \/ HeaderLen(c) = 2
  BY <1>5, Zenon DEF HeaderLen
<1> QED BY <1>5, <1>6

\* The length that a call asks for is that of what its bytes will write.
LEMMA EncodeLenIs ==
    ASSUME NEW c \in Cores, NEW m \in Nat, NEW n \in Nat,
           c.nbits = (8 * m) % 13,
           c.col = Column(GroupChars(m), c.wrap)
    PROVE  /\ EncodeLen(c, n) \in Nat
           /\ HeaderLen(c) + WrittenLen(m + n, c.wrap)
                = WrittenLen(m, c.wrap) + EncodeLen(c, n)
<1> DEFINE k == c.wrap
           a == GroupChars(m)
           b == GroupChars(m + n)
           x == 2 * ((c.nbits + 8 * n) \div 13)
           y == IF k = 0 THEN 0 ELSE (c.col + x) \div k
           h == IF k = 0 THEN 1 ELSE 2
           g == HeaderLen(c)
           l == FullLines(a, k)
           d == FullLines(b, k)
<1>1. k \in Nat /\ g \in Nat /\ h \in Nat
  BY CoreTypes, HeaderIs
<1>2. a \in Nat /\ l \in Nat
  BY <1>1, WrittenIs
<1>3. x \in Nat /\ b = a + x
  <2> DEFINE r == (8 * m) % 13
             z == 2 * ((r + 8 * n) \div 13)
  <2>1. z \in Nat /\ b = a + z
    BY GroupsByCall
  <2>2. x = z
    BY Zenon
  <2> HIDE DEF x, z, a, b
  <2> QED BY <2>1, <2>2
<1>4. EncodeLen(c, n) = g + x + y
  BY Zenon DEF EncodeLen, HeaderLen
<1>5. y \in Nat /\ d = l + y
  <2>1. CASE k = 0
    <3>1. y = 0 /\ d = 0 /\ l = 0
      BY <2>1 DEF FullLines
    <3> HIDE DEF y, d, l
    <3> QED BY <3>1
  <2>2. CASE k # 0
    <3>1. k \in Nat \ {0}
      BY <1>1, <2>2
    <3>2. c.col = a % k /\ l = a \div k /\ d = b \div k
      BY <2>2, Zenon DEF Column, FullLines
    <3>3. y = ((a % k) + x) \div k
      BY <2>2, <3>2, Zenon
    <3> HIDE DEF a, b, x, y, d, l, k
    <3>4. ((a % k) + x) \div k \in Nat
          /\ (a + x) \div k = (a \div k) + (((a % k) + x) \div k)
      BY <1>2, <1>3, <3>1, LinesFilled
    <3> QED BY <1>3, <3>2, <3>3, <3>4, Zenon
  <2> QED BY <2>1, <2>2, Zenon
<1>6. /\ WrittenLen(m, k) = h + a + l
      /\ WrittenLen(m + n, k) = h + b + d
  BY Zenon DEF WrittenLen
<1> HIDE DEF k, a, b, x, y, h, g, l, d
<1>7. /\ g + x + y \in Nat
      /\ g + (h + b + d) = (h + a + l) + (g + x + y)
  BY <1>1, <1>2, <1>3, <1>5
<1> QED BY <1>4, <1>6, <1>7, Zenon DEF k, g

LEMMA CoreStarted ==
    ASSUME NEW c \in Cores
    PROVE  LET d == [c EXCEPT !.started = TRUE] IN
           /\ d \in Cores /\ d.wrap = c.wrap /\ d.col = c.col
           /\ d.queue = c.queue /\ d.nbits = c.nbits
BY DEF Cores

LEMMA StartedSet ==
    ASSUME NEW c \in Cores
    PROVE  [c EXCEPT !.started = TRUE].started
BY Zenon DEF Cores

\* encode is given bytes.
LEMMA EncodeStep ==
    ASSUME IInv, NEW n \in 1 .. Len(stream) - fed, Encode(n)
    PROVE  IInv'
<1> USE StateFacts
<1> DEFINE k == core.wrap
           d == [core EXCEPT !.started = TRUE]
<1>0. n \in Nat /\ n > 0 /\ fed + n <= Len(stream)
  OBVIOUS
<1>1. /\ pc = "idle" /\ end' = fed + n
      /\ promised' = EncodeLen(core, n) /\ core' = d
      /\ w' = (IF core.started THEN << >> ELSE Header(core))
      /\ pc' = "align"
      /\ stream' = stream /\ fed' = fed /\ pos' = pos /\ blocks' = blocks
      /\ reach' = reach /\ text' = text
  BY Zenon DEF Encode
<1>2. fed = end /\ pos = end /\ reach = 0
  BY <1>1 DEF IInv, CallShape, Running
<1>3. /\ core.nbits = (8 * pos) % 13 /\ core.col = Column(GroupChars(pos), k)
      /\ core.started = (end > 0)
      /\ fed > 0 => Len(text) = WrittenLen(fed, k)
      /\ fed = 0 => text = << >>
  <2>1. pc # "ended"
    BY <1>1
  <2> QED BY <2>1, Zenon DEF IInv, CountersAgree, LengthsAgree
<1>4. /\ d \in Cores /\ d.wrap = k /\ d.col = core.col
      /\ d.queue = core.queue /\ d.nbits = core.nbits
  BY CoreStarted
<1>5. d.started
  <2> HIDE DEF d
  <2>1. core \in Cores
    OBVIOUS
  <2> QED BY <2>1, StartedSet, Zenon DEF d
<1> HIDE DEF d
<1>6. /\ promised' \in Nat
      /\ HeaderLen(core) + WrittenLen(end', k) = WrittenLen(pos, k) + promised'
  <2>1. pos + n = end'
    BY <1>1, <1>2, Zenon
  <2>2. core \in Cores /\ pos \in Nat
    OBVIOUS
  <2>3. /\ EncodeLen(core, n) \in Nat
        /\ HeaderLen(core) + WrittenLen(pos + n, core.wrap)
             = WrittenLen(pos, core.wrap) + EncodeLen(core, n)
    <3>1. /\ core.nbits = (8 * pos) % 13
          /\ core.col = Column(GroupChars(pos), core.wrap)
      BY <1>3, Zenon
    <3>2. n \in Nat
      BY <1>0
    <3> QED BY ONLY <2>2, <3>1, <3>2, EncodeLenIs
  <2> QED BY <1>1, <2>1, <2>3, Zenon
<1>7. /\ w' \in Seq(Symbol) /\ Len(w') = HeaderLen(core)
      /\ Len(text) + HeaderLen(core) = WrittenLen(pos, k)
      /\ HeaderLen(core) \in Nat
  <2>1. /\ Header(core) \in Seq(Symbol) /\ HeaderLen(core) \in Nat
        /\ Len(Header(core)) = IF k = 0 THEN 1 ELSE 2
    BY HeaderIs
  <2>2. CASE core.started
    <3>1. end > 0
      BY <1>3, <2>2, Zenon
    <3>2. w' = << >> /\ HeaderLen(core) = 0
      BY <1>1, <2>2, Zenon DEF HeaderLen
    <3>3. fed > 0
      BY <1>2, <3>1
    <3>4. Len(text) = WrittenLen(pos, k)
      BY <1>2, <1>3, <3>3, Zenon
    <3>5. Len(text) + 0 = Len(text) /\ << >> \in Seq(Symbol) /\ Len(<< >>) = 0
      OBVIOUS
    <3> QED BY <2>1, <3>2, <3>4, <3>5, Zenon
  <2>3. CASE ~ core.started
    <3>1. ~ (end > 0)
      BY <1>3, <2>3, Zenon
    <3>2. w' = Header(core) /\ HeaderLen(core) = Len(Header(core))
      BY <1>1, <2>3, Zenon DEF HeaderLen
    <3>3. pos = 0 /\ fed = 0
      BY <1>2, <3>1
    <3>4. text = << >>
      BY <1>3, <3>3, Zenon
    <3>5. Len(text) = 0
      BY <3>4
    <3>6. WrittenLen(pos, k) = IF k = 0 THEN 1 ELSE 2
      <4>1. GroupChars(0) = 0
        BY DEF GroupChars
      <4>2. FullLines(0, k) = 0
        BY DEF FullLines
      <4> QED BY <3>3, <4>1, <4>2 DEF WrittenLen
    <3>7. 0 + HeaderLen(core) = HeaderLen(core)
      BY <2>1
    <3> QED BY <2>1, <3>2, <3>5, <3>6, <3>7, Zenon
  <2> QED BY <2>2, <2>3, Zenon
<1>8. TypeOK'
  <2>1. core' \in Cores
    BY <1>1, <1>4
  <2>2. core'.queue < 2^core'.nbits
    <3>1. core.queue < 2^core.nbits
      BY DEF IInv, TypeOK
    <3> QED BY <1>1, <1>4, <3>1, Zenon
  <2>3. fed' \in 0 .. end' /\ pos' \in fed' .. end' /\ end' \in 0 .. Len(stream')
    <3> DEFINE z == Len(stream)
    <3>1. fed \in Nat /\ z \in Nat /\ pos = fed /\ fed + n <= z /\ n \in Nat
      BY <1>0, <1>2
    <3> HIDE DEF z
    <3>2. fed \in 0 .. (fed + n) /\ pos \in fed .. (fed + n)
          /\ fed + n \in 0 .. z
      BY ONLY <3>1
    <3> QED BY <1>1, <3>2, Zenon DEF z
  <2>4. /\ stream' \in Seq(Byte) /\ text' \in Seq(Symbol) /\ blocks' \in Nat
        /\ reach' \in Nat
        /\ pc' \in {"idle", "align", "blocks", "tail", "ended"}
    BY <1>1
  <2> QED BY <1>6, <1>7, <2>1, <2>2, <2>3, <2>4 DEF TypeOK, Cores
<1>9. CallShape'
  <2>1. fed' < end' /\ pc' = "align"
    BY <1>0, <1>1
  <2> QED BY <2>1 DEF CallShape, Running
<1>10. CountersAgree'
  <2>1. end' > 0
    BY <1>0, <1>1
  <2>2. core'.started = (end' > 0)
    BY <1>1, <1>5, <2>1, Zenon
  <2>3. /\ core'.nbits = (8 * pos') % 13
        /\ core'.col = Column(GroupChars(pos'), core'.wrap)
    BY <1>1, <1>3, <1>4, Zenon
  <2> QED BY <2>2, <2>3, Zenon DEF CountersAgree
<1>11. LengthsAgree'
  <2>1. core'.wrap = k
    BY <1>1, <1>4
  <2>2. Len(text) + promised' = WrittenLen(end', k)
    <3> DEFINE e == end'
               p == promised'
               x == Len(text)
               g == HeaderLen(core)
               u == WrittenLen(pos, k)
               v == WrittenLen(end', k)
    <3>1. e \in Nat
      <4>1. e = fed + n /\ fed \in Nat /\ n \in Nat
        BY <1>0, <1>1, Zenon
      <4> HIDE DEF e
      <4> QED BY ONLY <4>1
    <3>2. u \in Nat /\ v \in Nat
      <4> HIDE DEF e
      <4>1. WrittenLen(e, k) \in Nat /\ WrittenLen(pos, k) \in Nat
        BY <3>1, WrittenIs
      <4> QED BY <4>1, Zenon DEF e
    <3>3. x \in Nat /\ p \in Nat /\ g \in Nat /\ g + v = u + p /\ x + g = u
      BY <1>6, <1>7
    <3> HIDE DEF e, p, x, g, u, v
    <3>4. x + p = v
      BY ONLY <3>2, <3>3
    <3> QED BY <3>4, Zenon DEF p, x, v
  <2>3. pc' # "ended"
    BY <1>1
  <2>4. /\ fed' > 0 => Len(text') = WrittenLen(fed', core'.wrap)
        /\ fed' = 0 => text' = << >>
        /\ Len(text') + Len(w') = WrittenLen(pos', core'.wrap)
        /\ Len(text') + promised' = WrittenLen(end', core'.wrap)
    BY <1>1, <1>3, <1>7, <2>1, <2>2, Zenon
  <2> QED BY <2>3, <2>4, Zenon DEF LengthsAgree
<1>12. LoadsInBounds'
  <2>1. reach' = 0 /\ end' = fed + n
    BY <1>1, <1>2, Zenon
  <2> QED BY <1>0, <2>1 DEF LoadsInBounds
<1> QED BY <1>8, <1>9, <1>10, <1>11, <1>12 DEF IInv

\* What the invariant says before a batch.
LEMMA BeforeBatch ==
    ASSUME IInv, pc = "blocks", blocks > 0
    PROVE  LET a == GroupChars(pos) IN
           /\ (8 * pos) % 13 = 0 /\ a \in Nat /\ a % 16 = 0
           /\ core.col = Column(a, core.wrap)
           /\ \A m \in Nat \ {0} :
                 m <= blocks => /\ pos + 13 * m <= Len(stream)
                                /\ GroupChars(pos + 13 * m) = a + 16 * m
<1> USE StateFacts
<1>1. blocks = (end - pos) \div 13 /\ (core.nbits = 0 \/ pos = end)
  BY DEF IInv, CallShape
<1>2. core.nbits = 0
  <2>1. pos # end
    BY <1>1
  <2> QED BY <1>1, <2>1
<1>3. core.nbits = (8 * pos) % 13 /\ core.col = Column(GroupChars(pos), core.wrap)
  BY Zenon DEF IInv, CountersAgree
<1>4. (8 * pos) % 13 = 0
  BY <1>2, <1>3, Zenon
<1>5. GroupChars(pos) \in Nat
  BY GroupsGrow
<1>6. 0 \in Nat /\ GroupChars(pos) % 16 = 0
  BY <1>4, GroupsByBlock
<1>7. ASSUME NEW m \in Nat \ {0}, m <= blocks
      PROVE  /\ pos + 13 * m <= Len(stream)
             /\ GroupChars(pos + 13 * m) = GroupChars(pos) + 16 * m
  <2>1. m <= (end - pos) \div 13
    BY <1>1, <1>7, Zenon
  <2>2. pos + 13 * m \in Nat /\ pos + 13 * m <= end
    BY <2>1, BlocksTaken
  <2>3. GroupChars(pos + 13 * m) = GroupChars(pos) + 16 * m
    BY <1>4, GroupsByBlock
  <2> DEFINE x == pos + 13 * m
             z == Len(stream)
  <2>4. x \in Nat /\ z \in Nat /\ end \in Nat /\ x <= end /\ end <= z
    BY <2>2
  <2> HIDE DEF x, z
  <2>5. x <= z
    BY ONLY <2>4
  <2> QED BY <2>3, <2>5, Zenon DEF x, z
<1> QED BY <1>3, <1>4, <1>5, <1>6, <1>7

\* Whole lines: some, no more than there are blocks for.
LEMMA LinesAre ==
    ASSUME IInv, pc = "blocks", blocks > 0, AtWholeLines
    PROVE  LET n     == PerLine
               most  == Batch \div n
               lines == AtMost(blocks \div n, IF most = 0 THEN 1 ELSE most)
               k     == core.wrap
               a     == GroupChars(pos)
               m     == n * lines
               b     == a + 16 * m
           IN  /\ n \in Nat \ {0} /\ 16 * n = k /\ lines \in Nat \ {0}
               /\ m \in Nat \ {0} /\ m <= blocks
               /\ Column(b, k) = 0
               /\ (16 * n + 1) * lines + FullLines(a, k)
                    = 16 * m + FullLines(b, k)
<1> USE StateFacts
<1> DEFINE n     == PerLine
           most  == Batch \div n
           room  == IF most = 0 THEN 1 ELSE most
           lines == AtMost(blocks \div n, room)
           k     == core.wrap
           a     == GroupChars(pos)
           m     == n * lines
           b     == a + 16 * m
<1>2. k > 0 /\ core.col = 0 /\ blocks >= n
  BY Zenon DEF AtWholeLines
<1>3. n \in Nat \ {0} /\ 16 * n = k
  BY <1>2, WidthBlocks DEF PerLine
<1> HIDE DEF n
<1>4. most \in Nat
  BY <1>3, Arith!Division, EncoderAssumption
<1> HIDE DEF most
<1>5. room \in Nat \ {0}
  BY <1>4
<1> HIDE DEF room
<1>6. lines \in Nat \ {0} /\ lines <= blocks \div n
  <2>1. blocks \div n \in Nat \ {0}
    <3>1. n \div n = 1
      BY <1>3
    <3>2. n \div n <= blocks \div n
      BY <1>2, <1>3, Arith!DivMonotone
    <3>3. blocks \div n \in Nat
      BY <1>3, Arith!Division
    <3> QED BY <3>1, <3>2, <3>3
  <2> QED BY <1>5, <2>1 DEF AtMost
<1> HIDE DEF lines
<1>7. m \in Nat \ {0} /\ m <= blocks
  <2>1. m <= blocks
    BY <1>3, <1>6, Arith!FloorFits
  <2> QED BY <1>3, <1>6, <2>1
<1>8. a \in Nat /\ core.col = Column(a, k)
  BY BeforeBatch
<1>10. b = a + k * lines
  BY <1>3, <1>6
<1> HIDE DEF a, k
<1>11. b % k = a % k /\ b \div k = a \div k + lines
  <2>1. k \in Nat \ {0} /\ a \in Nat /\ lines \in Nat
    BY <1>2, <1>6, <1>8 DEF k
  <2>2. (a + k * lines) % k = a % k
        /\ (a + k * lines) \div k = a \div k + lines
    BY <2>1, Arith!AddBlocks
  <2> QED BY <1>10, <2>2, Zenon
<1>12. Column(b, k) = 0 /\ FullLines(b, k) = FullLines(a, k) + lines
       /\ FullLines(a, k) \in Nat
  <2>1. k # 0
    BY <1>2
  <2>2. FullLines(a, k) \in Nat
    BY <1>8, LineNumbers DEF k
  <2> HIDE DEF b
  <2>3. Column(b, k) = b % k /\ Column(a, k) = a % k
        /\ FullLines(b, k) = b \div k /\ FullLines(a, k) = a \div k
    BY <2>1, Zenon DEF Column, FullLines
  <2>4. Column(b, k) = 0
    BY <1>2, <1>8, <1>11, <2>3, Zenon
  <2> QED BY <1>11, <2>2, <2>3, <2>4, Zenon
<1>13. (16 * n + 1) * lines + FullLines(a, k) = 16 * m + FullLines(b, k)
  <2> DEFINE y == FullLines(a, k)
             z == FullLines(b, k)
  <2>1. z = y + lines /\ y \in Nat /\ lines \in Nat /\ n \in Nat
    BY <1>3, <1>6, <1>12
  <2> HIDE DEF y, z
  <2>2. (16 * n + 1) * lines + y = 16 * (n * lines) + z
    BY ONLY <2>1
  <2> QED BY <2>2, Zenon DEF y, z
<1> QED BY <1>3, <1>6, <1>7, <1>12, <1>13, Zenon
        DEF a, k, lines, room, most, n

LEMMA LineBatchStep ==
    ASSUME IInv, LineBatch
    PROVE  IInv'
<1> USE StateFacts
<1> DEFINE n     == PerLine
           most  == Batch \div n
           lines == AtMost(blocks \div n, IF most = 0 THEN 1 ELSE most)
           s     == BatchText(n, lines, TRUE)
           k     == core.wrap
           a     == GroupChars(pos)
           m     == n * lines
           b     == a + 16 * m
<1>1. /\ pc = "blocks" /\ blocks > 0 /\ AtWholeLines
      /\ w' = w \o s /\ TakeBatch(n, lines) /\ core' = core
  BY Zenon DEF LineBatch
<1>2. core.col = 0
  BY <1>1, Zenon DEF AtWholeLines
<1>3. /\ n \in Nat \ {0} /\ lines \in Nat \ {0}
      /\ m \in Nat \ {0} /\ m <= blocks
      /\ Column(b, k) = 0
      /\ (16 * n + 1) * lines + FullLines(a, k) = 16 * m + FullLines(b, k)
  BY <1>1, LinesAre, Zenon
<1> HIDE DEF n, lines
<1>4. pos + 13 * m <= Len(stream)
  BY <1>1, <1>3, BeforeBatch
<1>5. s \in Seq(Symbol) /\ Len(s) = (16 * n + 1) * lines
  BY <1>3, <1>4, BatchTextIs
<1> HIDE DEF s
<1>6. Len(s) + FullLines(a, k) = 16 * m + FullLines(b, k)
  BY <1>3, <1>5, Zenon
<1>7. core' \in Cores /\ core'.col = Column(b, k)
  BY <1>1, <1>2, <1>3
<1> QED BY <1>1, <1>3, <1>5, <1>6, <1>7, BatchStep

\* The blocks of a row: some, and no more than its line has room for.
LEMMA RowIs ==
    ASSUME IInv, pc = "blocks", blocks > 0, ~ AtWholeLines
    PROVE  /\ RowBlocks \in Nat \ {0} /\ RowBlocks <= blocks
           /\ core.wrap > 0 => core.col + 16 * RowBlocks <= core.wrap
<1> USE StateFacts
<1> DEFINE k == core.wrap
           a == GroupChars(pos)
           c == core.col
<1>1. CASE k = 0
  <2>1. RowBlocks = blocks
    BY <1>1 DEF RowBlocks
  <2> QED BY <1>1, <2>1
<1>2. CASE k # 0
  <2> DEFINE j == (k - c) \div 16
  <2>1. k \in Nat \ {0} /\ k % 16 = 0 /\ k > 0
    <3>1. k \in Nat /\ k % 16 = 0 /\ k # 0
      BY <1>2, WidthBlocks, Zenon
    <3> HIDE DEF k
    <3> QED BY ONLY <3>1
  <2>2. a \in Nat /\ a % 16 = 0 /\ c = a % k
    BY <1>2, BeforeBatch, Zenon DEF Column
  <2>3. c \in 0 .. (k - 1) /\ c % 16 = 0
    <3>1. a % k \in 0 .. (k - 1)
      BY <2>1, <2>2, Arith!Division
    <3>2. (a % k) % 16 = 0
      BY <2>1, <2>2, ColumnOfBlocks
    <3> QED BY <2>2, <3>1, <3>2, Zenon
  <2>4. RowBlocks = AtMost(blocks, j)
    BY <1>2, Zenon DEF RowBlocks
  <2> HIDE DEF k, a, c
  <2>5. j \in Nat \ {0} /\ c + 16 * j = k
    <3> DEFINE x == c \div 16
               y == k \div 16
    <3>1. x \in Nat /\ y \in Nat /\ c = 16 * x /\ k = 16 * y
      BY ONLY <2>1, <2>3
    <3> HIDE DEF x, y
    <3>2. x < y
      BY ONLY <2>1, <2>3, <3>1
    <3>3. k - c = 16 * (y - x) /\ y - x \in Nat \ {0}
      BY ONLY <3>1, <3>2
    <3>4. j = y - x
      BY <3>3
    <3> QED BY ONLY <3>1, <3>3, <3>4
  <2> HIDE DEF j
  <2>6. RowBlocks \in Nat \ {0} /\ RowBlocks <= blocks /\ RowBlocks <= j
    BY <2>4, <2>5 DEF AtMost
  <2>7. c + 16 * RowBlocks <= k
    <3>1. c \in Nat
      BY <2>3
    <3> QED BY <2>5, <2>6, <3>1
  <2> QED BY <2>6, <2>7 DEF c, k
<1> QED BY <1>1, <1>2

\* A row.
LEMMA RowBatchStep ==
    ASSUME IInv, RowBatch
    PROVE  IInv'
<1> USE StateFacts
<1> DEFINE n    == RowBlocks
           k    == core.wrap
           a    == GroupChars(pos)
           b    == a + 16 * n
           c    == core.col
           col  == c + 16 * n
           full == k > 0 /\ col = k
           r    == BatchText(n, 1, FALSE)
           s    == r \o (IF full THEN <<LF>> ELSE << >>)
           x    == IF full THEN 0 ELSE col
           d    == [core EXCEPT !.col = x]
<1>1. /\ pc = "blocks" /\ blocks > 0 /\ ~ AtWholeLines
      /\ w' = w \o r \o (IF full THEN <<LF>> ELSE << >>)
      /\ core' = (IF k = 0 THEN core ELSE d)
      /\ TakeBatch(n, 1)
  BY Zenon DEF RowBatch
<1>2. /\ n \in Nat \ {0} /\ n <= blocks /\ n * 1 = n
      /\ k > 0 => col <= k
  <2>1. n \in Nat \ {0} /\ n <= blocks /\ (k > 0 => col <= k)
    BY <1>1, RowIs
  <2> HIDE DEF n, col, k
  <2>2. n * 1 = n
    BY <2>1
  <2> QED BY <2>1, <2>2
<1> HIDE DEF n
<1>3. a \in Nat /\ c = Column(a, k) /\ pos + 13 * n <= Len(stream)
  BY <1>1, <1>2, BeforeBatch
<1>4. r \in Seq(Symbol) /\ Len(r) = 16 * n /\ Len(r) \in Nat
  <2>1. 1 \in Nat \ {0} /\ FALSE \in BOOLEAN /\ pos + 13 * (n * 1) <= Len(stream)
    BY <1>2, <1>3
  <2>2. r \in Seq(Symbol) /\ Len(r) = (16 * n + 0) * 1
    BY <1>2, <2>1, BatchTextIs
  <2> HIDE DEF r
  <2>3. (16 * n + 0) * 1 = 16 * n /\ 16 * n \in Nat
    BY <1>2
  <2> QED BY <2>2, <2>3, Zenon
<1> HIDE DEF r
<1>5. s \in Seq(Symbol) /\ Len(s) = 16 * n + (IF full THEN 1 ELSE 0)
      /\ w' = w \o s
  <2> DEFINE z == IF full THEN <<LF>> ELSE << >>
  <2>1. LF \in Symbol
    BY DEF LF, Symbol
  <2>2. z \in Seq(Symbol) /\ Len(z) = (IF full THEN 1 ELSE 0)
    BY <2>1
  <2>3. w' = (w \o r) \o z
    BY <1>1
  <2> HIDE DEF z, full
  <2>4. (w \o r) \o z = w \o (r \o z)
    <3>1. w \in Seq(Symbol) /\ r \in Seq(Symbol) /\ z \in Seq(Symbol)
      BY <1>4, <2>2
    <3> QED BY ONLY <3>1
  <2>5. r \o z \in Seq(Symbol) /\ Len(r \o z) = Len(r) + Len(z)
    BY <1>4, <2>2, Grow
  <2>6. Len(r \o z) = 16 * n + (IF full THEN 1 ELSE 0)
    BY <1>4, <2>2, <2>5, Zenon
  <2> QED BY <2>3, <2>4, <2>5, <2>6, Zenon DEF z
<1> HIDE DEF s
<1>6. CASE k = 0
  <2>1. ~ full
    BY <1>6
  <2>2. Column(a, k) = 0 /\ Column(b, k) = 0
        /\ FullLines(a, k) = 0 /\ FullLines(b, k) = 0
    BY <1>6 DEF Column, FullLines
  <2>3. core' = core
    BY <1>1, <1>6
  <2>4. core'.col = Column(b, k)
    BY <1>3, <2>2, <2>3, Zenon
  <2> DEFINE y == Len(s)
  <2>5. y = 16 * n /\ n \in Nat
    <3>1. y = 16 * n + 0
      BY <1>5, <2>1, Zenon
    <3> HIDE DEF y
    <3> QED BY <1>2, <3>1
  <2> HIDE DEF y
  <2>6. y + 0 = 16 * n + 0
    BY ONLY <2>5
  <2>7. Len(s) + FullLines(a, k) = 16 * (n * 1) + FullLines(b, k)
    BY <1>2, <2>2, <2>6, Zenon DEF y
  <2>8. core'.col = Column(a + 16 * (n * 1), k)
        /\ Len(s) + FullLines(a, k) = 16 * (n * 1) + FullLines(a + 16 * (n * 1), k)
    BY <1>2, <2>4, <2>7, Zenon
  <2>9. n * 1 <= blocks /\ 1 \in Nat \ {0}
    BY <1>2
  <2> QED BY <1>1, <1>2, <1>5, <2>3, <2>8, <2>9, BatchStep
<1>7. CASE k # 0
  <2>1. k \in Nat \ {0} /\ k > 0
    BY <1>7
  <2>2. c = a % k /\ FullLines(a, k) = a \div k /\ FullLines(b, k) = b \div k
        /\ Column(b, k) = b % k /\ col <= k
    BY <1>2, <1>3, <1>7, <2>1, Zenon DEF Column, FullLines
  <2>3. c \in Nat /\ x \in Nat /\ a \div k \in Nat
    <3>1. a \div k \in Nat
      BY <1>3, <2>1, Arith!Division
    <3>3. c \in Nat /\ n \in Nat
      BY <1>2, Zenon
    <3>2. c \in Nat /\ col \in Nat
      <4> HIDE DEF c
      <4> QED BY ONLY <3>3
    <3> HIDE DEF a, c, col, full, k
    <3> QED BY ONLY <3>1, <3>2 DEF x
  <2>4. /\ b % k = x
        /\ b \div k = (a \div k) + (IF full THEN 1 ELSE 0)
    <3> DEFINE e == 16 * n
    <3>1. e \in Nat /\ (a % k) + e = col
      BY <1>2, <2>2
    <3>2. (a % k) + e <= k
      BY <2>2, <3>1, Zenon
    <3> HIDE DEF e
    <3>3. /\ (a % k) + e = k => /\ (a + e) % k = 0
                                /\ (a + e) \div k = (a \div k) + 1
          /\ (a % k) + e < k => /\ (a + e) % k = (a % k) + e
                                /\ (a + e) \div k = a \div k
      <4>1. a \in Nat /\ e \in Nat /\ k \in Nat \ {0} /\ (a % k) + e <= k
        BY <1>3, <2>1, <3>1, <3>2, Zenon
      <4> HIDE DEF a, k
      <4> QED BY ONLY <4>1, LineByPart
    <3>4. CASE col = k
      BY <2>1, <3>1, <3>3, <3>4, Zenon DEF e
    <3>5. CASE col # k
      <4>1. ~ full
        BY <3>5, Zenon
      <4>2. (a % k) + e < k
        <5>1. (a % k) + e # k
          BY <3>1, <3>5, Zenon
        <5>2. a % k \in Nat /\ k \in Nat
          BY <2>1, <2>2, <2>3, Zenon
        <5> DEFINE y == (a % k) + e
        <5>3. y \in Nat /\ y <= k /\ y # k /\ k \in Nat
          <6>1. e \in Nat
            BY <3>1
          <6> HIDE DEF a, k, e
          <6> QED BY ONLY <3>2, <5>1, <5>2, <6>1 DEF y
        <5> HIDE DEF y
        <5>4. y < k
          BY ONLY <5>3
        <5> QED BY <5>4, Zenon DEF y
      <4>3. (a \div k) + 0 = a \div k
        BY <2>3
      <4> QED BY <3>1, <3>3, <4>1, <4>2, <4>3, Zenon DEF e
    <3> QED BY <3>4, <3>5, Zenon
  <2>5. /\ d \in Cores /\ d.wrap = core.wrap /\ d.started = core.started
        /\ d.queue = core.queue /\ d.nbits = core.nbits /\ d.col = x
    <3> HIDE DEF x
    <3> QED BY <2>3, CoreCol
  <2> HIDE DEF d
  <2>6. core' = d
    BY <1>1, <1>7, Zenon
  <2> HIDE DEF x
  <2>7. core'.col = Column(b, k)
    BY <2>2, <2>4, <2>5, <2>6, Zenon
  <2>8. Len(s) + FullLines(a, k) = 16 * n + FullLines(b, k)
    <3> DEFINE y == Len(s)
               i == IF full THEN 1 ELSE 0
               l == FullLines(a, k)
               m == FullLines(b, k)
    <3>1. y = 16 * n + i /\ m = l + i
      BY <1>5, <2>2, <2>4, Zenon
    <3>2. i \in Nat /\ l \in Nat /\ n \in Nat
      <4>1. l \in Nat
        BY <2>2, <2>3, Zenon
      <4>2. i \in Nat
        <5> HIDE DEF full
        <5> QED OBVIOUS
      <4> QED BY <1>2, <4>1, <4>2
    <3> HIDE DEF y, i, l, m
    <3>3. y + l = 16 * n + m
      BY ONLY <3>1, <3>2
    <3> QED BY <3>3, Zenon DEF y, l, m
  <2>9. core'.col = Column(a + 16 * (n * 1), k)
        /\ Len(s) + FullLines(a, k) = 16 * (n * 1) + FullLines(a + 16 * (n * 1), k)
    BY <1>2, <2>7, <2>8, Zenon
  <2>10. n * 1 <= blocks /\ 1 \in Nat \ {0}
    BY <1>2
  <2>11. /\ core' \in Cores /\ core'.wrap = core.wrap
         /\ core'.started = core.started /\ core'.queue = core.queue
         /\ core'.nbits = core.nbits
    BY <2>5, <2>6, Zenon
  <2> QED BY <1>1, <1>2, <1>5, <2>9, <2>10, <2>11, BatchStep
<1> QED BY <1>6, <1>7

\* finish writes what it says, and brings the text to its exact length.
LEMMA FinishLenIs ==
    ASSUME NEW n \in Nat, NEW k \in Nat, n > 0
    PROVE  LET r    == (8 * n) % 13
               last == IF r = 0 THEN 0 ELSE IF r <= 6 THEN 1 ELSE 2
               a    == GroupChars(n)
               c    == Column(a, k)
           IN  EncodedLen(n, k)
                 = WrittenLen(n, k) + last
                   + (IF k = 0 THEN 0 ELSE (c + last + k - 1) \div k)
<1> DEFINE r == (8 * n) % 13
           last == IF r = 0 THEN 0 ELSE IF r <= 6 THEN 1 ELSE 2
           a == GroupChars(n)
           p == 16 * (n \div 13) + TailChars[(n % 13) + 1]
<1>1. p = a + last
  BY TailIsLast
<1>2. last \in Nat
  <2> HIDE DEF r
  <2> QED OBVIOUS
<1>3. a \in Nat
  BY GroupsGrow
<1>4. n # 0
  OBVIOUS
<1>5. EncodedLen(n, k) = IF k = 0 THEN 1 + p ELSE 2 + p + (p + k - 1) \div k
  BY <1>4, Zenon DEF EncodedLen
<1> HIDE DEF last, a, p
<1>6. CASE k = 0
  <2>1. WrittenLen(n, k) = 1 + a + 0
    BY <1>6, Zenon DEF WrittenLen, FullLines, a
  <2>2. EncodedLen(n, k) = 1 + p
    BY <1>5, <1>6, Zenon
  <2> DEFINE u == WrittenLen(n, k)
             e == EncodedLen(n, k)
  <2>3. u = 1 + a + 0 /\ e = 1 + p
    BY <2>1, <2>2
  <2> HIDE DEF u, e
  <2>4. e = u + last + 0
    BY ONLY <1>1, <1>2, <1>3, <2>3
  <2> QED BY <1>6, <2>4, Zenon DEF u, e, last, a
<1>7. CASE k # 0
  <2>1. k \in Nat \ {0}
    BY <1>7
  <2> DEFINE f == a \div k
             g == ((a % k) + last + k - 1) \div k
             t == (p + k - 1) \div k
             u == WrittenLen(n, k)
             e == EncodedLen(n, k)
  <2>2. t = f + g /\ g \in Nat /\ f \in Nat
    <3>1. /\ ((a % k) + last + k - 1) \div k \in Nat
          /\ (a + last + k - 1) \div k
               = (a \div k) + (((a % k) + last + k - 1) \div k)
      BY <1>2, <1>3, <2>1, LinesLaid
    <3>2. a \div k \in Nat
      BY <1>3, <2>1, Arith!Division
    <3> QED BY <1>1, <3>1, <3>2, Zenon
  <2>3. u = 2 + a + f
    BY <1>7, Zenon DEF WrittenLen, FullLines, a
  <2>4. e = 2 + p + t
    BY <1>5, <1>7, Zenon
  <2>5. Column(a, k) = a % k
    BY <1>7, Zenon DEF Column
  <2> HIDE DEF f, g, t, u, e
  <2>6. e = u + last + g
    BY ONLY <1>1, <1>2, <1>3, <2>2, <2>3, <2>4
  <2> QED BY <1>7, <2>5, <2>6, Zenon DEF g, u, e, last, a
<1> QED BY <1>6, <1>7, Zenon

LEMMA NewCoreIs ==
    ASSUME NEW k \in Widths
    PROVE  /\ NewCore(k) \in Cores /\ NewCore(k).wrap = k
           /\ NewCore(k).queue = 0 /\ NewCore(k).nbits = 0
           /\ NewCore(k).col = 0
BY DEF NewCore, Cores

LEMMA NewCoreStarted ==
    ASSUME NEW k \in Widths
    PROVE  NewCore(k).started = FALSE
BY Zenon DEF NewCore

\* Of a line break for a line that is open.
LEMMA OpenLine ==
    ASSUME NEW a \in Nat, NEW c \in 0 .. 2, NEW k \in Widths, k > 0
    PROVE  LET x == Column(a, k)
               b == a + c
           IN  ((x + c + k - 1) \div k) + FullLines(a, k)
                 = FullLines(b, k) + (IF Column(b, k) = 0 THEN 0 ELSE 1)
<1> DEFINE x == a % k
           b == a + c
           q == b \div k
           y == b % k
           t == (b + k - 1) \div k
<1>1. k \in Nat \ {0} /\ b \in Nat /\ c \in Nat
  BY WidthBlocks
<1>2. q \in Nat /\ y \in 0 .. (k - 1) /\ b = k * q + y
  <2> HIDE DEF b
  <2> QED BY <1>1, Arith!Division
<1>3. t = q + (IF y = 0 THEN 0 ELSE 1)
  <2>1. CASE y = 0
    <3>1. b + k - 1 = k * q + (k - 1) /\ k - 1 \in 0 .. (k - 1)
      <4> HIDE DEF b, q, y
      <4> QED BY ONLY <1>1, <1>2, <2>1
    <3>2. (k * q + (k - 1)) \div k = q
      <4> HIDE DEF b, q, y
      <4> QED BY <1>1, <1>2, <3>1, Arith!DivisionUnique
    <3>3. q + 0 = q
      <4> HIDE DEF q
      <4> QED BY <1>2
    <3> QED BY <2>1, <3>1, <3>2, <3>3, Zenon
  <2>2. CASE y # 0
    <3>1. b + k - 1 = k * (q + 1) + (y - 1) /\ y - 1 \in 0 .. (k - 1)
          /\ q + 1 \in Nat
      <4> HIDE DEF b, q, y
      <4> QED BY ONLY <1>1, <1>2, <2>2
    <3>2. (k * (q + 1) + (y - 1)) \div k = q + 1
      <4> HIDE DEF b, q, y
      <4> QED BY <1>1, <3>1, Arith!DivisionUnique
    <3> QED BY <2>2, <3>1, <3>2, Zenon
  <2> QED BY <2>1, <2>2
<1>4. t = (a \div k) + (((a % k) + c + k - 1) \div k)
      /\ ((a % k) + c + k - 1) \div k \in Nat /\ a \div k \in Nat
  <2>1. a \div k \in Nat
    BY <1>1, Arith!Division
  <2> QED BY <1>1, <2>1, LinesLaid
<1> DEFINE z == ((a % k) + c + k - 1) \div k
           w0 == a \div k
<1>5. z + w0 = t
  <2>1. z \in Nat /\ w0 \in Nat /\ t = w0 + z
    BY <1>4, Zenon
  <2> HIDE DEF z, w0, t
  <2> QED BY ONLY <2>1
<1>6. /\ Column(a, k) = x /\ Column(b, k) = y
      /\ FullLines(a, k) = w0 /\ FullLines(b, k) = q
  <2>1. k # 0
    BY <1>1
  <2> QED BY <2>1, Zenon DEF Column, FullLines
<1> QED BY <1>3, <1>5, <1>6, Zenon

LEMMA FinishWrites ==
    ASSUME IInv, pc = "idle", core.started
    PROVE  LET last == PutLast([core |-> core, w |-> << >>])
               rest == last.w \o (IF core.wrap > 0 /\ last.core.col # 0
                                  THEN <<LF>> ELSE << >>)
           IN  /\ rest \in Seq(Symbol)
               /\ Len(rest) = FinishLen(core) /\ FinishLen(core) \in Nat
               /\ Len(text) + FinishLen(core) = EncodedLen(fed, core.wrap)
<1> USE StateFacts
<1> DEFINE k    == core.wrap
           e    == [core |-> core, w |-> << >>]
           last == PutLast(e)
           open == k > 0 /\ last.core.col # 0
           z    == IF open THEN <<LF>> ELSE << >>
           rest == last.w \o z
           a    == GroupChars(fed)
           c    == LastChars(core)
           b    == a + c
           g    == IF k = 0 THEN 0 ELSE (core.col + c + k - 1) \div k
<1>1. /\ core.nbits = (8 * pos) % 13
      /\ core.col = Column(GroupChars(pos), k)
      /\ core.started = (end > 0)
      /\ fed > 0 => Len(text) = WrittenLen(fed, k)
  BY Zenon DEF IInv, CountersAgree, LengthsAgree
<1>2. fed = end /\ pos = fed
  BY DEF IInv, CallShape, Running
<1>3. fed > 0 /\ core.nbits = (8 * fed) % 13 /\ core.col = Column(a, k)
      /\ Len(text) = WrittenLen(fed, k)
  BY <1>1, <1>2, Zenon
<1>4. a \in Nat /\ FullLines(a, k) \in Nat
  BY WrittenIs
<1>5. e \in Encoded /\ e.core = core /\ e.w = << >> /\ Len(e.w) = 0
  BY DEF Encoded
<1> HIDE DEF e
<1>6. /\ c \in 0 .. 2 /\ last \in Encoded /\ last.core.col = Column(b, k)
      /\ Len(last.w) + FullLines(a, k) = 0 + c + FullLines(b, k)
  <2>1. e.core.col = Column(a, e.core.wrap)
    BY <1>3, <1>5, Zenon
  <2>2. /\ LastChars(e.core) \in 0 .. 2
        /\ last \in Encoded
        /\ last.core.col = Column(a + LastChars(e.core), e.core.wrap)
        /\ Len(last.w) + FullLines(a, e.core.wrap)
             = Len(e.w) + LastChars(e.core)
               + FullLines(a + LastChars(e.core), e.core.wrap)
    <3> HIDE DEF a
    <3> QED BY <1>4, <1>5, <2>1, PutLastMoves
  <2> QED BY <1>5, <2>2, Zenon
<1>7. b \in Nat /\ FullLines(b, k) \in Nat
  <2>1. b \in Nat
    BY <1>4, <1>6
  <2> QED BY <2>1, LineNumbers
<1> HIDE DEF last
<1>8. z \in Seq(Symbol) /\ Len(z) = (IF open THEN 1 ELSE 0)
  <2>1. LF \in Symbol
    BY DEF LF, Symbol
  <2> QED BY <2>1
<1> HIDE DEF z
<1>9. /\ rest \in Seq(Symbol) /\ Len(rest) = Len(last.w) + Len(z)
      /\ Len(last.w) \in Nat
  <2>1. last.w \in Seq(Symbol)
    BY <1>6 DEF Encoded
  <2> QED BY <1>8, <2>1, Grow
<1> HIDE DEF rest
<1>10. g \in Nat /\ g + FullLines(a, k) = FullLines(b, k) + Len(z)
  <2>1. CASE k = 0
    <3>1. g = 0 /\ FullLines(a, k) = 0 /\ FullLines(b, k) = 0
      BY <2>1 DEF FullLines
    <3>2. Len(z) = 0
      BY <1>8, <2>1
    <3> HIDE DEF g
    <3> QED BY <3>1, <3>2
  <2>2. CASE k # 0
    <3>1. k > 0 /\ k \in Nat \ {0} /\ k \in Widths
      BY <2>2
    <3>2. g = (Column(a, k) + c + k - 1) \div k
      BY <1>3, <2>2, Zenon
    <3>3. ((Column(a, k) + c + k - 1) \div k) + FullLines(a, k)
            = FullLines(b, k) + (IF Column(b, k) = 0 THEN 0 ELSE 1)
      <4> HIDE DEF k, a, c
      <4> QED BY <1>4, <1>6, <3>1, OpenLine
    <3>4. Len(z) = IF Column(b, k) = 0 THEN 0 ELSE 1
      BY <1>6, <1>8, <3>1, Zenon
    <3>5. g \in Nat
      <4>1. Column(a, k) \in Nat
        BY <1>4, LineNumbers
      <4> DEFINE y == Column(a, k)
                 x == y + c + k - 1
      <4>2. x \in Nat
        <5>1. y \in Nat /\ c \in 0 .. 2
          BY <1>6, <4>1, Zenon
        <5> HIDE DEF y, k, c
        <5> QED BY ONLY <3>1, <5>1
      <4> HIDE DEF x
      <4>3. x \div k \in Nat
        BY <3>1, <4>2, Arith!Division
      <4> QED BY <3>2, <4>3, Zenon DEF x, y
    <3> QED BY <3>2, <3>3, <3>4, <3>5, Zenon
  <2> QED BY <2>1, <2>2, Zenon
<1>11. FinishLen(core) = c + g
  BY Zenon DEF FinishLen
<1>12. EncodedLen(fed, k) = WrittenLen(fed, k) + c + g
  <2> DEFINE r == (8 * fed) % 13
             v == IF r = 0 THEN 0 ELSE IF r <= 6 THEN 1 ELSE 2
  <2>1. c = v
    BY <1>3, Zenon DEF LastChars
  <2>2. EncodedLen(fed, k)
          = WrittenLen(fed, k) + v
            + (IF k = 0 THEN 0 ELSE (Column(a, k) + v + k - 1) \div k)
    BY <1>3, FinishLenIs
  <2> HIDE DEF v
  <2> QED BY <1>3, <2>1, <2>2, Zenon
<1> DEFINE x  == Len(last.w)
           y  == Len(rest)
           t  == Len(z)
           l  == FullLines(a, k)
           d  == FullLines(b, k)
           u  == WrittenLen(fed, k)
           f  == FinishLen(core)
           h  == EncodedLen(fed, k)
           tx == Len(text)
<1>13. /\ x \in Nat /\ l \in Nat /\ d \in Nat /\ g \in Nat /\ c \in Nat
       /\ t \in Nat /\ u \in Nat
  <2>1. t \in Nat
    BY <1>8
  <2>2. u \in Nat
    BY WrittenIs
  <2>3. c \in Nat
    <3> HIDE DEF c
    <3> QED BY <1>6
  <2> QED BY <1>4, <1>7, <1>9, <1>10, <2>1, <2>2, <2>3, Zenon
<1>14. /\ y = x + t /\ x + l = 0 + c + d /\ g + l = d + t
       /\ f = c + g /\ h = u + c + g /\ tx = u
  BY <1>3, <1>6, <1>9, <1>10, <1>11, <1>12, Zenon
<1> HIDE DEF x, y, t, l, d, u, f, h, tx, g, c, b
<1>15. y = f /\ f \in Nat /\ tx + f = h
  BY ONLY <1>13, <1>14
<1>16. /\ rest \in Seq(Symbol) /\ Len(rest) = FinishLen(core)
       /\ FinishLen(core) \in Nat
       /\ Len(text) + FinishLen(core) = EncodedLen(fed, core.wrap)
  BY <1>9, <1>15, Zenon DEF y, f, tx, h
<1> QED BY <1>16, Zenon DEF rest, z, last, e

\* finish.
LEMMA FinishStep ==
    ASSUME IInv, Finish
    PROVE  IInv'
<1> USE StateFacts
<1> DEFINE last == PutLast([core |-> core, w |-> << >>])
           rest == last.w \o (IF core.wrap > 0 /\ last.core.col # 0
                              THEN <<LF>> ELSE << >>)
           written == IF core.started THEN rest ELSE << >>
           k == core.wrap
<1>1. /\ pc = "idle" /\ w' = written /\ text' = text \o written
      /\ promised' = FinishLen(core) /\ core' = NewCore(k) /\ pc' = "ended"
      /\ stream' = stream /\ fed' = fed /\ end' = end /\ pos' = pos
      /\ blocks' = blocks /\ reach' = reach
  BY Zenon DEF Finish
<1>2. fed = end /\ pos = end /\ reach = 0
  BY <1>1 DEF IInv, CallShape, Running
<1>3. /\ written \in Seq(Symbol) /\ Len(written) = FinishLen(core)
      /\ FinishLen(core) \in Nat
      /\ Len(text) + FinishLen(core) = EncodedLen(fed, k)
  <2>1. CASE core.started
    <3>1. /\ rest \in Seq(Symbol)
          /\ Len(rest) = FinishLen(core) /\ FinishLen(core) \in Nat
          /\ Len(text) + FinishLen(core) = EncodedLen(fed, core.wrap)
      BY <1>1, <2>1, FinishWrites, Zenon
    <3> HIDE DEF rest
    <3>2. written = rest
      BY <2>1, Zenon
    <3> QED BY <3>1, <3>2, Zenon
  <2>2. CASE ~ core.started
    <3>1. core.started = (end > 0) /\ (fed = 0 => text = << >>)
      BY <1>1, Zenon DEF IInv, CountersAgree, LengthsAgree
    <3>2. ~ (end > 0)
      BY <2>2, <3>1, Zenon
    <3>3. fed = 0
      BY <1>2, <3>2
    <3>4. text = << >>
      BY <3>1, <3>3, Zenon
    <3>5. written = << >> /\ FinishLen(core) = 0
      BY <2>2, Zenon DEF FinishLen
    <3>6. EncodedLen(fed, k) = 0
      BY <3>3, Zenon DEF EncodedLen
    <3>7. << >> \in Seq(Symbol) /\ Len(<< >>) = 0 /\ 0 + 0 = 0 /\ 0 \in Nat
      OBVIOUS
    <3> QED BY <3>4, <3>5, <3>6, <3>7, Zenon
  <2> QED BY <2>1, <2>2, Zenon
<1> HIDE DEF written
<1>4. NewCore(k) \in Cores /\ NewCore(k).wrap = k /\ NewCore(k).queue = 0
      /\ NewCore(k).nbits = 0
  BY NewCoreIs
<1>5. TypeOK'
  <2>1. w' \in Seq(Symbol) /\ text' \in Seq(Symbol) /\ promised' \in Nat
    BY <1>1, <1>3, Grow
  <2>2. core' \in Cores
    BY <1>1, <1>4
  <2>3. core'.queue < 2^core'.nbits
    <3>1. 0 < 2^0
      BY SMT
    <3> QED BY <1>1, <1>4, <3>1, Zenon
  <2> QED BY <1>1, <2>1, <2>2, <2>3 DEF IInv, TypeOK, Cores
<1>6. CallShape'
  BY <1>1, <1>2, <1>4 DEF CallShape, Running
<1>7. CountersAgree'
  BY <1>1 DEF CountersAgree
<1>8. LengthsAgree'
  <2>1. Len(text') = Len(text) + Len(written)
    BY <1>1, <1>3, Grow
  <2>2. Len(w') = promised' /\ Len(text') = EncodedLen(fed', core'.wrap)
    BY <1>1, <1>3, <1>4, <2>1, Zenon
  <2> QED BY <1>1, <2>2 DEF LengthsAgree, Running
<1>9. LoadsInBounds'
  BY <1>1, <1>2 DEF LoadsInBounds
<1> QED BY <1>5, <1>6, <1>7, <1>8, <1>9 DEF IInv

\* What a core that has written nothing says.
LEMMA NewSession ==
    ASSUME NEW k \in Widths
    PROVE  /\ NewCore(k).queue < 2^NewCore(k).nbits
           /\ NewCore(k).nbits = (8 * 0) % 13
           /\ NewCore(k).col = Column(GroupChars(0), NewCore(k).wrap)
           /\ NewCore(k).started = (0 > 0)
<1>1. NewCore(k).wrap = k /\ NewCore(k).queue = 0 /\ NewCore(k).nbits = 0
      /\ NewCore(k).col = 0 /\ k \in Nat
  BY NewCoreIs, WidthBlocks
<1>2. 0 < 2^0 /\ (8 * 0) % 13 = 0
  BY SMT
<1>3. Column(GroupChars(0), k) = 0
  <2>1. GroupChars(0) = 0
    BY DEF GroupChars
  <2>2. k # 0 => 0 % k = 0
    <3>1. ASSUME k # 0 PROVE 0 % k = 0
      <4>1. k \in Nat \ {0} /\ 0 \in 0 .. (k - 1) /\ k * 0 + 0 = 0
        BY <1>1, <3>1
      <4> QED BY <4>1, Arith!DivisionUnique
    <3> QED BY <3>1
  <2> QED BY <2>1, <2>2, Zenon DEF Column
<1>4. NewCore(k).started = (0 > 0)
  <2>1. (0 > 0) = FALSE
    BY SMT
  <2> QED BY <2>1, NewCoreStarted, Zenon
<1> QED BY <1>1, <1>2, <1>3, <1>4, Zenon

\* Another session.
LEMMA BeginStep ==
    ASSUME IInv, Begin
    PROVE  IInv'
<1> USE StateFacts
<1>1. /\ pc = "ended" /\ stream' \in Streams /\ fed' = 0 /\ end' = 0
      /\ pos' = 0 /\ text' = << >> /\ w' = << >> /\ promised' = 0
      /\ pc' = "idle" /\ core' = core /\ blocks' = blocks /\ reach' = reach
  BY DEF Begin
<1>2. core = NewCore(core.wrap) /\ reach = 0
  BY <1>1 DEF IInv, CallShape, Running
<1>3. TypeOK'
  <2>1. stream' \in Seq(Byte)
    BY <1>1, EncoderAssumption
  <2>2. Len(stream') \in Nat /\ 0 \in 0 .. 0
    BY <2>1
  <2>3. fed' \in 0 .. end' /\ pos' \in fed' .. end' /\ end' \in 0 .. Len(stream')
    <3> DEFINE z == Len(stream')
    <3>1. z \in Nat
      BY <2>2
    <3> HIDE DEF z
    <3>2. 0 \in 0 .. 0 /\ 0 \in 0 .. z
      BY <3>1
    <3> QED BY <1>1, <3>2, Zenon DEF z
  <2>4. core' \in Cores /\ core'.queue < 2^core'.nbits
    <3>1. core.queue < 2^core.nbits
      BY DEF IInv, TypeOK
    <3> QED BY <1>1, <3>1, Zenon
  <2> QED BY <1>1, <2>1, <2>3, <2>4 DEF IInv, TypeOK, Cores
<1>4. CallShape'
  BY <1>1, <1>2 DEF CallShape, Running
<1>5. CountersAgree'
  <2>1. core.wrap \in Widths
    OBVIOUS
  <2>2. /\ core.nbits = (8 * 0) % 13
        /\ core.col = Column(GroupChars(0), core.wrap)
        /\ core.started = (0 > 0)
    BY <1>2, <2>1, NewSession, Zenon
  <2> QED BY <1>1, <2>2, Zenon DEF CountersAgree
<1>6. LengthsAgree'
  BY <1>1 DEF LengthsAgree, Running
<1>7. LoadsInBounds'
  BY <1>1, <1>2 DEF LoadsInBounds
<1> QED BY <1>3, <1>4, <1>5, <1>6, <1>7 DEF IInv

LEMMA InitIInv == Init => IInv
<1> SUFFICES ASSUME Init PROVE IInv
  OBVIOUS
<1>1. PICK k \in Widths : core = NewCore(k)
  BY DEF Init
<1>2. /\ stream \in Streams /\ fed = 0 /\ end = 0 /\ pos = 0 /\ blocks = 0
      /\ w = << >> /\ reach = 0 /\ text = << >> /\ promised = 0 /\ pc = "idle"
  BY DEF Init
<1>3. core \in Cores /\ core.wrap = k /\ k \in Nat
  BY <1>1, NewCoreIs, WidthBlocks
<1>4. /\ core.queue < 2^core.nbits
      /\ core.nbits = (8 * 0) % 13
      /\ core.col = Column(GroupChars(0), core.wrap)
      /\ core.started = (0 > 0)
  BY <1>1, NewSession, Zenon
<1>5. TypeOK
  <2>1. stream \in Seq(Byte) /\ Len(stream) \in Nat
    BY <1>2, EncoderAssumption
  <2>2. fed \in 0 .. end /\ pos \in fed .. end /\ end \in 0 .. Len(stream)
    <3> DEFINE z == Len(stream)
    <3>1. z \in Nat
      BY <2>1
    <3> HIDE DEF z
    <3>2. 0 \in 0 .. 0 /\ 0 \in 0 .. z
      BY <3>1
    <3> QED BY <1>2, <3>2, Zenon DEF z
  <2>3. core.queue < 2^core.nbits
    BY <1>4
  <2> QED BY <1>2, <1>3, <2>1, <2>2, <2>3 DEF TypeOK, Cores
<1>6. CallShape
  BY <1>2 DEF CallShape, Running
<1>7. CountersAgree
  BY <1>2, <1>4, Zenon DEF CountersAgree
<1>8. LengthsAgree
  BY <1>2 DEF LengthsAgree, Running
<1>9. LoadsInBounds
  BY <1>2 DEF LoadsInBounds
<1> QED BY <1>5, <1>6, <1>7, <1>8, <1>9 DEF IInv

LEMMA Inductive == IInv /\ [Next]_vars => IInv'
<1> SUFFICES ASSUME IInv, [Next]_vars PROVE IInv'
  OBVIOUS
<1>1. CASE \E n \in 1 .. Len(stream) - fed :
              (n \in ChunkSizes \/ fed + n = Len(stream)) /\ Encode(n)
  BY <1>1, EncodeStep
<1>2. CASE AlignByte
  BY <1>2, TakeByteStep DEF AlignByte
<1>3. CASE TailByte
  BY <1>3, TakeByteStep DEF TailByte
<1>4. CASE UNCHANGED vars
  BY <1>4 DEF vars, IInv, TypeOK, CallShape, Running, CountersAgree,
              LengthsAgree, LoadsInBounds
<1> QED BY <1>1, <1>2, <1>3, <1>4, AlignedStep, LineBatchStep, RowBatchStep,
           BlocksDoneStep, ReturnStep, FinishStep, BeginStep
        DEF Next, Step

----------------------------------------------------------------------------
\* The theorems.

\* The inductive invariant: the pending bits, the column, and the lengths of
\* the text and of each call's part of it, are those of the bytes read.
THEOREM Invariance == Spec => []IInv
<1> QED BY InitIInv, Inductive, PTL DEF Spec

\* Every variable keeps its type, and the bit queue is below 2^nbits: the
\* code's `queue | byte << nbits` never meets a bit that is set.
THEOREM TypeCorrect == Spec => []TypeOK
<1>1. IInv => TypeOK
  BY DEF IInv
<1> QED BY <1>1, Invariance, PTL

\* encode and finish write exactly the encode_len and the finish_len that
\* their callers take as initialized.
THEOREM LengthsAreExact == Spec => []LengthExact
<1>1. IInv => LengthExact
  <2> SUFFICES ASSUME IInv, pc = "ended" \/ (pc = "tail" /\ pos = end)
               PROVE  Len(w) = promised
    BY DEF LengthExact
  <2> USE StateFacts
  <2>1. CASE pc = "ended"
    BY <2>1 DEF IInv, LengthsAgree
  <2>2. CASE pc = "tail" /\ pos = end
    <3>1. /\ Len(text) + Len(w) = WrittenLen(end, core.wrap)
          /\ Len(text) + promised = WrittenLen(end, core.wrap)
      BY <2>2, Zenon DEF IInv, LengthsAgree, Running
    <3> DEFINE x == Len(text)
               y == Len(w)
               v == WrittenLen(end, core.wrap)
    <3>2. x \in Nat /\ y \in Nat /\ promised \in Nat /\ x + y = v
          /\ x + promised = v
      BY <3>1
    <3> HIDE DEF x, y, v
    <3>3. y = promised
      BY ONLY <3>2
    <3> QED BY <3>3 DEF y
  <2> QED BY <2>1, <2>2
<1> QED BY <1>1, Invariance, PTL

\* The kernels load no byte past the chunk.
THEOREM LoadsHold == Spec => []LoadsInBounds
<1>1. IInv => LoadsInBounds
  BY DEF IInv
<1> QED BY <1>1, Invariance, PTL

\* More bytes are written in no less.
LEMMA WrittenGrows ==
    ASSUME NEW m \in Nat, NEW n \in Nat, m <= n, NEW k \in Nat
    PROVE  /\ FullLines(GroupChars(m), k) <= FullLines(GroupChars(n), k)
           /\ WrittenLen(m, k) <= WrittenLen(n, k)
<1> DEFINE a == GroupChars(m)
           b == GroupChars(n)
           l == FullLines(a, k)
           d == FullLines(b, k)
           h == IF k = 0 THEN 1 ELSE 2
           u == WrittenLen(m, k)
           v == WrittenLen(n, k)
<1>1. a \in Nat /\ b \in Nat /\ a <= b
  BY GroupsGrow
<1>2. l \in Nat /\ d \in Nat
  BY WrittenIs
<1>3. u = h + a + l /\ v = h + b + d
  BY Zenon DEF WrittenLen
<1>4. l <= d
  <2> HIDE DEF a, b
  <2>1. CASE k = 0
    BY <2>1 DEF FullLines
  <2>2. CASE k # 0
    <3>1. k \in Nat \ {0}
      BY <2>2
    <3>2. a \div k <= b \div k
      BY <1>1, <3>1, Arith!DivMonotone
    <3> QED BY <2>2, <3>2, Zenon DEF FullLines
  <2> QED BY <2>1, <2>2, Zenon
<1>5. h \in Nat
  OBVIOUS
<1> HIDE DEF a, b, l, d, h, u, v
<1>6. u <= v
  BY <1>1, <1>2, <1>3, <1>4, <1>5
<1> QED BY <1>4, <1>6, Zenon DEF a, b, l, d, u, v

\* What m blocks more and their lines write is within what the call promised.
LEMMA RoomForBlocks ==
    ASSUME IInv, pc = "blocks", blocks > 0,
           NEW m \in Nat \ {0}, m <= blocks, NEW x \in Nat,
           LET a == GroupChars(pos)
               b == GroupChars(pos) + 16 * m
           IN  x + FullLines(a, core.wrap)
                 <= 16 * m + FullLines(b, core.wrap)
    PROVE  Len(w) + x <= promised
<1> USE StateFacts
<1> DEFINE k == core.wrap
           p == pos + 13 * m
           a == GroupChars(pos)
           b == a + 16 * m
           l == FullLines(a, k)
           d == FullLines(b, k)
           h == IF k = 0 THEN 1 ELSE 2
           u == WrittenLen(pos, k)
           v == WrittenLen(p, k)
           z == WrittenLen(end, k)
           y == Len(w)
           t == Len(text)
<1>1. /\ t + y = u /\ t + promised = z
  BY Zenon DEF IInv, LengthsAgree, Running
<1>2. p \in Nat /\ p <= end
  <2>1. blocks = (end - pos) \div 13
    BY DEF IInv, CallShape
  <2>2. m <= (end - pos) \div 13
    BY <2>1, Zenon
  <2> QED BY <2>2, BlocksTaken
<1>3. GroupChars(p) = b
  BY BeforeBatch
<1>4. v <= z
  <2> HIDE DEF p
  <2> QED BY <1>2, WrittenGrows
<1>5. /\ a \in Nat /\ l \in Nat /\ u \in Nat /\ z \in Nat
  BY WrittenIs
<1>6. b \in Nat /\ d \in Nat /\ v \in Nat
  <2>1. GroupChars(p) \in Nat /\ FullLines(GroupChars(p), k) \in Nat
        /\ WrittenLen(p, k) \in Nat
    <3> HIDE DEF p
    <3> QED BY <1>2, WrittenIs
  <2> QED BY <1>3, <2>1, Zenon
<1>7. u = h + a + l /\ v = h + b + d
  BY <1>3, Zenon DEF WrittenLen
<1>8. x + l <= 16 * m + d /\ b = a + 16 * m
  BY Zenon
<1>9. h \in Nat /\ y \in Nat /\ t \in Nat /\ promised \in Nat
  OBVIOUS
<1> HIDE DEF a, b, l, d, h, u, v, y, t, z
<1>10. y + x <= promised
  BY ONLY x \in Nat, m \in Nat \ {0}, <1>1, <1>4, <1>5, <1>6, <1>7, <1>8, <1>9
<1> QED BY <1>10, Zenon DEF y

\* No call writes past the length it asked for, and the batches in it are of
\* some blocks each and end in the buffer: no assertion of encode_blocks
\* fails.
THEOREM BuffersHold == Spec => []WritesInBounds
<1>1. IInv => WritesInBounds
  <2> SUFFICES ASSUME IInv PROVE WritesInBounds
    OBVIOUS
  <2> USE StateFacts
  <2>1. ASSUME Running PROVE Len(w) <= promised
    <3>1. /\ Len(text) + Len(w) = WrittenLen(pos, core.wrap)
          /\ Len(text) + promised = WrittenLen(end, core.wrap)
      BY <2>1, Zenon DEF IInv, LengthsAgree
    <3>2. WrittenLen(pos, core.wrap) <= WrittenLen(end, core.wrap)
      BY WrittenGrows
    <3> DEFINE x == Len(text)
               y == Len(w)
               u == WrittenLen(pos, core.wrap)
               v == WrittenLen(end, core.wrap)
    <3>3. x \in Nat /\ y \in Nat /\ promised \in Nat
          /\ x + y = u /\ x + promised = v /\ u <= v
      BY <3>1, <3>2
    <3> HIDE DEF x, y, u, v
    <3>4. y <= promised
      BY ONLY <3>3
    <3> QED BY <3>4 DEF y
  <2>2. ASSUME pc = "blocks", blocks > 0 PROVE BatchStores
    <3>1. CASE AtWholeLines
      <4> DEFINE n     == PerLine
                 most  == Batch \div n
                 lines == AtMost(blocks \div n, IF most = 0 THEN 1 ELSE most)
                 k     == core.wrap
                 a     == GroupChars(pos)
                 m     == n * lines
                 x     == (16 * n + 1) * lines
      <4>1. /\ n \in Nat \ {0} /\ 16 * n = k /\ lines \in Nat \ {0}
            /\ m \in Nat \ {0} /\ m <= blocks
            /\ x + FullLines(a, k) = 16 * m + FullLines(a + 16 * m, k)
        BY <2>2, <3>1, LinesAre, Zenon
      <4> HIDE DEF n, lines
      <4>2. x \in Nat /\ lines > 0
        BY <4>1
      <4>3. a + 16 * m \in Nat /\ a \in Nat
        <5>1. a \in Nat
          BY GroupsGrow
        <5>2. m \in Nat
          BY <4>1
        <5> HIDE DEF a, m
        <5> QED BY ONLY <5>1, <5>2
      <4>4. x + FullLines(a, k) <= 16 * m + FullLines(a + 16 * m, k)
        <5>1. FullLines(a, k) \in Nat
          BY <4>3, LineNumbers
        <5> DEFINE y == x + FullLines(a, k)
                   l == FullLines(a, k)
        <5>2. y \in Nat
          <6>1. x \in Nat /\ l \in Nat
            BY <4>2, <5>1
          <6> HIDE DEF x, l
          <6>2. x + l \in Nat
            BY ONLY <6>1
          <6> QED BY <6>2, Zenon DEF l
        <5> HIDE DEF y
        <5>3. y <= y
          BY <5>2
        <5> QED BY <4>1, <5>3, Zenon DEF y
      <4>5. Len(w) + x <= promised
        <5> HIDE DEF x, m
        <5> QED BY <2>2, <4>1, <4>2, <4>4, RoomForBlocks DEF a, k
      <4>6. (core.wrap + 1) * lines = x
        BY <4>1, Zenon
      <4> QED BY <3>1, <4>2, <4>5, <4>6, Zenon DEF BatchStores, n, lines
    <3>2. CASE ~ AtWholeLines
      <4> DEFINE n == RowBlocks
                 k == core.wrap
                 a == GroupChars(pos)
                 b == a + 16 * n
                 p == pos + 13 * n
                 l == FullLines(a, k)
                 d == FullLines(b, k)
                 x == 16 * n
      <4>1. n \in Nat \ {0} /\ n <= blocks
        BY <2>2, <3>2, RowIs
      <4> HIDE DEF n
      <4>2. GroupChars(p) = b
        BY <2>2, <4>1, BeforeBatch
      <4>3. l <= d /\ l \in Nat
        <5>1. p \in Nat /\ pos <= p
          <6>1. pos \in Nat
            BY Zenon
          <6> QED BY ONLY <4>1, <6>1 DEF p
        <5> HIDE DEF p
        <5>2. FullLines(GroupChars(pos), k) <= FullLines(GroupChars(p), k)
              /\ FullLines(GroupChars(pos), k) \in Nat
          BY <5>1, WrittenGrows, WrittenIs
        <5> QED BY <4>2, <5>2, Zenon
      <4>4. d \in Nat
        <5>1. b \in Nat
          <6>1. a \in Nat
            BY GroupsGrow
          <6> HIDE DEF a
          <6> QED BY <4>1, <6>1
        <5> QED BY <5>1, LineNumbers
      <4>5. x + l <= 16 * n + d /\ x \in Nat
        <5> HIDE DEF l, d
        <5> QED BY <4>1, <4>3, <4>4
      <4>6. Len(w) + x <= promised
        <5>1. x + FullLines(GroupChars(pos), core.wrap)
                <= 16 * n + FullLines(GroupChars(pos) + 16 * n, core.wrap)
          BY <4>5, Zenon
        <5>2. x \in Nat
          BY <4>5
        <5> HIDE DEF x
        <5> QED BY <2>2, <4>1, <5>1, <5>2, RoomForBlocks
      <4>7. n > 0
        BY <4>1
      <4> QED BY <3>2, <4>6, <4>7, Zenon DEF BatchStores, n
    <3> QED BY <3>1, <3>2
  <2> QED BY <2>1, <2>2 DEF WritesInBounds
<1> QED BY <1>1, Invariance, PTL

\* The size hint is an upper bound.
LEMMA HintBounds ==
    ASSUME NEW n \in Nat, NEW k \in Nat
    PROVE  EncodedLen(n, k) <= EncodeSizeHint(n, k)
<1> DEFINE t == n % 13
           b == n \div 13
           p == 16 * b + TailChars[t + 1]
           q == (16 * n + 12) \div 13 + 2
           f == (p + k - 1) \div k
           g == (q + k - 1) \div k
<1>1. t \in 0 .. 12 /\ b \in Nat /\ n = 13 * b + t
  OBVIOUS
<1>2. p \in Nat /\ q \in Nat /\ p <= q
  <2> HIDE DEF t, b
  <2>1. t = 0 \/ t = 1 \/ t = 2 \/ t = 3 \/ t = 4 \/ t = 5 \/ t = 6 \/ t = 7
        \/ t = 8 \/ t = 9 \/ t = 10 \/ t = 11 \/ t = 12
    BY <1>1
  <2> DEFINE c == TailChars[t + 1]
             e == (16 * t + 12) \div 13 + 2
  <2>2. c \in Nat /\ e \in Nat /\ c <= e
    BY <2>1 DEF TailChars
  <2>5. p = 16 * b + c
    BY Zenon
  <2> HIDE DEF c
  <2>3. 16 * n + 12 = 13 * (16 * b) + (16 * t + 12)
    BY <1>1
  <2>4. q = 16 * b + e
    BY <1>1, <2>3
  <2> HIDE DEF e, p, q
  <2> QED BY ONLY <1>1, <2>2, <2>4, <2>5
<1>3. EncodedLen(n, k) = IF n = 0 THEN 0
                         ELSE IF k = 0 THEN 1 + p ELSE 2 + p + f
  BY Zenon DEF EncodedLen
<1>4. EncodeSizeHint(n, k) = 1 + q + (IF k = 0 THEN 0 ELSE 1 + g)
  BY Zenon DEF EncodeSizeHint
<1> HIDE DEF p, q
<1>5. k # 0 => f \in Nat /\ g \in Nat /\ f <= g
  <2> SUFFICES ASSUME k # 0 PROVE f \in Nat /\ g \in Nat /\ f <= g
    OBVIOUS
  <2> DEFINE x == p + k - 1
             y == q + k - 1
  <2>1. k \in Nat \ {0} /\ x \in Nat /\ y \in Nat /\ x <= y
    BY <1>2
  <2> HIDE DEF x, y
  <2>2. x \div k \in Nat /\ y \div k \in Nat /\ x \div k <= y \div k
    BY <2>1, Arith!Division, Arith!DivMonotone
  <2> QED BY <2>2, Zenon DEF x, y
<1> HIDE DEF f, g
<1> DEFINE u == EncodedLen(n, k)
           v == EncodeSizeHint(n, k)
<1>6. /\ u = IF n = 0 THEN 0 ELSE IF k = 0 THEN 1 + p ELSE 2 + p + f
      /\ v = 1 + q + (IF k = 0 THEN 0 ELSE 1 + g)
  BY <1>3, <1>4, Zenon
<1> HIDE DEF u, v
<1>7. u <= v
  BY <1>2, <1>5, <1>6
<1> QED BY <1>7 DEF u, v

\* A session fits in the encoded_len of its bytes, however they are cut into
\* calls, and that in the size hint: the one buffer of the one-shot calls is
\* large enough at each of their steps, and full after the last.
THEOREM SessionsFit == Spec => []SessionFits
<1>1. IInv => SessionFits
  <2> SUFFICES ASSUME IInv PROVE SessionFits
    OBVIOUS
  <2> USE StateFacts
  <2>1. pc = "ended" => Len(text) = EncodedLen(fed, core.wrap)
    BY Zenon DEF IInv, LengthsAgree
  <2>2. ASSUME Running
        PROVE  Len(text) + promised <= EncodedLen(end, core.wrap)
    <3> DEFINE k == core.wrap
               r == (8 * end) % 13
               c == IF r = 0 THEN 0 ELSE IF r <= 6 THEN 1 ELSE 2
               a == GroupChars(end)
               j == Column(a, k) + c + k - 1
               g == IF k = 0 THEN 0 ELSE (Column(a, k) + c + k - 1) \div k
               u == WrittenLen(end, k)
               v == EncodedLen(end, k)
    <3>1. Len(text) + promised = u
      BY <2>2, Zenon DEF IInv, LengthsAgree
    <3>2. end > 0
      <4>1. fed < end
        BY <2>2 DEF IInv, CallShape
      <4> QED BY <4>1
    <3>3. v = u + c + g
      BY <3>2, FinishLenIs
    <3>4. u \in Nat /\ a \in Nat
      BY WrittenIs
    <3>5. c \in Nat
      <4> HIDE DEF r
      <4> QED OBVIOUS
    <3> HIDE DEF c, a, u, v
    <3>6. g \in Nat
      <4>1. CASE k = 0
        BY <4>1
      <4>2. CASE k # 0
        <5> DEFINE x == Column(a, k)
                   y == x + c + k - 1
        <5>1. x \in Nat /\ k \in Nat \ {0}
          <6>1. k \in Nat /\ k \in Nat \ {0}
            BY <4>2
          <6>2. x \in Nat
            <7> HIDE DEF k
            <7> QED BY <3>4, <6>1, LineNumbers
          <6> QED BY <6>1, <6>2, Zenon
        <5> HIDE DEF x
        <5>2. y \in Nat
          <6> HIDE DEF k
          <6> QED BY ONLY <3>5, <5>1
        <5> HIDE DEF y
        <5>3. y \div k \in Nat
          BY <5>1, <5>2, Arith!Division
        <5> QED BY <4>2, <5>3, Zenon DEF x, y
      <4> QED BY <4>1, <4>2, Zenon
    <3> HIDE DEF g
    <3>7. u <= v
      BY ONLY <3>3, <3>4, <3>5, <3>6
    <3> QED BY <3>1, <3>7, Zenon DEF v
  <2>3. EncodedLen(end, core.wrap) <= EncodeSizeHint(end, core.wrap)
    BY HintBounds
  <2> QED BY <2>1, <2>2, <2>3, Zenon DEF SessionFits
<1> QED BY <1>1, Invariance, PTL
=============================================================================
