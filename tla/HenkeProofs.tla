---------------------------- MODULE HenkeProofs ----------------------------
(* Theorems about Henke's codec: the encoder for any chunks, the decoder for *)
(* any text, each against the reference, and both joined.                    *)
EXTENDS HenkePipe, Arithmetic, SequenceTheorems

----------------------------------------------------------------------------
\* Sequences.

\* Induction on sequences, with the property as a set.
LEMMA SeqInduction ==
    ASSUME NEW Sym, NEW S \in SUBSET Seq(Sym), << >> \in S,
           \A x \in S, e \in Sym : Append(x, e) \in S
    PROVE  Seq(Sym) = S
<1> DEFINE T == {k \in Nat : \A x \in Seq(Sym) : Len(x) = k => x \in S}
<1>1. 0 \in T
  <2>1. \A x \in Seq(Sym) : Len(x) = 0 => x = << >>
    OBVIOUS
  <2> QED BY <2>1
<1>2. ASSUME NEW k \in T PROVE k + 1 \in T
  <2>1. k \in Nat /\ k + 1 \in Nat
    OBVIOUS
  <2>2. ASSUME NEW x \in Seq(Sym), Len(x) = k + 1 PROVE x \in S
    <3>1. x # << >>
      BY <2>1, <2>2
    <3>2. PICK y \in Seq(Sym), e \in Sym : x = Append(y, e)
      BY <3>1, SequenceEmptyOrAppend
    <3>3. Len(y) = k
      BY <2>1, <2>2, <3>2
    <3> QED BY <3>2, <3>3
  <2> QED BY <2>1, <2>2
<1> HIDE DEF T
<1>3. Nat = T
  <2>1. T \in SUBSET Nat
    BY DEF T
  <2> QED BY <1>1, <1>2, <2>1, SetInduction
<1>4. ASSUME NEW x \in Seq(Sym) PROVE x \in S
  <2>1. Len(x) \in Nat
    OBVIOUS
  <2>2. Len(x) \in T
    BY <1>3, <2>1
  <2> QED BY <2>2 DEF T
<1> QED BY <1>4

\* One element more of a prefix.
LEMMA NextPrefix ==
    ASSUME NEW Sym, NEW x \in Seq(Sym), NEW k \in Nat, k < Len(x)
    PROVE  /\ SubSeq(x, 1, k + 1) = Append(SubSeq(x, 1, k), x[k + 1])
           /\ SubSeq(x, 1, k) \in Seq(Sym) /\ x[k + 1] \in Sym
           /\ Len(SubSeq(x, 1, k)) = k
<1>1. x[k + 1] \in Sym /\ 1 \in 1 .. Len(x) /\ k + 1 \in 1 .. Len(x)
  OBVIOUS
<1>2. SubSeq(x, 1, k) \in Seq(Sym) /\ Len(SubSeq(x, 1, k)) = k
  OBVIOUS
<1>3. SubSeq(x, 1, k + 1) = SubSeq(x, 1, (k + 1) - 1) \o <<x[k + 1]>>
  BY <1>1, SubSeqRecursiveSecond
<1>4. (k + 1) - 1 = k
  OBVIOUS
<1> DEFINE a == SubSeq(x, 1, k)
<1>5. SubSeq(x, 1, k + 1) = a \o <<x[k + 1]>>
  BY <1>3, <1>4
<1> HIDE DEF a
<1>6. Append(a, x[k + 1]) = a \o <<x[k + 1]>>
  BY <1>1, <1>2, AppendIsConcat DEF a
<1> QED BY <1>1, <1>2, <1>5, <1>6 DEF a

LEMMA WholePrefix ==
    ASSUME NEW Sym, NEW x \in Seq(Sym)
    PROVE  SubSeq(x, 1, Len(x)) = x
OBVIOUS

\* Two elements, one by one.
LEMMA OneByOne ==
    ASSUME NEW Sym, NEW x \in Sym, NEW y \in Sym
    PROVE  /\ <<x, y>> \in Seq(Sym)
           /\ SubSeq(<<x, y>>, 1, 1) = <<x>> /\ SubSeq(<<x, y>>, 1, 2) = <<x, y>>
           /\ \A t \in Seq(Sym) : /\ t \o <<x>> = Append(t, x)
                                 /\ t \o <<x, y>> = Append(Append(t, x), y)
<1> DEFINE p == <<x, y>>
<1>1. p \in Seq(Sym) /\ Len(p) = 2 /\ p[1] = x /\ p[2] = y
  OBVIOUS
<1>2. SubSeq(p, 1, 2) = p
  BY <1>1, WholePrefix
<1>3. p = Append(<<x>>, y) /\ <<x>> \in Seq(Sym) /\ <<y>> \in Seq(Sym)
  OBVIOUS
<1> HIDE DEF p
<1>4. SubSeq(p, 1, 1) = <<x>>
  <2>1. 0 \in Nat /\ 0 < Len(p) /\ 0 + 1 = 1
    BY <1>1
  <2>2. SubSeq(p, 1, 0 + 1) = Append(SubSeq(p, 1, 0), p[0 + 1])
    BY <1>1, <2>1, NextPrefix, Zenon
  <2>3. SubSeq(p, 1, 0) = << >> /\ Append(<< >>, x) = <<x>>
    BY SubSeqEmpty
  <2> QED BY <1>1, <2>1, <2>2, <2>3, Zenon
<1>5. ASSUME NEW t \in Seq(Sym)
      PROVE  t \o <<x>> = Append(t, x) /\ t \o p = Append(Append(t, x), y)
  <2>1. t \o <<x>> = Append(t, x) /\ Append(t, x) \in Seq(Sym)
    OBVIOUS
  <2>2. Append(t, x) \o <<y>> = Append(Append(t, x), y)
    BY <2>1, AppendIsConcat
  <2>3. <<x>> \o <<y>> = p
    BY <1>3, AppendIsConcat
  <2>4. (t \o <<x>>) \o <<y>> = t \o (<<x>> \o <<y>>)
    BY <1>3, ConcatAssociative
  <2> QED BY <2>1, <2>2, <2>3, <2>4
<1> QED BY <1>1, <1>2, <1>4, <1>5 DEF p

\* A prefix of what is longer.
LEMMA PrefixOfMore ==
    ASSUME NEW Sym, NEW x \in Seq(Sym), NEW y \in Seq(Sym), NEW k \in Nat, k <= Len(x)
    PROVE  SubSeq(x \o y, 1, k) = SubSeq(x, 1, k)
OBVIOUS

\* A prefix, cut in two.
LEMMA TwoParts ==
    ASSUME NEW Sym, NEW s \in Seq(Sym), NEW k \in Nat, NEW m \in Nat,
           k <= m, m <= Len(s)
    PROVE  /\ SubSeq(s, 1, k) \in Seq(Sym) /\ SubSeq(s, k + 1, m) \in Seq(Sym)
           /\ Len(SubSeq(s, 1, k)) = k /\ Len(SubSeq(s, k + 1, m)) = m - k
           /\ SubSeq(s, 1, k) \o SubSeq(s, k + 1, m) = SubSeq(s, 1, m)
<1>1. 1 \in 1 .. (Len(s) + 1) /\ k \in (1 - 1) .. Len(s) /\ m \in k .. Len(s)
  OBVIOUS
<1>2. SubSeq(s, 1, k) \o SubSeq(s, k + 1, m) = SubSeq(s, 1, m)
  BY <1>1, ConcatAdjacentSubSeq
<1>3. /\ SubSeq(s, 1, k) \in Seq(Sym) /\ SubSeq(s, k + 1, m) \in Seq(Sym)
      /\ Len(SubSeq(s, 1, k)) = k /\ Len(SubSeq(s, k + 1, m)) = m - k
  OBVIOUS
<1> QED BY <1>2, <1>3

----------------------------------------------------------------------------
\* The reference, one element at a time.

\* What the encoder's state may be between two bytes.
EncStates == {s \in [queue : Nat, nbits : 0 .. 13, text : Seq(Char)] :
                 s.queue < 2^s.nbits}

\* One byte: a group, if one is complete.
LEMMA EncByteIs ==
    ASSUME NEW s \in EncStates, NEW b \in Byte, NEW q, q = s.queue + b * 2^s.nbits
    PROVE  /\ q \in Nat /\ q < 2^(s.nbits + 8)
           /\ EncByte(s, b) =
                IF s.nbits + 8 <= 13
                THEN [queue |-> q, nbits |-> s.nbits + 8, text |-> s.text]
                ELSE EncGroup(q, s.nbits + 8, s.text, GroupBits(q))
           /\ EncByte(s, b) \in EncStates
<1> DEFINE g == GroupBits(q)
           v == q % 2^g
           r == q \div 2^g
           k == s.nbits + 8
<1>1. /\ s.queue \in Nat /\ s.nbits \in 0 .. 13 /\ s.text \in Seq(Char)
      /\ s.queue < 2^s.nbits
  BY DEF EncStates
<1>2. q \in Nat /\ q < 2^k
  BY <1>1, LoadByte, Zenon
<1>3. g \in {13, 14} /\ v \in Value
  BY <1>2, GroupFits
<1>4. EncByte(s, b) = IF k <= 13
                      THEN [queue |-> q, nbits |-> k, text |-> s.text]
                      ELSE EncGroup(q, k, s.text, g)
  BY DEF EncByte, GroupBits
<1>5. CASE k <= 13
  <2>1. EncByte(s, b) = [queue |-> q, nbits |-> k, text |-> s.text]
    BY <1>4, <1>5
  <2>2. k \in 0 .. 13
    <3>1. s.nbits \in 0 .. 13
      BY <1>1
    <3> QED BY ONLY <3>1, <1>5 DEF k
  <2> HIDE DEF k
  <2>3. EncByte(s, b) \in EncStates
    BY <1>2, <2>1, <2>2 DEF EncStates
  <2> QED BY <1>2, <1>4, <2>3 DEF k
<1>6. CASE ~ (k <= 13)
  <2> HIDE DEF g, v, r
  <2>1. k \in 0 .. 21 /\ g \in {8, 13, 14, 16} /\ g <= k /\ k - g \in 0 .. 13
    <3>1. s.nbits \in 0 .. 13 /\ g \in {13, 14}
      BY <1>1, <1>3
    <3> QED BY ONLY <3>1, <1>6 DEF k
  <2> HIDE DEF k
  <2>2. r \in Nat /\ r < 2^(k - g)
    BY <1>2, <2>1, Drop, Zenon DEF r
  <2>3. s.text \o PairOf(v) \in Seq(Char)
    BY <1>1, <1>3, PairChars
  <2>4. EncByte(s, b) = [queue |-> r, nbits |-> k - g, text |-> s.text \o PairOf(v)]
    <3>1. EncByte(s, b) = EncGroup(q, k, s.text, g)
      BY <1>4, <1>6
    <3> QED BY <3>1, Zenon DEF EncGroup, r, v
  <2> DEFINE t == s.text \o PairOf(v)
             m == k - g
  <2>5. EncByte(s, b) = [queue |-> r, nbits |-> m, text |-> t]
        /\ t \in Seq(Char) /\ m \in 0 .. 13 /\ r \in Nat /\ r < 2^m
    BY <2>1, <2>2, <2>3, <2>4
  <2> HIDE DEF t, m
  <2>6. EncByte(s, b) \in EncStates
    BY <2>5 DEF EncStates
  <2> QED BY <1>2, <1>4, <2>6, Zenon DEF k, g
<1> QED BY <1>5, <1>6

LEMMA EncodeAllNext ==
    /\ EncStart \in EncStates /\ EncodeAll(<< >>) = EncStart
    /\ \A b \in Seq(Byte) :
         /\ EncodeAll(b) \in EncStates
         /\ \A x \in Byte : EncodeAll(Append(b, x)) = EncByte(EncodeAll(b), x)
<1> DEFINE step == [p \in EncStates \X Byte |-> EncByte(p[1], p[2])]
           Eq(f, b) == f = [k \in 0 .. Len(b) |->
                              IF k = 0 THEN EncStart ELSE EncByte(f[k - 1], b[k])]
           run(b) == CHOOSE f : Eq(f, b)
           Is(f, b) == Follows(f, Len(b), EncStates, EncStart, step, b)
           r == [b \in Seq(Byte) |-> EncodeAll(b)]
<1>1. EncStart \in EncStates
  <2>1. 0 < 2^0
    BY Powers, SMT
  <2>2. /\ << >> \in Seq(Char) /\ EncStart.queue < 2^EncStart.nbits
        /\ EncStart \in [queue : Nat, nbits : 0 .. 13, text : Seq(Char)]
    BY <2>1 DEF EncStart
  <2> QED BY <2>2 DEF EncStates
<1>2. IsStep(step, EncStart, EncStates, Byte)
  BY <1>1, EncByteIs DEF IsStep
<1>3. \A b : EncodeAll(b) = run(b)[Len(b)]
  BY DEF EncodeAll
<1>4. \A s \in EncStates, x \in Byte : step[<<s, x>>] = EncByte(s, x)
  OBVIOUS
<1> HIDE DEF step
<1>5. ASSUME NEW b \in Seq(Byte)
      PROVE  Is(run(b), b)
  <2> DEFINE N == Len(b)
  <2>1. N \in Nat /\ \A k \in 1 .. N : b[k] \in Byte
    OBVIOUS
  <2>2. PICK f : f \in [0 .. N -> EncStates] /\ Is(f, b)
    BY <1>2, RunExists, Zenon
  <2> HIDE DEF N, run
  <2>3. f[0] = EncStart /\ \A k \in 1 .. N : f[k] = EncByte(f[k - 1], b[k])
    BY <1>4, <2>1, <2>2 DEF Follows, N
  <2>4. f = [k \in 0 .. N |-> IF k = 0 THEN EncStart ELSE EncByte(f[k - 1], b[k])]
    BY <2>1, <2>2, <2>3
  <2>5. Eq(run(b), b)
    BY <2>4, Zenon DEF run, N
  <2>6. \A g : Eq(g, b) => Is(g, b)
    BY <1>4, <2>1 DEF Follows, N
  <2> QED BY <2>5, <2>6
<1>6. ASSUME NEW b \in Seq(Byte)
      PROVE  \E f : Is(f, b) /\ r[b] = f[Len(b)]
  <2>1. r[b] = run(b)[Len(b)]
    BY <1>3
  <2> QED BY <1>5, <2>1, Zenon
<1> HIDE DEF r
<1>7. /\ r[<< >>] = EncStart
      /\ \A b \in Seq(Byte) : /\ r[b] \in EncStates
                              /\ \A x \in Byte : r[Append(b, x)] = step[<<r[b], x>>]
  <2>1. \A b \in Seq(Byte) :
           \E f : /\ Follows(f, Len(b), EncStates, EncStart, step, b)
                 /\ r[b] = f[Len(b)]
    BY <1>6
  <2> HIDE DEF Is, run, Eq
  <2> QED BY <1>2, <2>1, RunNext
<1>8. << >> \in Seq(Byte) /\ \A b \in Seq(Byte), x \in Byte : Append(b, x) \in Seq(Byte)
  OBVIOUS
<1>9. \A b \in Seq(Byte) : r[b] = EncodeAll(b)
  BY DEF r
<1> QED BY <1>1, <1>4, <1>7, <1>8, <1>9

----------------------------------------------------------------------------
\* What the decoder's state may be between two symbols.
DecStates == {s \in [queue : Nat, nbits : 0 .. 7, val : Char \cup {NoChar},
                     out : Seq(Byte)] : s.queue < 2^s.nbits}

LEMMA LowByte ==
    ASSUME NEW q \in Nat
    PROVE  q % 2^8 \in Byte /\ (q \div 2^8) % 2^8 \in Byte
<1>1. q % 256 \in 0 .. 255 /\ (q \div 256) % 256 \in 0 .. 255
  OBVIOUS
<1> QED BY <1>1, Powers DEF Byte

\* Of 13 to 21 bits one or two bytes leave, and at most 7 bits stay.
LEMMA DecBytesIs ==
    ASSUME NEW k \in 13 .. 21, NEW q \in Nat, q < 2^k, NEW t \in Seq(Byte)
    PROVE  /\ DecBytes(q, k, t) \in DecStates
           /\ DecBytes(q, k, t).val = NoChar
<1> DEFINE w == IF k - 8 < 8 THEN 8 ELSE 16
           m == k - w
           r == q \div 2^w
           a == q % 2^8
           b == (q \div 2^8) % 2^8
           u == IF k - 8 < 8 THEN Append(t, a) ELSE Append(Append(t, a), b)
<1>1. a \in Byte /\ b \in Byte
  BY LowByte, Zenon
<1>2. w \in {8, 16} /\ w <= k /\ m \in 0 .. 7 /\ k \in 0 .. 21
  OBVIOUS
<1> HIDE DEF a, b
<1>3. u \in Seq(Byte)
  BY <1>1
<1>4. DecBytes(q, k, t) = [queue |-> r, nbits |-> m, val |-> NoChar, out |-> u]
  <2>1. CASE k - 8 < 8
    <3>1. w = 8 /\ u = Append(t, a)
      BY <2>1
    <3> HIDE DEF u, w
    <3> QED BY <2>1, <3>1, Zenon DEF DecBytes, a, b, m, r
  <2>2. CASE ~ (k - 8 < 8)
    <3>1. w = 16 /\ u = Append(Append(t, a), b)
      BY <2>2
    <3> HIDE DEF u, w
    <3> QED BY <2>2, <3>1, Zenon DEF DecBytes, a, b, m, r
  <2> QED BY <2>1, <2>2
<1> HIDE DEF w, u
<1>5. r \in Nat /\ r < 2^m
  <2>1. w \in {8, 13, 14, 16}
    BY <1>2
  <2> QED BY <1>2, <2>1, Drop, Zenon
<1> HIDE DEF m, r
<1>6. DecBytes(q, k, t) \in DecStates
  BY <1>2, <1>3, <1>4, <1>5 DEF DecStates
<1> QED BY <1>4, <1>6

\* One symbol: junk is passed over, a first character kept, and a second one
\* makes a group.
LEMMA DecSymbolIs ==
    ASSUME NEW s \in DecStates, NEW c \in Symbol
    PROVE  /\ DecSymbol(s, c) \in DecStates
           /\ c = Junk => DecSymbol(s, c) = s
           /\ c # Junk /\ s.val = NoChar =>
                DecSymbol(s, c) = [queue |-> s.queue, nbits |-> s.nbits, val |-> c,
                                   out |-> s.out]
           /\ c # Junk /\ s.val # NoChar =>
                LET v == ValueOf(s.val, c)
                    q == s.queue + v * 2^s.nbits
                    k == s.nbits + GroupBits(v)
                IN  /\ v \in Value /\ GroupBits(v) \in {13, 14}
                    /\ k \in 13 .. 21 /\ q \in Nat /\ q < 2^k
                    /\ DecSymbol(s, c) = DecBytes(q, k, s.out)
<1>1. /\ s.queue \in Nat /\ s.nbits \in 0 .. 7 /\ s.val \in Char \cup {NoChar}
      /\ s.out \in Seq(Byte) /\ s.queue < 2^s.nbits
      /\ s = [queue |-> s.queue, nbits |-> s.nbits, val |-> s.val, out |-> s.out]
  BY DEF DecStates
<1>2. CASE c = Junk
  <2>1. DecSymbol(s, c) = s
    BY <1>2 DEF DecSymbol
  <2> QED BY <1>2, <2>1
<1>3. CASE c # Junk /\ s.val = NoChar
  <2> DEFINE t == [queue |-> s.queue, nbits |-> s.nbits, val |-> c, out |-> s.out]
  <2>1. DecSymbol(s, c) = [s EXCEPT !.val = c]
    BY <1>3, Zenon DEF DecSymbol
  <2>2. [s EXCEPT !.val = c] = t
    BY <1>1
  <2>3. c \in Char
    BY <1>3 DEF Symbol
  <2>4. t \in DecStates
    BY <1>1, <2>3 DEF DecStates
  <2> HIDE DEF t
  <2>5. DecSymbol(s, c) = t /\ t \in DecStates
    BY <2>1, <2>2, <2>4
  <2> QED BY <1>3, <2>5 DEF t
<1>4. CASE c # Junk /\ s.val # NoChar
  <2> DEFINE v == ValueOf(s.val, c)
             g == GroupBits(v)
             q == s.queue + v * 2^s.nbits
             k == s.nbits + g
  <2>1. s.val \in Char /\ c \in Char
    BY <1>1, <1>4 DEF Symbol
  <2>2. v \in Value /\ g \in {13, 14}
    BY <2>1, ValueFits, Zenon
  <2>3. q \in Nat /\ q < 2^k
    BY <1>1, <2>2, LoadGroup, Zenon
  <2> HIDE DEF v
  <2>4. k \in 13 .. 21
    <3> HIDE DEF g
    <3>1. s.nbits \in 0 .. 7
      BY <1>1
    <3> QED BY ONLY <3>1, <2>2
  <2>5. DecSymbol(s, c) = DecBytes(q, k, s.out)
    BY <1>4, Zenon DEF DecSymbol, GroupBits, v
  <2> HIDE DEF q, k, g
  <2>6. DecBytes(q, k, s.out) \in DecStates
    BY <1>1, <2>3, <2>4, DecBytesIs, Zenon
  <2>7. DecSymbol(s, c) \in DecStates
    BY <2>5, <2>6
  <2> QED BY <1>4, <2>2, <2>3, <2>4, <2>5, <2>7, Zenon DEF v, q, k, g
<1> QED BY <1>2, <1>3, <1>4

LEMMA DecodeAllNext ==
    /\ DecStart \in DecStates /\ DecodeAll(<< >>) = DecStart
    /\ \A t \in Seq(Symbol) :
         /\ DecodeAll(t) \in DecStates
         /\ \A c \in Symbol : DecodeAll(Append(t, c)) = DecSymbol(DecodeAll(t), c)
<1> DEFINE step == [p \in DecStates \X Symbol |-> DecSymbol(p[1], p[2])]
           Eq(f, t) == f = [k \in 0 .. Len(t) |->
                              IF k = 0 THEN DecStart ELSE DecSymbol(f[k - 1], t[k])]
           run(t) == CHOOSE f : Eq(f, t)
           Is(f, t) == Follows(f, Len(t), DecStates, DecStart, step, t)
           r == [t \in Seq(Symbol) |-> DecodeAll(t)]
<1>1. DecStart \in DecStates
  <2>1. 0 < 2^0
    BY Powers, SMT
  <2>2. /\ << >> \in Seq(Byte) /\ DecStart.queue < 2^DecStart.nbits
        /\ DecStart \in [queue : Nat, nbits : 0 .. 7, val : Char \cup {NoChar},
                         out : Seq(Byte)]
    BY <2>1 DEF DecStart
  <2> QED BY <2>2 DEF DecStates
<1>2. IsStep(step, DecStart, DecStates, Symbol)
  BY <1>1, DecSymbolIs DEF IsStep
<1>3. \A t : DecodeAll(t) = run(t)[Len(t)]
  BY DEF DecodeAll
<1>4. \A s \in DecStates, c \in Symbol : step[<<s, c>>] = DecSymbol(s, c)
  OBVIOUS
<1> HIDE DEF step
<1>5. ASSUME NEW t \in Seq(Symbol)
      PROVE  Is(run(t), t)
  <2> DEFINE N == Len(t)
  <2>1. N \in Nat /\ \A k \in 1 .. N : t[k] \in Symbol
    OBVIOUS
  <2>2. PICK f : f \in [0 .. N -> DecStates] /\ Is(f, t)
    BY <1>2, RunExists, Zenon
  <2> HIDE DEF N, run
  <2>3. f[0] = DecStart /\ \A k \in 1 .. N : f[k] = DecSymbol(f[k - 1], t[k])
    BY <1>4, <2>1, <2>2 DEF Follows, N
  <2>4. f = [k \in 0 .. N |-> IF k = 0 THEN DecStart ELSE DecSymbol(f[k - 1], t[k])]
    BY <2>1, <2>2, <2>3
  <2>5. Eq(run(t), t)
    BY <2>4, Zenon DEF run, N
  <2>6. \A g : Eq(g, t) => Is(g, t)
    BY <1>4, <2>1 DEF Follows, N
  <2> QED BY <2>5, <2>6
<1>6. ASSUME NEW t \in Seq(Symbol)
      PROVE  \E f : Is(f, t) /\ r[t] = f[Len(t)]
  <2>1. r[t] = run(t)[Len(t)]
    BY <1>3
  <2> QED BY <1>5, <2>1, Zenon
<1> HIDE DEF r
<1>7. /\ r[<< >>] = DecStart
      /\ \A t \in Seq(Symbol) : /\ r[t] \in DecStates
                                /\ \A c \in Symbol : r[Append(t, c)] = step[<<r[t], c>>]
  <2>1. \A t \in Seq(Symbol) :
           \E f : /\ Follows(f, Len(t), DecStates, DecStart, step, t)
                 /\ r[t] = f[Len(t)]
    BY <1>6
  <2> HIDE DEF Is, run, Eq
  <2> QED BY <1>2, <2>1, RunNext
<1>8. /\ << >> \in Seq(Symbol)
      /\ \A t \in Seq(Symbol), c \in Symbol : Append(t, c) \in Seq(Symbol)
  OBVIOUS
<1>9. \A t \in Seq(Symbol) : r[t] = DecodeAll(t)
  BY DEF r
<1> QED BY <1>1, <1>4, <1>7, <1>8, <1>9

----------------------------------------------------------------------------
\* The characters of a text, one symbol more.
LEMMA CharactersNext ==
    /\ Characters(<< >>) = << >>
    /\ \A t \in Seq(Symbol) :
         /\ Characters(t) \in Seq(Char)
         /\ \A c \in Symbol : Characters(Append(t, c)) = Keep(Characters(t), c)
<1> DEFINE State == Seq(Char)
           step == [p \in State \X Symbol |-> Keep(p[1], p[2])]
           Eq(f, t) == f = [k \in 0 .. Len(t) |->
                              IF k = 0 THEN << >> ELSE Keep(f[k - 1], t[k])]
           run(t) == CHOOSE f : Eq(f, t)
           Is(f, t) == Follows(f, Len(t), State, << >>, step, t)
           r == [t \in Seq(Symbol) |-> Characters(t)]
<1>2. IsStep(step, << >>, State, Symbol)
  BY DEF IsStep, Keep, Symbol
<1>3. \A t : Characters(t) = run(t)[Len(t)]
  BY DEF Characters
<1>4. \A s \in State, c \in Symbol : step[<<s, c>>] = Keep(s, c)
  OBVIOUS
<1> HIDE DEF step, State
<1>5. ASSUME NEW t \in Seq(Symbol)
      PROVE  Is(run(t), t)
  <2> DEFINE N == Len(t)
  <2>1. N \in Nat /\ \A k \in 1 .. N : t[k] \in Symbol
    OBVIOUS
  <2>2. PICK f : f \in [0 .. N -> State] /\ Is(f, t)
    BY <1>2, RunExists, Zenon
  <2> HIDE DEF N, run
  <2>3. f[0] = << >> /\ \A k \in 1 .. N : f[k] = Keep(f[k - 1], t[k])
    BY <1>4, <2>1, <2>2 DEF Follows, N
  <2>4. f = [k \in 0 .. N |-> IF k = 0 THEN << >> ELSE Keep(f[k - 1], t[k])]
    BY <2>1, <2>2, <2>3
  <2>5. Eq(run(t), t)
    BY <2>4, Zenon DEF run, N
  <2>6. \A g : Eq(g, t) => Is(g, t)
    BY <1>4, <2>1 DEF Follows, N
  <2> QED BY <2>5, <2>6
<1>6. ASSUME NEW t \in Seq(Symbol)
      PROVE  \E f : Is(f, t) /\ r[t] = f[Len(t)]
  <2>1. r[t] = run(t)[Len(t)]
    BY <1>3
  <2> QED BY <1>5, <2>1, Zenon
<1> HIDE DEF r
<1>7. /\ r[<< >>] = << >>
      /\ \A t \in Seq(Symbol) : /\ r[t] \in State
                                /\ \A c \in Symbol : r[Append(t, c)] = step[<<r[t], c>>]
  <2>1. \A t \in Seq(Symbol) :
           \E f : /\ Follows(f, Len(t), State, << >>, step, t)
                 /\ r[t] = f[Len(t)]
    BY <1>6
  <2> HIDE DEF Is, run, Eq
  <2> QED BY <1>2, <2>1, RunNext
<1>8. /\ << >> \in Seq(Symbol)
      /\ \A t \in Seq(Symbol), c \in Symbol : Append(t, c) \in Seq(Symbol)
  OBVIOUS
<1>9. \A t \in Seq(Symbol) : r[t] = Characters(t)
  BY DEF r
<1> QED BY <1>4, <1>7, <1>8, <1>9 DEF State

----------------------------------------------------------------------------
\* The encoder.

\* A text grows by characters.
LEMMA EncGrow ==
    ASSUME NEW s \in Seq(Char), NEW t \in Seq(Char)
    PROVE  s \o t \in Seq(Char) /\ Len(s \o t) = Len(s) + Len(t)
OBVIOUS

\* A queue of 13 bits is a value of two characters.
LEMMA SmallQueue ==
    ASSUME NEW q \in Nat, NEW b \in 0 .. 13, q < 2^b
    PROVE  q \in Value
<1>1. \/ b = 0 \/ b = 1 \/ b = 2 \/ b = 3 \/ b = 4 \/ b = 5 \/ b = 6
      \/ b = 7 \/ b = 8 \/ b = 9 \/ b = 10 \/ b = 11 \/ b = 12 \/ b = 13
  OBVIOUS
<1>2. q < Power(b) /\ Power(b) <= 8192
  <2>1. Power(0) = 1 /\ Power(1) = 2 /\ Power(2) = 4 /\ Power(3) = 8
        /\ Power(4) = 16 /\ Power(5) = 32 /\ Power(6) = 64
        /\ Power(7) = 128 /\ Power(8) = 256 /\ Power(9) = 512
        /\ Power(10) = 1024 /\ Power(11) = 2048 /\ Power(12) = 4096
        /\ Power(13) = 8192
    BY Powers, SMT DEF Power
  <2>2. q < Power(b)
    BY DEF Power
  <2> QED BY <1>1, <2>1, <2>2
<1>3. Power(b) \in Nat
  BY Doubling
<1> QED BY <1>2, <1>3 DEF Value

\* The end of a session writes at most its queue's two characters.
LEMMA LastChars ==
    ASSUME NEW q \in Nat, NEW b \in 0 .. 13, q < 2^b
    PROVE  LET f == FinishLen(q, b) IN
           /\ f \in 0 .. 2
           /\ b = 0 => f = 0
           /\ SubSeq(PairOf(q), 1, f) \in Seq(Char)
           /\ Len(SubSeq(PairOf(q), 1, f)) = f
<1> DEFINE f == FinishLen(q, b)
<1>1. f \in 0 .. 2 /\ (b = 0 => f = 0)
  BY DEF FinishLen
<1>2. q \in Value
  BY SmallQueue
<1>3. PairOf(q) \in Seq(Char) /\ Len(PairOf(q)) = 2
  BY <1>2, PairChars
<1> HIDE DEF f
<1>4. SubSeq(PairOf(q), 1, f) \in Seq(Char) /\ Len(SubSeq(PairOf(q), 1, f)) = f
  <2> DEFINE s == PairOf(q)
  <2>1. s \in Seq(Char) /\ f \in 0 .. Len(s)
    BY <1>1, <1>3
  <2> HIDE DEF s
  <2>2. SubSeq(s, 1, f) \in Seq(Char) /\ Len(SubSeq(s, 1, f)) = f
    BY ONLY <2>1
  <2> QED BY <2>2, Zenon DEF s
<1> QED BY <1>1, <1>4 DEF f

\* The hint of size bytes is no less than 16/13 of them and two.
LEMMA EncHintBound ==
    ASSUME NEW size \in Nat, NEW chars \in Nat, 13 * chars <= 16 * size + 26
    PROVE  chars <= EncodeSizeHint(size)
BY DEF EncodeSizeHint

----------------------------------------------------------------------------
LEMMA EncInitIInv == EncInit => EncIInv
<1> SUFFICES ASSUME EncInit PROVE EncIInv
  OBVIOUS
<1> USE EncoderAssumption
<1>1. EncTypeOK
  BY DEF EncInit, EncTypeOK
<1>2. EncQueueBounded
  BY Powers, SMT DEF EncInit, EncQueueBounded
<1>3. EncAccounted
  BY DEF EncInit, EncAccounted, EncConsumed
<1>4. TextFits
  BY DEF EncInit, TextFits, EncConsumed, EncodeSizeHint
<1> QED BY <1>1, <1>2, <1>3, <1>4 DEF EncIInv

LEMMA EncodeStep ==
    ASSUME EncIInv, NEW c \in Chunks, Encode(c)
    PROVE  EncIInv'
<1>1. c \in Seq(Byte)
  BY EncoderAssumption
<1>2. EncTypeOK'
  <2>1. bytes \o c \in Seq(Byte) /\ Len(bytes \o c) = Len(bytes) + Len(c)
    BY <1>1 DEF EncIInv, EncTypeOK
  <2>2. bytes' \in Seq(Byte) /\ Len(bytes') <= MaxBytes
    BY <2>1 DEF Encode
  <2>3. chunk' \in Seq(Byte) /\ i' \in 0 .. Len(chunk')
    BY <1>1 DEF Encode
  <2>4. /\ held' = nbits /\ n' = 0 /\ queue' = queue /\ nbits' = nbits
        /\ text' = text /\ pc' = "encode"
    BY DEF Encode
  <2>5. queue \in Nat /\ nbits \in Nat /\ text \in Seq(Char)
    BY DEF EncIInv, EncTypeOK
  <2> QED BY <2>2, <2>3, <2>4, <2>5 DEF EncTypeOK
<1>3. EncQueueBounded'
  BY DEF EncIInv, EncQueueBounded, Encode
<1>4. EncConsumed' = EncConsumed /\ EncConsumed = Len(bytes) /\ Len(chunk') <= Len(bytes')
  <2>1. Len(chunk) = 0 /\ i = 0 /\ Len(bytes) \in Nat /\ Len(c) \in Nat
    BY <1>1 DEF EncIInv, EncTypeOK, EncAccounted, Encode
  <2>2. /\ chunk' = c /\ i' = 0
        /\ Len(bytes') = Len(bytes) + Len(c)
    BY <1>1 DEF EncIInv, EncTypeOK, Encode
  <2> QED BY <2>1, <2>2 DEF EncConsumed
<1>5. EncAccounted'
  BY <1>1, <1>4 DEF EncIInv, EncTypeOK, EncQueueBounded, EncAccounted, Encode
<1>6. TextFits'
  BY <1>4 DEF EncIInv, TextFits, Encode
<1> QED BY <1>2, <1>3, <1>5, <1>6 DEF EncIInv

\* Reading a byte moves it from the chunk to those consumed.
LEMMA ReadByte ==
    ASSUME EncIInv, NextByte
    PROVE  /\ chunk[i + 1] \in Byte
           /\ i' \in 0 .. Len(chunk')
           /\ EncConsumed' = EncConsumed + 1 /\ EncConsumed \in Nat
           /\ pc = "encode" /\ pc' = "encode"
           /\ bytes' = bytes /\ chunk' = chunk /\ held' = held /\ i' = i + 1
BY DEF EncIInv, EncTypeOK, EncAccounted, NextByte, EncConsumed

LEMMA LoadStep ==
    ASSUME EncIInv, Load
    PROVE  EncIInv'
<1>1. NextByte /\ nbits \in 0 .. 5 /\ nbits' = nbits + 8 /\ n' = n /\ text' = text
  BY DEF EncIInv, EncTypeOK, Load
<1>2. queue \in Nat /\ queue < 2^nbits
  BY DEF EncIInv, EncTypeOK, EncQueueBounded
<1>3. queue' = queue + chunk[i + 1] * 2^nbits
  BY DEF Load, Loaded
<1> USE <1>1, ReadByte
<1>4. queue' \in Nat /\ queue' < 2^(nbits + 8)
  <2>1. nbits \in 0 .. 13
    BY SMT
  <2> HIDE <1>1
  <2> QED BY <1>1, <1>2, <1>3, <2>1, ReadByte, LoadByte, Zenon
<1>5. EncQueueBounded'
  BY <1>4 DEF EncQueueBounded
<1>6. EncTypeOK'
  <2>1. /\ bytes \in Seq(Byte) /\ Len(bytes) <= MaxBytes /\ chunk \in Seq(Byte)
        /\ held \in Nat /\ n \in Nat /\ text \in Seq(Char)
    BY Zenon DEF EncIInv, EncTypeOK
  <2>2. nbits' \in Nat
    <3>1. nbits + 8 \in Nat
      BY <1>1
    <3> QED BY <1>1, <3>1, Zenon
  <2> QED BY <1>4, <2>1, <2>2 DEF EncTypeOK
<1>7. EncAccounted'
  <2>1. /\ 13 * Len(text) + 2 * nbits <= 16 * EncConsumed
        /\ 13 * n + 2 * nbits <= 2 * held + 16 * i
        /\ n % 2 = 0 /\ held <= 13 /\ Len(chunk) <= Len(bytes)
    BY Zenon DEF EncIInv, EncAccounted
  <2>2. /\ nbits \in Nat /\ n \in Nat /\ held \in Nat /\ i \in Nat
        /\ Len(text) \in Nat /\ EncConsumed \in Nat
    BY DEF EncIInv, EncTypeOK
  <2> DEFINE x == Len(text)
             c == EncConsumed
  <2>3. /\ x \in Nat /\ c \in Nat /\ 13 * x + 2 * nbits <= 16 * c
    BY <2>1, <2>2, Zenon
  <2> HIDE DEF x, c
  <2>4. /\ 13 * x + 2 * (nbits + 8) <= 16 * (c + 1)
        /\ 13 * n + 2 * (nbits + 8) <= 2 * held + 16 * (i + 1)
    BY ONLY <2>1, <2>2, <2>3
  <2>5. /\ text' = text /\ nbits' = nbits + 8 /\ EncConsumed' = EncConsumed + 1
        /\ n' = n /\ held' = held /\ i' = i + 1 /\ chunk' = chunk
        /\ bytes' = bytes /\ pc' = "encode" /\ "encode" # "ended"
    BY <1>1, ReadByte
  <2>6. /\ 13 * Len(text') + 2 * nbits' <= 16 * EncConsumed'
        /\ 13 * n' + 2 * nbits' <= 2 * held' + 16 * i'
        /\ n' % 2 = 0 /\ held' <= 13 /\ Len(chunk') <= Len(bytes')
    BY <2>1, <2>4, <2>5, Zenon DEF x, c
  <2> QED BY <2>5, <2>6, Zenon DEF EncAccounted
<1>8. TextFits'
  <2>1. 13 * Len(text) + 2 * nbits <= 16 * EncConsumed /\ Len(text) \in Nat
    BY DEF EncIInv, EncTypeOK, EncAccounted
  <2>2. 13 * Len(text) <= 16 * (EncConsumed + 1) + 26
    BY <2>1
  <2> QED BY <2>1, <2>2, EncHintBound DEF TextFits
<1> QED BY <1>5, <1>6, <1>7, <1>8 DEF EncIInv

LEMMA TakeStep ==
    ASSUME EncIInv, Take
    PROVE  EncIInv'
<1> DEFINE b   == GroupBits(Loaded)
           v   == Loaded % 2^b
<1>1. /\ NextByte /\ nbits \in 6 .. 13 /\ nbits' = nbits + 8 - b
      /\ text' = text \o PairOf(v) /\ n' = n + 2
  BY DEF EncIInv, EncTypeOK, EncQueueBounded, Take
<1>13. queue' = Loaded \div 2^b
  BY DEF Take
<1>2. Loaded \in Nat /\ Loaded < 2^(nbits + 8)
  <2>1. queue \in Nat /\ queue < 2^nbits
    BY DEF EncIInv, EncTypeOK, EncQueueBounded
  <2>2. nbits \in 0 .. 13
    BY <1>1
  <2>3. chunk[i + 1] \in Byte
    BY <1>1, ReadByte
  <2> QED BY <2>1, <2>2, <2>3, LoadByte, Zenon DEF Loaded
<1>3. b \in {13, 14} /\ v \in Value
  BY <1>2, GroupFits
<1>4. PairOf(v) \in Seq(Char) /\ Len(PairOf(v)) = 2
  BY <1>3, PairChars
<1> HIDE DEF v, b
<1>5. queue' \in Nat /\ queue' < 2^(nbits + 8 - b)
  <2> DEFINE k == nbits + 8
  <2>1. k \in 0 .. 21 /\ b <= k /\ b \in {8, 13, 14, 16}
    BY <1>1, <1>3
  <2>2. Loaded < 2^k
    BY <1>2
  <2> HIDE DEF k
  <2>3. Loaded \div 2^b \in Nat /\ Loaded \div 2^b < 2^(k - b)
    BY <1>2, <2>1, <2>2, Drop, Zenon
  <2>4. k - b = nbits + 8 - b
    BY <1>1, <1>3 DEF k
  <2> QED BY <1>13, <2>3, <2>4, Zenon
<1>6. text' \in Seq(Char) /\ Len(text') = Len(text) + 2 /\ Len(text) \in Nat
  <2>1. text \in Seq(Char)
    BY DEF EncIInv, EncTypeOK
  <2>2. /\ text \o PairOf(v) \in Seq(Char)
        /\ Len(text \o PairOf(v)) = Len(text) + 2
    BY <1>4, <2>1, EncGrow, Zenon
  <2>3. Len(text) \in Nat
    BY <2>1
  <2> QED BY <1>1, <2>2, <2>3, Zenon
<1> HIDE DEF EncIInv
<1>7. /\ chunk[i + 1] \in Byte /\ i' \in 0 .. Len(chunk')
      /\ EncConsumed' = EncConsumed + 1 /\ EncConsumed \in Nat
      /\ pc = "encode" /\ pc' = "encode"
      /\ bytes' = bytes /\ chunk' = chunk /\ held' = held /\ i' = i + 1
  BY <1>1, ReadByte
<1>8. EncQueueBounded'
  BY <1>1, <1>3, <1>5 DEF EncQueueBounded
<1>9. EncTypeOK'
  BY <1>1, <1>3, <1>5, <1>6, <1>7 DEF EncIInv, EncTypeOK
<1>10. 13 * Len(text') + 2 * nbits' <= 16 * EncConsumed'
  BY <1>1, <1>3, <1>6, <1>7 DEF EncIInv, EncTypeOK, EncAccounted
<1>11. EncAccounted'
  BY <1>1, <1>3, <1>7, <1>10 DEF EncIInv, EncTypeOK, EncAccounted
<1>12. TextFits'
  <2>1. 13 * Len(text') <= 16 * EncConsumed' + 26
    BY <1>1, <1>3, <1>6, <1>7, <1>10
  <2> QED BY <2>1, <1>6, <1>7, EncHintBound DEF TextFits
<1> QED BY <1>8, <1>9, <1>11, <1>12 DEF EncIInv

LEMMA EncReturnStep ==
    ASSUME EncIInv, EncReturn
    PROVE  EncIInv'
<1>1. EncTypeOK'
  BY DEF EncIInv, EncTypeOK, EncReturn
<1>2. EncQueueBounded'
  BY DEF EncIInv, EncQueueBounded, EncReturn
<1>3. EncConsumed' = EncConsumed
  BY DEF EncIInv, EncTypeOK, EncReturn, EncConsumed
<1>4. EncAccounted'
  BY <1>3 DEF EncIInv, EncTypeOK, EncAccounted, EncReturn
<1>5. TextFits'
  BY <1>3 DEF EncIInv, TextFits, EncReturn
<1> QED BY <1>1, <1>2, <1>4, <1>5 DEF EncIInv

LEMMA EncFinishStep ==
    ASSUME EncIInv, EncFinish
    PROVE  EncIInv'
<1> DEFINE f    == FinishLen(queue, nbits)
           last == SubSeq(PairOf(queue), 1, f)
<1>1. /\ text' = text \o last /\ queue' = 0 /\ nbits' = 0
      /\ pc = "idle" /\ pc' = "ended"
      /\ bytes' = bytes /\ chunk' = chunk /\ i' = i /\ held' = held /\ n' = n
  BY DEF EncFinish
<1>2. queue \in Nat /\ nbits \in 0 .. 13 /\ queue < 2^nbits /\ text \in Seq(Char)
  BY DEF EncIInv, EncTypeOK, EncQueueBounded
<1>3. f \in 0 .. 2 /\ (nbits = 0 => f = 0) /\ last \in Seq(Char) /\ Len(last) = f
  BY <1>2, LastChars, Zenon
<1> HIDE DEF f, last
<1>4. text' \in Seq(Char) /\ Len(text') = Len(text) + f /\ Len(text) \in Nat
  BY <1>1, <1>2, <1>3, EncGrow
<1>5. EncTypeOK'
  BY <1>1, <1>4 DEF EncIInv, EncTypeOK
<1>6. EncQueueBounded'
  <2>1. 0 < 2^0
    BY Powers, SMT
  <2> QED BY <1>1, <2>1 DEF EncQueueBounded
<1>7. EncConsumed' = EncConsumed /\ EncConsumed \in Nat
  BY <1>1 DEF EncIInv, EncTypeOK, EncAccounted, EncConsumed
<1>8. EncAccounted'
  BY <1>1 DEF EncIInv, EncTypeOK, EncAccounted
<1>9. TextFits'
  <2>1. 13 * Len(text) + 2 * nbits <= 16 * EncConsumed
    BY <1>1 DEF EncIInv, EncAccounted
  <2>2. 13 * Len(text') <= 16 * EncConsumed + 26
    BY <1>2, <1>3, <1>4, <1>7, <2>1
  <2> QED BY <2>2, <1>4, <1>7, EncHintBound DEF TextFits
<1> QED BY <1>5, <1>6, <1>8, <1>9 DEF EncIInv

LEMMA EncBeginStep ==
    ASSUME EncIInv, EncBegin
    PROVE  EncIInv'
<1>1. EncTypeOK'
  BY EncoderAssumption DEF EncIInv, EncTypeOK, EncBegin, EncAccounted
<1>2. EncQueueBounded'
  BY DEF EncIInv, EncQueueBounded, EncBegin
<1>3. Len(chunk) = 0 /\ i = 0
  BY DEF EncIInv, EncTypeOK, EncAccounted, EncBegin
<1>4. EncConsumed' = 0
  BY <1>3 DEF EncBegin, EncConsumed
<1>5. EncAccounted'
  BY <1>3, <1>4 DEF EncIInv, EncTypeOK, EncAccounted, EncBegin
<1>6. TextFits'
  BY <1>4 DEF TextFits, EncBegin, EncodeSizeHint
<1> QED BY <1>1, <1>2, <1>5, <1>6 DEF EncIInv

\* Every step keeps the inductive invariant.
LEMMA EncStepIInv == EncIInv /\ [EncNext]_encVars => EncIInv'
<1> SUFFICES ASSUME EncIInv, [EncNext]_encVars PROVE EncIInv'
  OBVIOUS
<1>1. ASSUME NEW c \in Chunks, Encode(c) PROVE EncIInv'
  BY <1>1, EncodeStep
<1>2. CASE Load
  BY <1>2, LoadStep
<1>3. CASE Take
  BY <1>3, TakeStep
<1>4. CASE EncReturn
  BY <1>4, EncReturnStep
<1>5. CASE EncFinish
  BY <1>5, EncFinishStep
<1>6. CASE EncBegin
  BY <1>6, EncBeginStep
<1>7. CASE UNCHANGED encVars
  BY <1>7 DEF EncIInv, EncTypeOK, EncQueueBounded, EncAccounted, TextFits,
              EncConsumed, encVars
<1> QED BY <1>1, <1>2, <1>3, <1>4, <1>5, <1>6, <1>7 DEF EncNext, EncWork

\* What follows from the account of one call: the bound of codec.rs's hint
\* and the closer one of the C interface.
LEMMA EncCallBound == EncIInv => EncodeFits
<1> SUFFICES ASSUME EncIInv PROVE EncodeFits
  OBVIOUS
<1> DEFINE size == Len(chunk)
<1>1. size \in Nat /\ i \in Nat /\ i <= size /\ n \in Nat /\ held \in 0 .. 13
  BY DEF EncIInv, EncTypeOK, EncAccounted
<1>2. nbits \in Nat
  BY DEF EncIInv, EncTypeOK
<1>3. CASE pc = "encode"
  <2>1. 13 * n <= 2 * held + 16 * i /\ n % 2 = 0
    BY <1>1, <1>2, <1>3 DEF EncIInv, EncAccounted
  <2> HIDE DEF size
  <2>2. n <= EncodeSizeHint(size)
    <3>1. 13 * n <= 16 * size + 26
      BY <1>1, <2>1
    <3> QED BY <1>1, <3>1, EncHintBound
  <2>3. n <= 2 * ((held + 8 * size) \div 13)
    <3>1. PICK m \in Nat : n = 2 * m
      <4>1. n \div 2 \in Nat /\ n = 2 * (n \div 2)
        BY <1>1, <2>1
      <4> QED BY <4>1
    <3>2. 13 * m <= held + 8 * size
      BY <1>1, <2>1, <3>1
    <3>3. m <= (held + 8 * size) \div 13
      BY <1>1, <3>2
    <3> QED BY <1>1, <3>1, <3>3
  <2> QED BY <2>2, <2>3 DEF EncodeFits, EncodeLen, size
<1>4. CASE pc # "encode"
  <2>1. n = 0 /\ size = 0
    BY <1>4 DEF EncIInv, EncAccounted
  <2> QED BY <1>1, <2>1 DEF EncodeFits, EncodeLen, EncodeSizeHint
<1> QED BY <1>3, <1>4

\* The hints of two parts, where the first has made its characters already.
LEMMA EncHintOfRest ==
    ASSUME NEW done \in Nat, NEW size \in Nat, NEW chars \in Nat,
           13 * chars <= 16 * done
    PROVE  /\ chars + EncodeSizeHint(size) <= EncodeSizeHint(done + size)
           /\ chars + 2 <= EncodeSizeHint(done)
<1>1. chars + 2 <= EncodeSizeHint(done)
  BY DEF EncodeSizeHint
<1> DEFINE x == (16 * size + 12) \div 13
           y == (16 * (done + size) + 12) \div 13
<1>2. x \in Nat /\ y \in Nat /\ 13 * x <= 16 * size + 12
      /\ 16 * (done + size) + 12 < 13 * y + 13
  OBVIOUS
<1>3. EncodeSizeHint(size) = x + 2 /\ EncodeSizeHint(done + size) = y + 2
  BY DEF EncodeSizeHint
<1> HIDE DEF x, y
<1>4. chars + x <= y
  BY <1>2
<1> QED BY <1>1, <1>2, <1>3, <1>4

LEMMA EncReserveBound == EncIInv => EncNeverReallocates
<1> SUFFICES ASSUME EncIInv PROVE EncNeverReallocates
  OBVIOUS
<1> DEFINE size == Len(chunk)
           all  == Len(bytes)
           L    == Len(text)
<1>1. size \in Nat /\ all \in Nat /\ L \in Nat /\ size <= all /\ nbits \in Nat
  BY DEF EncIInv, EncTypeOK, EncAccounted
<1>2. pc \in {"idle", "encode"} => 13 * L + 2 * nbits <= 16 * EncConsumed
  BY DEF EncIInv, EncAccounted
<1>3. pc = "encode" /\ i = 0 => L + EncodeSizeHint(size) <= EncodeSizeHint(all)
  <2> SUFFICES ASSUME pc = "encode", i = 0
               PROVE  L + EncodeSizeHint(size) <= EncodeSizeHint(all)
    OBVIOUS
  <2> DEFINE done == all - size
  <2>1. EncConsumed = done /\ done \in Nat /\ done + size = all
    BY <1>1 DEF EncConsumed
  <2> HIDE DEF size, all, L, done
  <2>2. 13 * L <= 16 * done
    BY <1>1, <1>2, <2>1
  <2>3. L + EncodeSizeHint(size) <= EncodeSizeHint(done + size)
    BY <1>1, <2>1, <2>2, EncHintOfRest
  <2> QED BY <2>1, <2>3
<1>4. pc = "idle" => L + 2 <= EncodeSizeHint(all)
  <2> SUFFICES ASSUME pc = "idle" PROVE L + 2 <= EncodeSizeHint(all)
    OBVIOUS
  <2>1. EncConsumed = all
    BY <1>1 DEF EncIInv, EncTypeOK, EncAccounted, EncConsumed
  <2> HIDE DEF size, all, L
  <2>2. 13 * L <= 16 * all
    BY <1>1, <1>2, <2>1
  <2> QED BY <1>1, <2>2, EncHintOfRest
<1>5. TextFits
  BY DEF EncIInv
<1> QED BY <1>3, <1>4, <1>5 DEF EncNeverReallocates

----------------------------------------------------------------------------
\* The encoder is in IInv in every reachable state.
THEOREM EncInvariance == EncSpec => []EncIInv
<1> QED BY EncInitIInv, EncStepIInv, PTL DEF EncSpec

\* Every variable keeps its type; the text is made of characters only.
THEOREM EncTypeCorrect == EncSpec => []EncTypeOK
<1>1. EncIInv => EncTypeOK
  BY DEF EncIInv
<1> QED BY <1>1, EncInvariance, PTL

\* The queue never keeps more than 13 bits between two bytes, so the shifts
\* of push_byte stay in 21 bits of the u32.
THEOREM EncQueueStaysBounded == EncSpec => []EncQueueBounded
<1>1. EncIInv => EncQueueBounded
  BY DEF EncIInv
<1> QED BY <1>1, EncInvariance, PTL

\* No call writes more than the bounds its buffer was sized by.
THEOREM EncCallsFit == EncSpec => []EncodeFits
<1> QED BY EncCallBound, EncInvariance, PTL

\* A Vec that holds the hint of all the bytes is never reallocated.
THEOREM EncNoReallocation == EncSpec => []EncNeverReallocates
<1> QED BY EncReserveBound, EncInvariance, PTL

----------------------------------------------------------------------------
\* The decoder, for any text.

\* A sequence of bytes grows by one or two.
LEMMA DecGrow ==
    ASSUME NEW s \in Seq(Byte), NEW t \in Seq(Byte)
    PROVE  s \o t \in Seq(Byte) /\ Len(s \o t) = Len(s) + Len(t)
OBVIOUS

\* The hint of size symbols is no less than 7/8 of them, and one if a
\* remainder is left.
LEMMA DecHintBound ==
    ASSUME NEW size \in Nat, NEW written \in Nat, 8 * written <= 7 * size + 8
    PROVE  written <= DecodeSizeHint(size)
BY DEF DecodeSizeHint

\* The bits of a pair are all accounted for: those that leave as whole bytes
\* and those that stay, at most 7.
LEMMA PushPairKeeps ==
    ASSUME DecTypeOK, DecQueueBounded, NEW v \in Value, PushPair(v)
    PROVE  \E w \in {1, 2} :
             /\ dnbits' \in Nat /\ dnbits' <= 7
             /\ dqueue' \in Nat /\ dqueue' < 2^dnbits'
             /\ out' \in Seq(Byte) /\ Len(out') = Len(out) + w
             /\ dn' = dn + w
             /\ 8 * w + dnbits' <= dnbits + 14
<1> DEFINE q == dqueue + v * 2^dnbits
           b == dnbits + GroupBits(v)
           w == IF b >= 16 THEN 2 ELSE 1
           s == <<q % 2^8, (q \div 2^8) % 2^8>>
<1>1. dqueue' = q \div 2^(8 * w)
  BY Zenon DEF PushPair
<1>2. dnbits' = b - 8 * w
  BY Zenon DEF PushPair
<1>3. out' = out \o SubSeq(s, 1, w) /\ dn' = dn + w
  BY Zenon DEF PushPair
<1>4. dnbits \in 0 .. 7 /\ dqueue \in Nat /\ dqueue < 2^dnbits
  BY DEF DecTypeOK, DecQueueBounded
<1>5. GroupBits(v) \in {13, 14}
  BY DEF GroupBits
<1>6. q \in Nat /\ q < 2^b
  BY <1>4, LoadGroup, Zenon
<1>7. b \in 13 .. 21 /\ b <= dnbits + 14
  BY <1>4, <1>5
<1>8. w \in {1, 2} /\ b - 8 * w \in 0 .. 7
  BY <1>7
<1>9. s \in Seq(Byte) /\ Len(s) = 2
  <2>1. q % 256 \in 0 .. 255 /\ (q \div 256) % 256 \in 0 .. 255
    <3> HIDE DEF q
    <3> QED BY <1>6
  <2>2. 2^8 = 256
    BY Powers
  <2> HIDE DEF q
  <2>3. q % 2^8 \in Byte
    BY <2>1, <2>2 DEF Byte
  <2>4. (q \div 2^8) % 2^8 \in Byte
    BY <2>1, <2>2 DEF Byte
  <2> QED BY <2>3, <2>4
<1> HIDE DEF q, b, s
<1>10. dqueue' \in Nat /\ dqueue' < 2^(b - 8 * w)
  <2>1. CASE b >= 16
    <3>1. b \in 0 .. 21 /\ 16 \in {8, 13, 14, 16} /\ 16 <= b /\ 8 * w = 16
      BY <1>7, <2>1
    <3>2. q \div 2^16 \in Nat /\ q \div 2^16 < 2^(b - 16)
      BY <1>6, <3>1, Drop, Zenon
    <3> HIDE DEF w
    <3> QED BY <1>1, <3>1, <3>2, Zenon
  <2>2. CASE ~ (b >= 16)
    <3>1. b \in 0 .. 21 /\ 8 \in {8, 13, 14, 16} /\ 8 <= b /\ 8 * w = 8
      BY <1>7, <2>2
    <3>2. q \div 2^8 \in Nat /\ q \div 2^8 < 2^(b - 8)
      BY <1>6, <3>1, Drop, Zenon
    <3> HIDE DEF w
    <3> QED BY <1>1, <3>1, <3>2, Zenon
  <2> QED BY <2>1, <2>2
<1> HIDE DEF w
<1>11. SubSeq(s, 1, w) \in Seq(Byte) /\ Len(SubSeq(s, 1, w)) = w
  <2>1. w \in 0 .. 2
    BY <1>8
  <2>2. s \in Seq(Byte) /\ Len(s) = 2
    BY <1>9, Zenon
  <2> HIDE DEF s
  <2> QED BY ONLY <2>1, <2>2
<1>12. out \in Seq(Byte)
  BY DEF DecTypeOK
<1>13. out' \in Seq(Byte) /\ Len(out') = Len(out) + w
  BY <1>3, <1>11, <1>12, DecGrow, Zenon
<1>14. /\ dnbits' \in Nat /\ dnbits' <= 7
       /\ dqueue' \in Nat /\ dqueue' < 2^dnbits'
  <2>1. dnbits' \in Nat /\ dnbits' <= 7
    BY <1>2, <1>8
  <2> QED BY <1>2, <1>10, <2>1, Zenon
<1>15. 8 * w + dnbits' <= dnbits + 14
  BY <1>2, <1>4, <1>7, <1>8
<1>16. w \in {1, 2} /\ dn' = dn + w
  BY <1>3, <1>8
<1> QED BY <1>13, <1>14, <1>15, <1>16, Zenon

----------------------------------------------------------------------------
LEMMA DecInitIInv == DecInit => DecIInv
<1> SUFFICES ASSUME DecInit PROVE DecIInv
  OBVIOUS
<1> USE DecoderAssumption
<1>1. DecTypeOK
  BY DEF DecInit, DecTypeOK
<1>2. DecQueueBounded
  BY Powers, SMT DEF DecInit, DecQueueBounded
<1>3. DecAccounted
  BY DEF DecInit, DecAccounted, DecConsumed, Pending
<1>4. BytesFit
  BY DEF DecInit, BytesFit, DecConsumed, DecodeSizeHint
<1> QED BY <1>1, <1>2, <1>3, <1>4 DEF DecIInv

LEMMA DecodeStep ==
    ASSUME DecIInv, NEW c \in Seq(Symbol), Decode(c)
    PROVE  DecIInv'
<1>1. c \in Seq(Symbol)
  OBVIOUS
<1>2. /\ given' = given \o c /\ Len(given) + Len(c) <= MaxSymbols
      /\ dchunk' = c /\ di' = 0 /\ dheld' = <<dnbits, val>> /\ dn' = 0
      /\ dpc = "idle" /\ dpc' = "decode"
      /\ dqueue' = dqueue /\ dnbits' = dnbits /\ val' = val /\ out' = out
  BY DEF Decode
<1>3. /\ given \in Seq(Symbol) /\ dqueue \in Nat /\ dnbits \in 0 .. 7
      /\ val \in Char \cup {NoChar} /\ out \in Seq(Byte)
      /\ Len(dchunk) = 0 /\ di = 0
  BY <1>2 DEF DecIInv, DecTypeOK, DecQueueBounded, DecAccounted
<1>4. given' \in Seq(Symbol) /\ Len(given') = Len(given) + Len(c)
  BY <1>1, <1>2, <1>3
<1>5. DecTypeOK'
  BY <1>1, <1>2, <1>3, <1>4 DEF DecTypeOK
<1>6. DecQueueBounded'
  BY <1>2 DEF DecIInv, DecQueueBounded
<1>7. DecConsumed' = DecConsumed /\ DecConsumed \in Nat
  <2>1. Len(given) \in Nat /\ Len(c) \in Nat
    BY <1>1, <1>3
  <2> QED BY <1>2, <1>3, <1>4, <2>1 DEF DecConsumed
<1>8. Pending(val) \in {0, 1}
  BY DEF Pending
<1>9. DecAccounted'
  <2>1. 8 * Len(out) + dnbits + 7 * Pending(val) <= 7 * DecConsumed
    BY <1>2 DEF DecIInv, DecAccounted
  <2>2. dheld'[1] = dnbits /\ dheld'[2] = val
    BY <1>2
  <2>3. Pending(val)' = Pending(val) /\ Pending(dheld[2])' = Pending(val)
    BY <1>2, <2>2 DEF Pending
  <2>4. Len(dchunk') <= Len(given')
    BY <1>1, <1>2, <1>3, <1>4
  <2> QED BY <1>2, <1>3, <1>7, <1>8, <2>1, <2>2, <2>3, <2>4 DEF DecAccounted
<1>10. BytesFit'
  BY <1>2, <1>7 DEF DecIInv, BytesFit
<1> QED BY <1>5, <1>6, <1>9, <1>10 DEF DecIInv

\* The arithmetic of AccountStep, for one symbol or a pair.
LEMMA CallAccount ==
    ASSUME NEW k \in Nat, NEW w \in Nat, NEW bits \in Nat, NEW bitsn \in Nat,
           NEW x \in Nat, NEW xn \in Nat, NEW m \in Nat, NEW h \in Nat,
           NEW d \in Nat, 8 * m + bits <= h + 14 * (x \div 2),
           x + 2 * d <= xn, 8 * w + bitsn <= bits + 14 * d
    PROVE  8 * (m + w) + bitsn <= h + 14 * (xn \div 2)
<1>1. x \div 2 + d <= xn \div 2
  OBVIOUS
<1>2. x \div 2 \in Nat /\ xn \div 2 \in Nat
  OBVIOUS
<1> DEFINE a == x \div 2
           b == xn \div 2
<1>3. a + d <= b /\ a \in Nat /\ b \in Nat /\ 8 * m + bits <= h + 14 * a
  BY <1>1, <1>2
<1> HIDE DEF a, b
<1>4. 8 * (m + w) + bitsn <= h + 14 * b
  BY <1>3
<1> QED BY <1>4 DEF b

\* What reading k symbols changes besides the queue, val and the output.
Reads(k) ==
    /\ dpc = "decode" /\ di + k <= Len(dchunk) /\ di' = di + k
    /\ given' = given /\ dchunk' = dchunk /\ dheld' = dheld /\ dpc' = "decode"

LEMMA ReadsKeep ==
    ASSUME DecIInv, NEW k \in Nat, Reads(k)
    PROVE  /\ di \in Nat /\ di' \in 0 .. Len(dchunk')
           /\ DecConsumed \in Nat /\ DecConsumed' = DecConsumed + k
BY DEF DecIInv, DecTypeOK, DecAccounted, Reads, DecConsumed

\* A step that reads k symbols, completes d pairs, writes w bytes and keeps
\* no more bits than it was given keeps the invariant.
LEMMA AccountStep ==
    ASSUME DecIInv, NEW k \in Nat, k > 0, NEW w \in Nat, Reads(k),
           dn' = dn + w, val' \in Char \cup {NoChar},
           dqueue' \in Nat, dnbits' \in Nat, dnbits' <= 7, dqueue' < 2^dnbits',
           out' \in Seq(Byte), Len(out') = Len(out) + w,
           8 * w + dnbits' + 7 * Pending(val') <= dnbits + 7 * Pending(val) + 7 * k,
           Pending(val') <= k + Pending(val),
           NEW d \in Nat, 2 * d <= k + Pending(val) - Pending(val'),
           8 * w + dnbits' <= dnbits + 14 * d
    PROVE  DecIInv'
<1>1. /\ di \in Nat /\ di' \in 0 .. Len(dchunk') /\ di' = di + k
      /\ DecConsumed \in Nat /\ DecConsumed' = DecConsumed + k
  BY ReadsKeep DEF Reads
<1>2. DecTypeOK'
  BY <1>1 DEF DecIInv, DecTypeOK, Reads
<1>3. DecQueueBounded'
  BY Zenon DEF DecQueueBounded
<1> DEFINE p  == Pending(val)
           pn == Pending(val')
           h  == Pending(dheld[2])
           L  == Len(out)
<1>4. /\ p \in {0, 1} /\ pn \in {0, 1} /\ h \in {0, 1}
      /\ L \in Nat /\ dn \in Nat /\ dnbits \in Nat /\ dheld[1] \in Nat
  BY DEF Pending, DecIInv, DecTypeOK
<1>5. /\ 8 * L + dnbits + 7 * p <= 7 * DecConsumed
      /\ p <= di + h
      /\ 8 * dn + dnbits <= dheld[1] + 14 * ((di + h - p) \div 2)
  BY DEF DecIInv, DecAccounted, Reads
<1>6. /\ Pending(val)' = pn /\ Pending(dheld[2])' = h /\ Len(out)' = L + w
      /\ dheld[1]' = dheld[1] /\ dpc' = "decode"
  BY DEF Reads, Pending
<1>7. Len(dchunk') <= Len(given') /\ dheld[1] <= 7
  BY DEF DecIInv, DecAccounted, Reads
<1>8. /\ 8 * w + dnbits' + 7 * pn <= dnbits + 7 * p + 7 * k
      /\ pn <= k + p /\ 2 * d <= k + p - pn
      /\ 8 * w + dnbits' <= dnbits + 14 * d
  <2>1. 8 * w + dnbits' + 7 * pn <= dnbits + 7 * p + 7 * k
    BY Zenon
  <2>2. pn <= k + p
    BY Zenon
  <2>3. 2 * d <= k + p - pn
    BY Zenon
  <2> QED BY <2>1, <2>2, <2>3, Zenon
<1> HIDE DEF p, pn, h, L
<1>9. /\ 8 * (L + w) + dnbits' + 7 * pn <= 7 * (DecConsumed + k)
      /\ 8 * (L + w) <= 7 * (DecConsumed + k) + 8
  <2> DEFINE b == dnbits'
             C == DecConsumed
  <2>1. /\ b \in Nat /\ C \in Nat /\ L \in Nat /\ dnbits \in Nat /\ p \in Nat
        /\ pn \in Nat /\ k \in Nat /\ w \in Nat
    BY <1>1, <1>4
  <2>2. 8 * L + dnbits + 7 * p <= 7 * C
        /\ 8 * w + b + 7 * pn <= dnbits + 7 * p + 7 * k
    BY <1>5, <1>8, Zenon
  <2> HIDE DEF b, C
  <2>3. 8 * (L + w) + b + 7 * pn <= 7 * (C + k)
        /\ 8 * (L + w) <= 7 * (C + k) + 8
    BY ONLY <2>1, <2>2
  <2> QED BY <2>3, Zenon DEF b, C
<1>10. pn <= (di + k) + h
  <2>1. pn <= k + p /\ p <= di + h
    BY <1>5, <1>8
  <2> QED BY <1>1, <1>4, <2>1
<1>11. 8 * (dn + w) + dnbits' <= dheld[1] + 14 * (((di + k) + h - pn) \div 2)
  <2> DEFINE x  == di + h - p
             xn == (di + k) + h - pn
  <2>1. x \in Nat /\ xn \in Nat
    BY <1>1, <1>4, <1>5, <1>10
  <2>2. x + 2 * d <= xn
    BY <1>1, <1>4, <1>8
  <2>3. 8 * dn + dnbits <= dheld[1] + 14 * (x \div 2)
    BY <1>5
  <2> HIDE DEF x, xn
  <2>4. 8 * (dn + w) + dnbits' <= dheld[1] + 14 * (xn \div 2)
    BY <1>4, <1>8, <2>1, <2>2, <2>3, CallAccount
  <2> QED BY <2>4 DEF xn
<1>12. DecAccounted'
  <2>1. di' # 0
    BY <1>1
  <2> QED BY <2>1, <1>1, <1>6, <1>7, <1>9, <1>10, <1>11 DEF DecAccounted
<1>13. BytesFit'
  <2>1. L + w \in Nat /\ DecConsumed + k \in Nat
    BY <1>1, <1>4
  <2>2. L + w <= DecodeSizeHint(DecConsumed + k)
    BY <1>9, <2>1, DecHintBound
  <2> QED BY <1>1, <1>6, <2>2 DEF BytesFit
<1> QED BY <1>2, <1>3, <1>12, <1>13 DEF DecIInv

\* The arithmetic of PairStep.
LEMMA PairAccount ==
    ASSUME NEW k \in Nat, NEW w \in Nat, NEW bits \in Nat, NEW bitsn \in Nat,
           NEW p \in Nat, NEW pn \in Nat, pn = 0, k + p = 2,
           8 * w + bitsn <= bits + 14
    PROVE  /\ 8 * w + bitsn + 7 * pn <= bits + 7 * p + 7 * k
           /\ pn <= k + p /\ 2 * 1 <= k + p - pn
           /\ 8 * w + bitsn <= bits + 14 * 1
<1>1. 7 * p + 7 * k = 14
  OBVIOUS
<1> QED BY <1>1

\* A pair whose value joins the queue, whichever path read it.
LEMMA PairStep ==
    ASSUME DecIInv, NEW k \in Nat, k > 0, Reads(k), NEW v \in Value, PushPair(v),
           val' = NoChar, k + Pending(val) = 2
    PROVE  DecIInv'
<1>1. DecTypeOK /\ DecQueueBounded
  BY DEF DecIInv
<1>2. PICK w \in {1, 2} :
        /\ dnbits' \in Nat /\ dnbits' <= 7
        /\ dqueue' \in Nat /\ dqueue' < 2^dnbits'
        /\ out' \in Seq(Byte) /\ Len(out') = Len(out) + w
        /\ dn' = dn + w
        /\ 8 * w + dnbits' <= dnbits + 14
  BY <1>1, PushPairKeeps, Zenon
<1> DEFINE p == Pending(val)
           pn == Pending(val')
<1>3. p \in Nat /\ pn = 0 /\ k + p = 2
  BY DEF Pending
<1>4. dnbits \in Nat /\ w \in Nat /\ k \in Nat /\ 1 \in Nat
  BY DEF DecIInv, DecTypeOK
<1>5. val' \in Char \cup {NoChar}
  OBVIOUS
<1> HIDE DEF p, pn
<1>6. /\ 8 * w + dnbits' + 7 * pn <= dnbits + 7 * p + 7 * k
      /\ pn <= k + p /\ 2 * 1 <= k + p - pn
      /\ 8 * w + dnbits' <= dnbits + 14 * 1
  <2>1. dnbits' \in Nat
    BY <1>2, Zenon
  <2>2. 8 * w + dnbits' <= dnbits + 14
    BY <1>2, Zenon
  <2> QED BY <1>3, <1>4, <2>1, <2>2, PairAccount
<1> QED BY <1>2, <1>4, <1>5, <1>6, AccountStep, Zenon DEF p, pn

LEMMA FastPairStep ==
    ASSUME DecIInv, FastPair
    PROVE  DecIInv'
<1> DEFINE v == ValueOf(dchunk[di + 1], dchunk[di + 2])
<1>1. PushPair(v)
  BY Zenon DEF FastPair
<1>2. /\ val = NoChar /\ val' = val /\ Reads(2)
      /\ dchunk[di + 1] # Junk /\ dchunk[di + 2] # Junk
  BY DEF FastPair, PairAhead, Reads
<1>3. dchunk[di + 1] \in Char /\ dchunk[di + 2] \in Char
  BY <1>2 DEF DecIInv, DecTypeOK, Reads, Symbol
<1>4. v \in Value
  BY <1>3, ValueFits, Zenon
<1> HIDE DEF v
<1>5. 2 + Pending(val) = 2 /\ val' = NoChar /\ 2 > 0
  BY <1>2 DEF Pending
<1> QED BY <1>1, <1>2, <1>4, <1>5, PairStep

LEMMA SlowSecondStep ==
    ASSUME DecIInv, SlowSecond
    PROVE  DecIInv'
<1> DEFINE v == ValueOf(val, dchunk[di + 1])
<1>1. PushPair(v)
  BY Zenon DEF SlowSecond
<1>2. /\ val # NoChar /\ val' = NoChar /\ Reads(1)
      /\ dchunk[di + 1] # Junk
  BY DEF SlowSecond, SlowSymbol, Reads, DecIInv, DecTypeOK
<1>3. dchunk[di + 1] \in Char /\ val \in Char
  BY <1>2 DEF DecIInv, DecTypeOK, Reads, Symbol
<1>4. v \in Value
  BY <1>3, ValueFits, Zenon
<1> HIDE DEF v
<1>5. 1 + Pending(val) = 2
  BY <1>2 DEF Pending
<1> QED BY <1>1, <1>2, <1>4, <1>5, PairStep

LEMMA SlowFirstStep ==
    ASSUME DecIInv, SlowFirst
    PROVE  DecIInv'
<1>1. /\ val = NoChar /\ val' = dchunk[di + 1] /\ Reads(1)
      /\ dchunk[di + 1] # Junk
      /\ dn' = dn /\ dqueue' = dqueue /\ dnbits' = dnbits /\ out' = out
  BY DEF SlowFirst, SlowSymbol, Reads, DecIInv, DecTypeOK
<1>2. val' \in Char
  BY <1>1 DEF DecIInv, DecTypeOK, Reads, Symbol
<1>3. /\ dqueue \in Nat /\ dnbits \in Nat /\ dnbits <= 7 /\ dqueue < 2^dnbits
      /\ out \in Seq(Byte) /\ Len(out) \in Nat /\ dn \in Nat
  BY DEF DecIInv, DecTypeOK, DecQueueBounded
<1> DEFINE p == Pending(val)
           pn == Pending(val')
<1>4. p = 0 /\ pn = 1
  BY <1>1, <1>2 DEF Pending, Char, NoChar
<1> HIDE DEF p, pn
<1>5. /\ dn' = dn + 0 /\ Len(out') = Len(out) + 0
      /\ 8 * 0 + dnbits' + 7 * pn <= dnbits + 7 * p + 7 * 1
      /\ pn <= 1 + p /\ 2 * 0 <= 1 + p - pn
      /\ 8 * 0 + dnbits' <= dnbits + 14 * 0
      /\ 0 \in Nat /\ 1 \in Nat /\ 1 > 0
  BY <1>1, <1>3, <1>4
<1>6. /\ dqueue' \in Nat /\ dnbits' \in Nat /\ dnbits' <= 7 /\ dqueue' < 2^dnbits'
      /\ out' \in Seq(Byte) /\ val' \in Char \cup {NoChar} /\ Reads(1)
  BY <1>1, <1>2, <1>3
<1> QED BY <1>5, <1>6, AccountStep, Zenon DEF p, pn

LEMMA SlowJunkStep ==
    ASSUME DecIInv, SlowJunk
    PROVE  DecIInv'
<1>1. /\ val' = val /\ Reads(1)
      /\ dn' = dn /\ dqueue' = dqueue /\ dnbits' = dnbits /\ out' = out
  BY DEF SlowJunk, SlowSymbol, Reads, DecIInv, DecTypeOK
<1>2. /\ dqueue \in Nat /\ dnbits \in Nat /\ dnbits <= 7 /\ dqueue < 2^dnbits
      /\ out \in Seq(Byte) /\ Len(out) \in Nat /\ dn \in Nat
      /\ val \in Char \cup {NoChar}
  BY DEF DecIInv, DecTypeOK, DecQueueBounded
<1> DEFINE p == Pending(val)
           pn == Pending(val')
<1>3. p \in Nat /\ pn = p
  BY <1>1 DEF Pending
<1> HIDE DEF p, pn
<1>4. /\ dn' = dn + 0 /\ Len(out') = Len(out) + 0
      /\ 8 * 0 + dnbits' + 7 * pn <= dnbits + 7 * p + 7 * 1
      /\ pn <= 1 + p /\ 2 * 0 <= 1 + p - pn
      /\ 8 * 0 + dnbits' <= dnbits + 14 * 0
      /\ 0 \in Nat /\ 1 \in Nat /\ 1 > 0
  BY <1>1, <1>2, <1>3
<1>5. /\ dqueue' \in Nat /\ dnbits' \in Nat /\ dnbits' <= 7 /\ dqueue' < 2^dnbits'
      /\ out' \in Seq(Byte) /\ val' \in Char \cup {NoChar} /\ Reads(1)
  BY <1>1, <1>2
<1> QED BY <1>4, <1>5, AccountStep, Zenon DEF p, pn

LEMMA DecReturnStep ==
    ASSUME DecIInv, DecReturn
    PROVE  DecIInv'
<1>1. /\ given' = given /\ dchunk' = << >> /\ di' = 0 /\ dn' = 0
      /\ dheld' = <<0, NoChar>> /\ dpc = "decode" /\ dpc' = "idle"
      /\ di = Len(dchunk)
      /\ dqueue' = dqueue /\ dnbits' = dnbits /\ val' = val /\ out' = out
  BY DEF DecReturn
<1>2. DecTypeOK'
  BY <1>1 DEF DecIInv, DecTypeOK
<1>3. DecQueueBounded'
  BY <1>1 DEF DecIInv, DecQueueBounded
<1>4. DecConsumed' = DecConsumed
  BY <1>1 DEF DecIInv, DecTypeOK, DecConsumed
<1>5. DecAccounted'
  <2>1. 8 * Len(out) + dnbits + 7 * Pending(val) <= 7 * DecConsumed
    BY <1>1 DEF DecIInv, DecAccounted
  <2>2. Pending(val)' = Pending(val) /\ dheld'[1] <= 7
    BY <1>1 DEF Pending
  <2>3. Len(dchunk') <= Len(given')
    BY <1>1 DEF DecIInv, DecTypeOK
  <2> QED BY <1>1, <1>4, <2>1, <2>2, <2>3 DEF DecAccounted
<1>6. BytesFit'
  BY <1>1, <1>4 DEF DecIInv, BytesFit
<1> QED BY <1>2, <1>3, <1>5, <1>6 DEF DecIInv

LEMMA DecFinishStep ==
    ASSUME DecIInv, DecFinish
    PROVE  DecIInv'
<1>1. /\ given' = given /\ dchunk' = dchunk /\ di' = di /\ dheld' = dheld /\ dn' = dn
      /\ dqueue' = 0 /\ dnbits' = 0 /\ val' = NoChar
      /\ dpc = "idle" /\ dpc' = "ended"
  BY DEF DecFinish
<1>2. /\ dqueue \in Nat /\ dnbits \in 0 .. 7 /\ dqueue < 2^dnbits
      /\ out \in Seq(Byte) /\ val \in Char \cup {NoChar}
  BY DEF DecIInv, DecTypeOK, DecQueueBounded
<1> DEFINE p == Pending(val)
           L == Len(out)
<1>3. p \in {0, 1} /\ L \in Nat
  BY <1>2 DEF Pending
<1>4. out' \in Seq(Byte) /\ Len(out') = L + p
  <2>1. CASE val = NoChar
    BY <1>2, <1>3, <2>1 DEF DecFinish, Pending
  <2>2. CASE val # NoChar
    <3> DEFINE x == dqueue + val * 2^dnbits
               z == x % 2^8
    <3>1. x \in Nat
      <4>1. val \in Value
        BY <1>2, <2>2 DEF Char, Value
      <4> QED BY <1>2, <4>1, LoadGroup, Zenon
    <3> HIDE DEF x
    <3>2. z \in Byte
      <4>1. x % 256 \in 0 .. 255
        BY <3>1
      <4> QED BY <4>1, Powers DEF Byte
    <3>3. out' = Append(out, z) /\ p = 1
      BY <2>2 DEF DecFinish, Pending, x
    <3> HIDE DEF z, p
    <3> QED BY <1>2, <3>2, <3>3
  <2> QED BY <2>1, <2>2
<1>5. DecTypeOK'
  BY <1>1, <1>4 DEF DecIInv, DecTypeOK
<1>6. DecQueueBounded'
  <2>1. 0 < 2^0
    BY Powers
  <2> QED BY <1>1, <2>1 DEF DecQueueBounded
<1>7. DecConsumed' = DecConsumed /\ DecConsumed \in Nat
  BY <1>1 DEF DecIInv, DecTypeOK, DecAccounted, DecConsumed
<1>8. DecAccounted'
  BY <1>1 DEF DecIInv, DecAccounted
<1>9. BytesFit'
  <2>1. 8 * L + dnbits + 7 * p <= 7 * DecConsumed
    BY <1>1 DEF DecIInv, DecAccounted
  <2> HIDE DEF p, L
  <2>2. L + p \in Nat /\ 8 * (L + p) <= 7 * DecConsumed + 8
    BY <1>2, <1>3, <1>7, <2>1
  <2>3. L + p <= DecodeSizeHint(DecConsumed)
    BY <1>7, <2>2, DecHintBound
  <2> QED BY <1>4, <1>7, <2>3 DEF BytesFit
<1> QED BY <1>5, <1>6, <1>8, <1>9 DEF DecIInv

LEMMA DecBeginStep ==
    ASSUME DecIInv, DecBegin
    PROVE  DecIInv'
<1>1. /\ given' = << >> /\ out' = << >> /\ dpc' = "idle"
      /\ dchunk' = dchunk /\ di' = di /\ dheld' = dheld /\ dn' = dn
      /\ dqueue' = dqueue /\ dnbits' = dnbits /\ val' = val
      /\ dchunk = << >> /\ di = 0 /\ dn = 0 /\ dnbits = 0 /\ val = NoChar
  BY DEF DecIInv, DecTypeOK, DecAccounted, DecBegin
<1>2. DecTypeOK'
  BY <1>1, DecoderAssumption DEF DecIInv, DecTypeOK
<1>3. DecQueueBounded'
  BY <1>1 DEF DecIInv, DecQueueBounded
<1>4. DecConsumed' = 0
  BY <1>1 DEF DecConsumed
<1>5. Pending(val') = 0
  BY <1>1 DEF Pending
<1>6. DecAccounted'
  BY <1>1, <1>4, <1>5 DEF DecIInv, DecAccounted
<1>7. BytesFit'
  BY <1>1, <1>4 DEF BytesFit, DecodeSizeHint
<1> QED BY <1>2, <1>3, <1>6, <1>7 DEF DecIInv

\* Every step keeps the inductive invariant.
LEMMA DecStepIInv == DecIInv /\ [DecNext]_decVars => DecIInv'
<1> SUFFICES ASSUME DecIInv, [DecNext]_decVars PROVE DecIInv'
  OBVIOUS
<1>1. ASSUME NEW c \in Texts, Decode(c) PROVE DecIInv'
  BY <1>1, DecodeStep, DecoderAssumption
<1>2. CASE FastPair
  BY <1>2, FastPairStep
<1>3. CASE SlowJunk
  BY <1>3, SlowJunkStep
<1>4. CASE SlowFirst
  BY <1>4, SlowFirstStep
<1>5. CASE SlowSecond
  BY <1>5, SlowSecondStep
<1>6. CASE DecReturn
  BY <1>6, DecReturnStep
<1>7. CASE DecFinish
  BY <1>7, DecFinishStep
<1>8. CASE DecBegin
  BY <1>8, DecBeginStep
<1>9. CASE UNCHANGED decVars
  BY <1>9 DEF DecIInv, DecTypeOK, DecQueueBounded, DecAccounted, BytesFit, DecConsumed,
              Pending, decVars
<1> QED BY <1>1, <1>2, <1>3, <1>4, <1>5, <1>6, <1>7, <1>8, <1>9 DEF DecNext, DecRun

\* What follows from the account of one call.
LEMMA DecCallBound == DecIInv => DecodeFits
<1> SUFFICES ASSUME DecIInv PROVE DecodeFits
  OBVIOUS
<1> DEFINE size == Len(dchunk)
           h    == Pending(dheld[2])
           p    == Pending(val)
           b    == dheld[1]
<1>1. /\ size \in Nat /\ di \in Nat /\ di <= size /\ dn \in Nat /\ dnbits \in Nat
      /\ b \in Nat /\ b <= 7 /\ h \in Nat /\ p \in Nat
  BY DEF DecIInv, DecTypeOK, DecAccounted, Pending
<1>2. CASE dpc = "decode"
  <2>1. 8 * dn + dnbits <= b + 14 * ((di + h - p) \div 2) /\ p <= di + h
    BY <1>2 DEF DecIInv, DecAccounted
  <2> HIDE DEF size, h, p, b
  <2> DEFINE x == di + h - p
             y == size + h
  <2>2. x \in Nat /\ y \in Nat /\ x <= y
    BY <1>1, <2>1
  <2>3. 8 * dn <= b + 14 * (x \div 2)
    BY <1>1, <2>1
  <2> HIDE DEF x, y
  <2>4. x \div 2 <= y \div 2 /\ y \div 2 \in Nat /\ x \div 2 \in Nat
    BY <2>2
  <2> DEFINE c == y \div 2
  <2>5. 2 * c <= y /\ c \in Nat
    BY <2>2
  <2>6. 8 * dn <= b + 14 * c
    BY <1>1, <2>3, <2>4
  <2> HIDE DEF c
  <2>7. dn <= (b + 14 * c) \div 8
    BY <1>1, <2>5, <2>6
  <2>8. dn <= DecodeSizeHint(y)
    <3>1. 8 * dn <= 7 * y + 8
      BY <1>1, <2>2, <2>5, <2>6
    <3> QED BY <1>1, <2>2, <3>1, DecHintBound
  <2> QED BY <2>7, <2>8 DEF DecodeFits, DecodeLen, DecodeLenExact, size, h, b, c, y
<1>3. CASE dpc # "decode"
  <2>1. dn = 0 /\ size = 0
    BY <1>3 DEF DecIInv, DecAccounted
  <2>2. h \in {0, 1}
    BY DEF Pending
  <2> QED BY <1>1, <2>1, <2>2
          DEF DecodeFits, DecodeLen, DecodeLenExact, DecodeSizeHint
<1> QED BY <1>2, <1>3

\* The hints of two parts, where the first has made its bytes already, and
\* keeps p characters for the second.
LEMMA DecHintOfRest ==
    ASSUME NEW done \in Nat, NEW size \in Nat, NEW written \in Nat, NEW p \in Nat,
           8 * written + 7 * p <= 7 * done
    PROVE  /\ written + DecodeSizeHint(size + p) <= DecodeSizeHint(done + size)
           /\ written + 1 <= DecodeSizeHint(done)
<1>1. written + 1 <= DecodeSizeHint(done)
  BY DEF DecodeSizeHint
<1> DEFINE x == (7 * (size + p)) \div 8
           y == (7 * (done + size)) \div 8
<1>2. x \in Nat /\ y \in Nat /\ 8 * x <= 7 * (size + p)
      /\ 7 * (done + size) < 8 * y + 8
  OBVIOUS
<1>3. DecodeSizeHint(size + p) = x + 1 /\ DecodeSizeHint(done + size) = y + 1
  BY DEF DecodeSizeHint
<1> HIDE DEF x, y
<1>4. written + x <= y
  BY <1>2
<1> QED BY <1>1, <1>2, <1>3, <1>4

LEMMA DecReserveBound == DecIInv => DecNeverReallocates
<1> SUFFICES ASSUME DecIInv PROVE DecNeverReallocates
  OBVIOUS
<1> DEFINE size == Len(dchunk)
           all  == Len(given)
           L    == Len(out)
           p    == Pending(val)
<1>1. /\ size \in Nat /\ all \in Nat /\ L \in Nat /\ p \in Nat
      /\ size <= all /\ dnbits \in Nat
  BY DEF DecIInv, DecTypeOK, DecAccounted, Pending
<1>2. dpc \in {"idle", "decode"} => 8 * L + dnbits + 7 * p <= 7 * DecConsumed
  BY DEF DecIInv, DecAccounted
<1>3. dpc = "decode" /\ di = 0
        => L + DecodeLen(dheld[2], size) <= DecodeSizeHint(all)
  <2> SUFFICES ASSUME dpc = "decode", di = 0
               PROVE  L + DecodeLen(dheld[2], size) <= DecodeSizeHint(all)
    OBVIOUS
  <2> DEFINE done == all - size
             h    == Pending(dheld[2])
  <2>1. DecConsumed = done /\ done \in Nat /\ done + size = all
    BY <1>1 DEF DecConsumed
  <2>2. h = p
    BY DEF DecIInv, DecAccounted
  <2> HIDE DEF size, all, L, p, done, h
  <2>3. 8 * L + 7 * p <= 7 * done
    BY <1>1, <1>2, <2>1
  <2>4. L + DecodeSizeHint(size + p) <= DecodeSizeHint(done + size)
    BY <1>1, <2>1, <2>3, DecHintOfRest
  <2> QED BY <2>1, <2>2, <2>4 DEF DecodeLen, h
<1>4. dpc = "idle" => L + 1 <= DecodeSizeHint(all)
  <2> SUFFICES ASSUME dpc = "idle" PROVE L + 1 <= DecodeSizeHint(all)
    OBVIOUS
  <2>1. DecConsumed = all
    BY <1>1 DEF DecIInv, DecTypeOK, DecAccounted, DecConsumed
  <2> HIDE DEF size, all, L, p
  <2>2. 8 * L + 7 * p <= 7 * all
    BY <1>1, <1>2, <2>1
  <2> QED BY <1>1, <2>2, DecHintOfRest
<1>5. BytesFit
  BY DEF DecIInv
<1> QED BY <1>3, <1>4, <1>5 DEF DecNeverReallocates

----------------------------------------------------------------------------
\* The decoder is in IInv in every reachable state, for any text.
THEOREM DecInvariance == DecSpec => []DecIInv
<1> QED BY DecInitIInv, DecStepIInv, PTL DEF DecSpec

\* Every variable keeps its type; the output is made of bytes.
THEOREM DecTypeCorrect == DecSpec => []DecTypeOK
<1>1. DecIInv => DecTypeOK
  BY DEF DecIInv
<1> QED BY <1>1, DecInvariance, PTL

\* The queue never keeps more than 7 bits between two pairs, so push_pair
\* stays in 21 bits of the u32 and its drain in two bytes.
THEOREM DecQueueStaysBounded == DecSpec => []DecQueueBounded
<1>1. DecIInv => DecQueueBounded
  BY DEF DecIInv
<1> QED BY <1>1, DecInvariance, PTL

\* No call writes more than the bounds its buffer was sized by.
THEOREM DecCallsFit == DecSpec => []DecodeFits
<1> QED BY DecCallBound, DecInvariance, PTL

\* A Vec that holds the hint of all the symbols is never reallocated.
THEOREM DecNoReallocation == DecSpec => []DecNeverReallocates
<1> QED BY DecReserveBound, DecInvariance, PTL

----------------------------------------------------------------------------
\* The encoder against the reference.

\* The chunk is the end of the bytes given, and the encoder is where the
\* reference is after those that it has read.
EncFollows ==
    /\ \A k \in 1 .. Len(chunk) : chunk[k] = bytes[Len(bytes) - Len(chunk) + k]
    /\ pc \in {"idle", "encode"} =>
          EncodeAll(SubSeq(bytes, 1, EncConsumed)) =
              [queue |-> queue, nbits |-> nbits, text |-> text]
    /\ pc = "ended" => text = EncEnd(EncodeAll(bytes))

\* Where the encoder is, as a state of the reference.
LEMMA EncHere ==
    ASSUME EncIInv
    PROVE  [queue |-> queue, nbits |-> nbits, text |-> text] \in EncStates
<1>1. queue \in Nat /\ nbits \in 0 .. 13 /\ text \in Seq(Char) /\ queue < 2^nbits
  BY DEF EncIInv, EncTypeOK, EncQueueBounded
<1> QED BY <1>1 DEF EncStates

LEMMA EncFollowsInit == EncInit => EncFollows
<1> SUFFICES ASSUME EncInit PROVE EncFollows
  OBVIOUS
<1>1. /\ bytes = << >> /\ chunk = << >> /\ i = 0 /\ queue = 0 /\ nbits = 0
      /\ text = << >> /\ pc = "idle"
  BY DEF EncInit
<1>2. SubSeq(bytes, 1, EncConsumed) = << >>
  BY <1>1 DEF EncConsumed
<1>3. EncodeAll(SubSeq(bytes, 1, EncConsumed)) = EncStart
  BY <1>2, EncodeAllNext
<1> QED BY <1>1, <1>3 DEF EncFollows, EncStart

LEMMA EncFollowsCall ==
    ASSUME EncIInv, EncFollows, NEW c \in Seq(Byte), Encode(c)
    PROVE  EncFollows'
<1>1. /\ bytes' = bytes \o c /\ chunk' = c /\ i' = 0 /\ queue' = queue
      /\ nbits' = nbits /\ text' = text /\ pc = "idle" /\ pc' = "encode"
  BY DEF Encode
<1>2. bytes \in Seq(Byte) /\ chunk = << >> /\ i = 0
  BY <1>1 DEF EncIInv, EncTypeOK, EncAccounted
<1>3. /\ Len(bytes') = Len(bytes) + Len(c) /\ Len(bytes) \in Nat /\ Len(c) \in Nat
      /\ \A k \in 1 .. Len(c) : c[k] = bytes'[Len(bytes) + k]
  BY <1>1, <1>2
<1>4. \A k \in 1 .. Len(chunk') : chunk'[k] = bytes'[Len(bytes') - Len(chunk') + k]
  BY <1>1, <1>3
<1>5. EncConsumed = Len(bytes) /\ EncConsumed' = Len(bytes)
  BY <1>1, <1>2, <1>3 DEF EncConsumed
<1>6. SubSeq(bytes', 1, EncConsumed') = SubSeq(bytes, 1, EncConsumed)
  <2>1. SubSeq(bytes \o c, 1, Len(bytes)) = SubSeq(bytes, 1, Len(bytes))
    BY <1>2, <1>3, PrefixOfMore
  <2> QED BY <1>1, <1>5, <2>1, Zenon
<1>7. EncodeAll(SubSeq(bytes, 1, EncConsumed)) =
          [queue |-> queue, nbits |-> nbits, text |-> text]
  BY <1>1 DEF EncFollows
<1> QED BY <1>1, <1>4, <1>6, <1>7 DEF EncFollows

\* A byte read, by the machine and by the reference.
LEMMA EncFollowsByte ==
    ASSUME EncIInv, EncFollows, NextByte
    PROVE  EncodeAll(SubSeq(bytes', 1, EncConsumed')) =
               EncByte([queue |-> queue, nbits |-> nbits, text |-> text], chunk[i + 1])
<1>1. /\ chunk[i + 1] \in Byte /\ EncConsumed' = EncConsumed + 1 /\ EncConsumed \in Nat
      /\ pc = "encode" /\ bytes' = bytes
  BY ReadByte
<1>2. /\ i \in 0 .. Len(chunk) /\ i < Len(chunk) /\ bytes \in Seq(Byte)
      /\ Len(chunk) \in Nat /\ Len(chunk) <= Len(bytes) /\ Len(bytes) \in Nat
  BY DEF EncIInv, EncTypeOK, EncAccounted, NextByte
<1>3. i + 1 \in 1 .. Len(chunk)
      /\ EncConsumed + 1 = Len(bytes) - Len(chunk) + (i + 1) /\ EncConsumed < Len(bytes)
  BY <1>2 DEF EncConsumed
<1>4. chunk[i + 1] = bytes[EncConsumed + 1]
  BY <1>3 DEF EncFollows
<1> DEFINE p == SubSeq(bytes, 1, EncConsumed)
<1>5. /\ SubSeq(bytes, 1, EncConsumed + 1) = Append(p, bytes[EncConsumed + 1])
      /\ p \in Seq(Byte)
  BY <1>1, <1>2, <1>3, NextPrefix
<1>6. EncodeAll(p) = [queue |-> queue, nbits |-> nbits, text |-> text]
  BY <1>1 DEF EncFollows
<1> HIDE DEF p
<1>7. EncodeAll(Append(p, chunk[i + 1])) = EncByte(EncodeAll(p), chunk[i + 1])
  BY <1>1, <1>5, EncodeAllNext
<1> QED BY <1>1, <1>4, <1>5, <1>6, <1>7

LEMMA EncFollowsRead ==
    ASSUME EncIInv, EncFollows, Load \/ Take
    PROVE  EncFollows'
<1> DEFINE s == [queue |-> queue, nbits |-> nbits, text |-> text]
           sn == [queue |-> queue', nbits |-> nbits', text |-> text']
           b == chunk[i + 1]
           q == Loaded
<1>1. NextByte
  BY DEF Load, Take
<1>2. /\ b \in Byte /\ pc' = "encode" /\ bytes' = bytes /\ chunk' = chunk
  BY <1>1, ReadByte
<1>3. EncodeAll(SubSeq(bytes', 1, EncConsumed')) = EncByte(s, b)
  BY <1>1, EncFollowsByte
<1>4. s \in EncStates /\ s.queue = queue /\ s.nbits = nbits /\ s.text = text
  BY EncHere
<1>5. q = s.queue + b * 2^s.nbits
  BY <1>4 DEF Loaded
<1> HIDE DEF s, b, q
<1>6. EncByte(s, b) = IF s.nbits + 8 <= 13
                      THEN [queue |-> q, nbits |-> s.nbits + 8, text |-> s.text]
                      ELSE EncGroup(q, s.nbits + 8, s.text, GroupBits(q))
  BY <1>2, <1>4, <1>5, EncByteIs
<1>7. CASE Load
  <2>1. nbits + 8 <= 13 /\ queue' = q /\ nbits' = nbits + 8 /\ text' = text
    BY <1>7 DEF Load, q
  <2>2. EncByte(s, b) = sn
    BY <1>4, <1>6, <2>1
  <2> QED BY <1>2, <1>3, <2>2 DEF EncFollows
<1>8. CASE Take
  <2>1. /\ nbits + 8 > 13 /\ queue' = q \div 2^GroupBits(q)
        /\ nbits' = nbits + 8 - GroupBits(q)
        /\ text' = text \o PairOf(q % 2^GroupBits(q))
    BY <1>8, Zenon DEF Take, q
  <2>2. EncByte(s, b) = EncGroup(q, nbits + 8, text, GroupBits(q))
    <3>1. nbits \in Nat /\ ~ (nbits + 8 <= 13)
      BY <2>1 DEF EncIInv, EncTypeOK
    <3> QED BY <1>4, <1>6, <3>1
  <2>3. EncGroup(q, nbits + 8, text, GroupBits(q)) = sn
    <3> DEFINE g == GroupBits(q)
    <3>1. EncGroup(q, nbits + 8, text, g) =
              [queue |-> q \div 2^g, nbits |-> (nbits + 8) - g,
               text |-> text \o PairOf(q % 2^g)]
      BY Zenon DEF EncGroup
    <3>2. nbits \in Nat /\ g \in Nat
      BY DEF EncIInv, EncTypeOK, GroupBits
    <3> HIDE DEF g
    <3>3. nbits + 8 - g = (nbits + 8) - g
      BY <3>2
    <3> QED BY <2>1, <3>1, <3>3, Zenon DEF g
  <2>4. EncByte(s, b) = sn
    BY <2>2, <2>3, Zenon
  <2> QED BY <1>2, <1>3, <2>4 DEF EncFollows
<1> QED BY <1>7, <1>8

LEMMA EncFollowsReturn ==
    ASSUME EncIInv, EncFollows, EncReturn
    PROVE  EncFollows'
<1>1. /\ bytes' = bytes /\ queue' = queue /\ nbits' = nbits /\ text' = text
      /\ pc = "encode" /\ pc' = "idle" /\ i = Len(chunk) /\ i' = 0 /\ chunk' = << >>
  BY DEF EncReturn
<1>2. EncConsumed' = EncConsumed
  BY <1>1 DEF EncIInv, EncTypeOK, EncConsumed
<1> QED BY <1>1, <1>2 DEF EncFollows

\* The characters of the end, by the machine and by the reference.
LEMMA SameEnd ==
    ASSUME NEW q \in Nat, NEW b \in 0 .. 13, q < 2^b, NEW t \in Seq(Char)
    PROVE  t \o SubSeq(PairOf(q), 1, FinishLen(q, b)) =
               EncEnd([queue |-> q, nbits |-> b, text |-> t])
<1> DEFINE s == [queue |-> q, nbits |-> b, text |-> t]
           p == PairOf(q)
<1>1. p = <<q % 91, q \div 91>>
  BY DEF PairOf
<1>2. q \in Value
  BY SmallQueue
<1>3. p \in Seq(Char) /\ Len(p) = 2
  BY <1>2, PairChars
<1> HIDE DEF p
<1>4. s.queue = q /\ s.nbits = b /\ s.text = t
  OBVIOUS
<1> HIDE DEF s
<1>5. CASE b = 0
  <2>1. FinishLen(q, b) = 0 /\ EncEnd(s) = t
    BY <1>4, <1>5 DEF FinishLen, EncEnd
  <2>2. SubSeq(p, 1, 0) = << >>
    BY <1>3
  <2>3. t \o << >> = t
    OBVIOUS
  <2> QED BY <2>1, <2>2, <2>3 DEF s, p
<1>6. CASE b # 0 /\ (b > 7 \/ q > 90)
  <2>1. FinishLen(q, b) = 2 /\ EncEnd(s) = t \o PairOf(q)
    BY <1>4, <1>6 DEF FinishLen, EncEnd
  <2>2. SubSeq(p, 1, 2) = p
    BY <1>3
  <2> QED BY <2>1, <2>2 DEF s, p
<1>7. CASE b # 0 /\ ~ (b > 7 \/ q > 90)
  <2>1. FinishLen(q, b) = 1 /\ EncEnd(s) = Append(t, q) /\ q <= 90
    BY <1>4, <1>7 DEF FinishLen, EncEnd
  <2>2. SubSeq(p, 1, 1) = <<p[1]>> /\ p[1] = q % 91
    <3>1. q % 91 \in Char /\ q \div 91 \in Char
      BY <1>2, PairChars
    <3> QED BY <1>1, <3>1, OneByOne
  <2>3. q % 91 = q
    BY <2>1
  <2>4. t \o <<q>> = Append(t, q)
    OBVIOUS
  <2> QED BY <2>1, <2>2, <2>3, <2>4 DEF s, p
<1> QED BY <1>5, <1>6, <1>7

LEMMA EncFollowsFinish ==
    ASSUME EncIInv, EncFollows, EncFinish
    PROVE  EncFollows'
<1>1. /\ text' = text \o SubSeq(PairOf(queue), 1, FinishLen(queue, nbits))
      /\ pc = "idle" /\ pc' = "ended" /\ bytes' = bytes /\ chunk' = chunk
  BY DEF EncFinish
<1>2. queue \in Nat /\ nbits \in 0 .. 13 /\ queue < 2^nbits /\ text \in Seq(Char)
  BY DEF EncIInv, EncTypeOK, EncQueueBounded
<1>3. text' = EncEnd([queue |-> queue, nbits |-> nbits, text |-> text])
  BY <1>1, <1>2, SameEnd, Zenon
<1>4. EncConsumed = Len(bytes) /\ bytes \in Seq(Byte)
  BY <1>1 DEF EncIInv, EncTypeOK, EncAccounted, EncConsumed
<1>5. EncodeAll(bytes) = [queue |-> queue, nbits |-> nbits, text |-> text]
  BY <1>1, <1>4, WholePrefix DEF EncFollows
<1> QED BY <1>1, <1>3, <1>5 DEF EncFollows

LEMMA EncFollowsBegin ==
    ASSUME EncIInv, EncFollows, EncBegin
    PROVE  EncFollows'
<1>1. /\ bytes' = << >> /\ text' = << >> /\ pc' = "idle" /\ chunk' = << >> /\ i' = 0
      /\ queue' = 0 /\ nbits' = 0
  BY DEF EncIInv, EncTypeOK, EncAccounted, EncBegin
<1>2. SubSeq(bytes', 1, EncConsumed') = << >>
  BY <1>1 DEF EncConsumed
<1>3. EncodeAll(SubSeq(bytes', 1, EncConsumed')) = EncStart
  BY <1>2, EncodeAllNext
<1> QED BY <1>1, <1>3 DEF EncFollows, EncStart

LEMMA EncFollowsWork == EncIInv /\ EncFollows /\ [EncNext]_encVars => EncFollows'
<1> SUFFICES ASSUME EncIInv, EncFollows, [EncNext]_encVars PROVE EncFollows'
  OBVIOUS
<1>1. ASSUME NEW c \in Chunks, Encode(c) PROVE EncFollows'
  <2>1. c \in Seq(Byte)
    BY EncoderAssumption
  <2> QED BY <1>1, <2>1, EncFollowsCall
<1>2. CASE Load \/ Take
  BY <1>2, EncFollowsRead
<1>3. CASE EncReturn
  BY <1>3, EncFollowsReturn
<1>4. CASE EncFinish
  BY <1>4, EncFollowsFinish
<1>5. CASE EncBegin
  BY <1>5, EncFollowsBegin
<1>6. CASE UNCHANGED encVars
  BY <1>6 DEF EncFollows, EncConsumed, encVars
<1> QED BY <1>1, <1>2, <1>3, <1>4, <1>5, <1>6 DEF EncNext, EncWork

LEMMA EncFollowsMeans == EncIInv /\ EncFollows => EncodesAsReference
<1> SUFFICES ASSUME EncIInv, EncFollows PROVE EncodesAsReference
  OBVIOUS
<1>1. ASSUME pc = "idle"
      PROVE  EncodeAll(bytes) = [queue |-> queue, nbits |-> nbits, text |-> text]
  <2>1. EncConsumed = Len(bytes) /\ bytes \in Seq(Byte)
    BY <1>1 DEF EncIInv, EncTypeOK, EncAccounted, EncConsumed
  <2> QED BY <1>1, <2>1, WholePrefix DEF EncFollows
<1> QED BY <1>1 DEF EncFollows, EncodesAsReference

\* The encoder of the crate and that of the C library make one text, however
\* the bytes are cut into calls, and finish ends it in the same way.
THEOREM EncEncodesAsReference == EncSpec => []EncodesAsReference
<1>1. EncInit => EncIInv /\ EncFollows
  BY EncInitIInv, EncFollowsInit
<1>2. (EncIInv /\ EncFollows) /\ [EncNext]_encVars => (EncIInv /\ EncFollows)'
  BY EncStepIInv, EncFollowsWork
<1> QED BY <1>1, <1>2, EncFollowsMeans, PTL DEF EncSpec

----------------------------------------------------------------------------
\* The decoder against the reference.

\* The chunk is the end of the symbols given, and the decoder is where the
\* reference is after those that it has read.
DecFollows ==
    /\ \A k \in 1 .. Len(dchunk) : dchunk[k] = given[Len(given) - Len(dchunk) + k]
    /\ dpc \in {"idle", "decode"} =>
          DecodeAll(SubSeq(given, 1, DecConsumed)) =
              [queue |-> dqueue, nbits |-> dnbits, val |-> val, out |-> out]
    /\ dpc = "ended" => out = DecEnd(DecodeAll(given))

LEMMA DecHere ==
    ASSUME DecIInv
    PROVE  [queue |-> dqueue, nbits |-> dnbits, val |-> val, out |-> out] \in DecStates
<1>1. /\ dqueue \in Nat /\ dnbits \in 0 .. 7 /\ val \in Char \cup {NoChar}
      /\ out \in Seq(Byte) /\ dqueue < 2^dnbits
  BY DEF DecIInv, DecTypeOK, DecQueueBounded
<1> QED BY <1>1 DEF DecStates

LEMMA DecFollowsInit == DecInit => DecFollows
<1> SUFFICES ASSUME DecInit PROVE DecFollows
  OBVIOUS
<1>1. /\ given = << >> /\ dchunk = << >> /\ di = 0 /\ dqueue = 0 /\ dnbits = 0
      /\ val = NoChar /\ out = << >> /\ dpc = "idle"
  BY DEF DecInit
<1>2. SubSeq(given, 1, DecConsumed) = << >>
  BY <1>1 DEF DecConsumed
<1>3. DecodeAll(SubSeq(given, 1, DecConsumed)) = DecStart
  BY <1>2, DecodeAllNext
<1> QED BY <1>1, <1>3 DEF DecFollows, DecStart

LEMMA DecFollowsCall ==
    ASSUME DecIInv, DecFollows, NEW c \in Seq(Symbol), Decode(c)
    PROVE  DecFollows'
<1>1. /\ given' = given \o c /\ dchunk' = c /\ di' = 0 /\ dqueue' = dqueue
      /\ dnbits' = dnbits /\ val' = val /\ out' = out /\ dpc = "idle" /\ dpc' = "decode"
  BY DEF Decode
<1>2. given \in Seq(Symbol) /\ dchunk = << >> /\ di = 0
  BY <1>1 DEF DecIInv, DecTypeOK, DecAccounted
<1>3. /\ Len(given') = Len(given) + Len(c) /\ Len(given) \in Nat /\ Len(c) \in Nat
      /\ \A k \in 1 .. Len(c) : c[k] = given'[Len(given) + k]
  BY <1>1, <1>2
<1>4. \A k \in 1 .. Len(dchunk') : dchunk'[k] = given'[Len(given') - Len(dchunk') + k]
  BY <1>1, <1>3
<1>5. DecConsumed = Len(given) /\ DecConsumed' = Len(given)
  BY <1>1, <1>2, <1>3 DEF DecConsumed
<1>6. SubSeq(given', 1, DecConsumed') = SubSeq(given, 1, DecConsumed)
  <2>1. SubSeq(given \o c, 1, Len(given)) = SubSeq(given, 1, Len(given))
    BY <1>2, <1>3, PrefixOfMore
  <2> QED BY <1>1, <1>5, <2>1, Zenon
<1>7. DecodeAll(SubSeq(given, 1, DecConsumed)) =
          [queue |-> dqueue, nbits |-> dnbits, val |-> val, out |-> out]
  BY <1>1 DEF DecFollows
<1> QED BY <1>1, <1>4, <1>6, <1>7 DEF DecFollows

\* A symbol of the chunk, by the reference.
LEMMA DecFollowsSymbol ==
    ASSUME DecIInv, DecFollows, dpc = "decode",
           NEW j \in Nat, di + j < Len(dchunk),
           NEW m \in Nat, m = DecConsumed + j
    PROVE  /\ dchunk[(di + j) + 1] \in Symbol
           /\ DecodeAll(SubSeq(given, 1, m)) \in DecStates
           /\ DecodeAll(SubSeq(given, 1, m + 1)) =
                  DecSymbol(DecodeAll(SubSeq(given, 1, m)), dchunk[(di + j) + 1])
<1>1. /\ di \in Nat /\ given \in Seq(Symbol) /\ dchunk \in Seq(Symbol)
      /\ Len(dchunk) \in Nat /\ Len(dchunk) <= Len(given) /\ Len(given) \in Nat
  BY DEF DecIInv, DecTypeOK, DecAccounted
<1> DEFINE k == (di + j) + 1
           c == dchunk[k]
<1>2. /\ k \in 1 .. Len(dchunk) /\ m + 1 = Len(given) - Len(dchunk) + k
      /\ m < Len(given)
  BY <1>1 DEF DecConsumed
<1>3. c = given[m + 1] /\ c \in Symbol
  BY <1>1, <1>2 DEF DecFollows
<1> DEFINE p == SubSeq(given, 1, m)
<1>4. SubSeq(given, 1, m + 1) = Append(p, given[m + 1]) /\ p \in Seq(Symbol)
  BY <1>1, <1>2, NextPrefix
<1> HIDE DEF p, c
<1>5. DecodeAll(Append(p, c)) = DecSymbol(DecodeAll(p), c) /\ DecodeAll(p) \in DecStates
  BY <1>3, <1>4, DecodeAllNext
<1> QED BY <1>3, <1>4, <1>5 DEF p, c

\* A pair whose value joins the queue, by the machine and by the reference.
LEMMA PushPairIs ==
    ASSUME DecIInv, NEW v \in Value, PushPair(v)
    PROVE  DecBytes(dqueue + v * 2^dnbits, dnbits + GroupBits(v), out) =
               [queue |-> dqueue', nbits |-> dnbits', val |-> NoChar, out |-> out']
<1> DEFINE q == dqueue + v * 2^dnbits
           b == dnbits + GroupBits(v)
           w == IF b >= 16 THEN 2 ELSE 1
           s == <<q % 2^8, (q \div 2^8) % 2^8>>
<1>1. dqueue' = q \div 2^(8 * w)
  BY Zenon DEF PushPair
<1>2. dnbits' = b - 8 * w
  BY Zenon DEF PushPair
<1>3. out' = out \o SubSeq(s, 1, w)
  BY Zenon DEF PushPair
<1>4. dnbits \in 0 .. 7 /\ dqueue \in Nat /\ dqueue < 2^dnbits /\ out \in Seq(Byte)
  BY DEF DecIInv, DecTypeOK, DecQueueBounded
<1>5. q \in Nat
  BY <1>4, LoadGroup, Zenon
<1>6. b \in 13 .. 21
  BY <1>4 DEF GroupBits
<1> HIDE DEF q, b
<1> DEFINE x == q % 2^8
           y == (q \div 2^8) % 2^8
<1>7. x \in Byte /\ y \in Byte
  BY <1>5, LowByte, Zenon
<1>8. s = <<x, y>>
  OBVIOUS
<1> HIDE DEF s, x, y
<1>9. CASE b >= 16
  <2>1. w = 2 /\ 8 * w = 16 /\ ~ (b - 8 < 8)
    BY <1>6, <1>9
  <2>2. SubSeq(s, 1, 2) = <<x, y>> /\ out \o <<x, y>> = Append(Append(out, x), y)
    BY <1>4, <1>7, <1>8, OneByOne
  <2>3. out' = Append(Append(out, x), y)
    BY <1>3, <2>1, <2>2
  <2> HIDE DEF w
  <2>4. DecBytes(q, b, out) = [queue |-> q \div 2^16, nbits |-> b - 16, val |-> NoChar,
                               out |-> Append(Append(out, x), y)]
    BY <2>1, Zenon DEF DecBytes, x, y
  <2>5. dqueue' = q \div 2^16 /\ dnbits' = b - 16
    BY <1>1, <1>2, <2>1, Zenon
  <2> QED BY <2>3, <2>4, <2>5, Zenon DEF q, b
<1>10. CASE ~ (b >= 16)
  <2>1. w = 1 /\ 8 * w = 8 /\ b - 8 < 8
    BY <1>6, <1>10
  <2>2. SubSeq(s, 1, 1) = <<x>> /\ out \o <<x>> = Append(out, x)
    BY <1>4, <1>7, <1>8, OneByOne
  <2>3. out' = Append(out, x)
    BY <1>3, <2>1, <2>2
  <2> HIDE DEF w
  <2>4. DecBytes(q, b, out) = [queue |-> q \div 2^8, nbits |-> b - 8, val |-> NoChar,
                               out |-> Append(out, x)]
    BY <2>1, Zenon DEF DecBytes, x, y
  <2>5. dqueue' = q \div 2^8 /\ dnbits' = b - 8
    BY <1>1, <1>2, <2>1, Zenon
  <2> QED BY <2>3, <2>4, <2>5, Zenon DEF q, b
<1> QED BY <1>9, <1>10

\* A pair by the reference: from a state with its first character pending.
LEMMA SecondSymbol ==
    ASSUME DecIInv, NEW c0 \in Char, NEW c1 \in Char, PushPair(ValueOf(c0, c1))
    PROVE  DecSymbol([queue |-> dqueue, nbits |-> dnbits, val |-> c0, out |-> out], c1) =
               [queue |-> dqueue', nbits |-> dnbits', val |-> NoChar, out |-> out']
<1> DEFINE s == [queue |-> dqueue, nbits |-> dnbits, val |-> c0, out |-> out]
           v == ValueOf(c0, c1)
<1>1. /\ dqueue \in Nat /\ dnbits \in 0 .. 7 /\ out \in Seq(Byte) /\ dqueue < 2^dnbits
  BY DEF DecIInv, DecTypeOK, DecQueueBounded
<1>2. s \in DecStates
  BY <1>1 DEF DecStates
<1>3. s.queue = dqueue /\ s.nbits = dnbits /\ s.val = c0 /\ s.out = out
  OBVIOUS
<1> HIDE DEF s
<1>4. c1 \in Symbol /\ c1 # Junk /\ s.val # NoChar
  BY <1>3 DEF Symbol, Char, Junk, NoChar
<1>5. DecSymbol(s, c1) = DecBytes(s.queue + v * 2^s.nbits, s.nbits + GroupBits(v), s.out)
      /\ v \in Value
  BY <1>2, <1>3, <1>4, DecSymbolIs
<1> HIDE DEF v
<1>6. DecSymbol(s, c1) = DecBytes(dqueue + v * 2^dnbits, dnbits + GroupBits(v), out)
  BY <1>3, <1>5, Zenon
<1>7. PushPair(v)
  BY DEF v
<1> QED BY <1>5, <1>6, <1>7, PushPairIs DEF s

\* What the two paths read.
LEMMA DecReads ==
    ASSUME DecIInv
    PROVE  /\ FastPair => Reads(2) /\ di + 0 < Len(dchunk) /\ di + 1 < Len(dchunk)
           /\ SlowSymbol => Reads(1) /\ di + 0 < Len(dchunk)
<1>1. di \in Nat /\ Len(dchunk) \in Nat
  BY DEF DecIInv, DecTypeOK
<1>2. FastPair => Reads(2)
  BY DEF FastPair, PairAhead, Reads
<1>3. SlowSymbol => Reads(1)
  BY <1>1 DEF SlowSymbol, Reads
<1> QED BY <1>1, <1>2, <1>3 DEF Reads

LEMMA DecFollowsFast ==
    ASSUME DecIInv, DecFollows, FastPair
    PROVE  DecFollows'
<1> DEFINE c0 == dchunk[di + 1]
           c1 == dchunk[di + 2]
           m == DecConsumed
           s == [queue |-> dqueue, nbits |-> dnbits, val |-> val, out |-> out]
           t == [queue |-> dqueue, nbits |-> dnbits, val |-> c0, out |-> out]
           n2 == [queue |-> dqueue', nbits |-> dnbits', val |-> NoChar, out |-> out']
<1>1. /\ Reads(2) /\ di + 0 < Len(dchunk) /\ di + 1 < Len(dchunk) /\ dpc = "decode"
  BY DecReads DEF FastPair
<1>2. /\ PushPair(ValueOf(c0, c1)) /\ val = NoChar /\ val' = NoChar
      /\ c0 # Junk /\ c1 # Junk
  BY DEF FastPair, PairAhead
<1>3. /\ di \in Nat /\ m \in Nat /\ DecConsumed' = m + 2
  BY <1>1, ReadsKeep
<1> HIDE DEF c0, c1, m
<1>4. /\ (di + 0) + 1 = di + 1 /\ (di + 1) + 1 = di + 2 /\ 0 \in Nat /\ 1 \in Nat
      /\ m = DecConsumed + 0 /\ m + 1 = DecConsumed + 1 /\ m + 1 \in Nat
      /\ (m + 1) + 1 = m + 2
  BY <1>3 DEF m
<1>5. /\ c0 \in Symbol
      /\ DecodeAll(SubSeq(given, 1, m + 1)) = DecSymbol(DecodeAll(SubSeq(given, 1, m)), c0)
  <2>1. /\ dchunk[(di + 0) + 1] \in Symbol
        /\ DecodeAll(SubSeq(given, 1, m + 1)) =
              DecSymbol(DecodeAll(SubSeq(given, 1, m)), dchunk[(di + 0) + 1])
    BY <1>1, <1>3, <1>4, DecFollowsSymbol
  <2> QED BY <1>4, <2>1, Zenon DEF c0
<1>6. /\ c1 \in Symbol
      /\ DecodeAll(SubSeq(given, 1, m + 2)) =
            DecSymbol(DecodeAll(SubSeq(given, 1, m + 1)), c1)
  <2>1. /\ dchunk[(di + 1) + 1] \in Symbol
        /\ DecodeAll(SubSeq(given, 1, (m + 1) + 1)) =
              DecSymbol(DecodeAll(SubSeq(given, 1, m + 1)), dchunk[(di + 1) + 1])
    BY <1>1, <1>3, <1>4, DecFollowsSymbol
  <2> QED BY <1>4, <2>1, Zenon DEF c1
<1>7. c0 \in Char /\ c1 \in Char
  BY <1>2, <1>5, <1>6 DEF Symbol
<1>8. DecodeAll(SubSeq(given, 1, m)) = s
  BY <1>1 DEF DecFollows, m
<1>9. DecSymbol(s, c0) = t
  <2>1. s \in DecStates /\ s.val = NoChar /\ s.queue = dqueue /\ s.nbits = dnbits
        /\ s.out = out
    BY <1>2, DecHere
  <2> HIDE DEF s
  <2> QED BY <1>2, <1>5, <2>1, DecSymbolIs
<1>10. DecSymbol(t, c1) = n2
  BY <1>2, <1>7, SecondSymbol
<1> HIDE DEF s, t
<1>11. DecodeAll(SubSeq(given, 1, m + 2)) = n2
  BY <1>5, <1>6, <1>8, <1>9, <1>10
<1>12. given' = given /\ dchunk' = dchunk /\ dpc' = "decode"
  BY <1>1 DEF Reads
<1> QED BY <1>2, <1>3, <1>11, <1>12 DEF DecFollows

LEMMA DecFollowsSlow ==
    ASSUME DecIInv, DecFollows, SlowJunk \/ SlowFirst \/ SlowSecond
    PROVE  DecFollows'
<1> DEFINE c == dchunk[di + 1]
           m == DecConsumed
           s == [queue |-> dqueue, nbits |-> dnbits, val |-> val, out |-> out]
           sn == [queue |-> dqueue', nbits |-> dnbits', val |-> val', out |-> out']
<1>1. SlowSymbol /\ Reads(1) /\ di + 0 < Len(dchunk) /\ dpc = "decode"
  BY DecReads DEF SlowJunk, SlowFirst, SlowSecond, SlowSymbol
<1>2. /\ di \in Nat /\ m \in Nat /\ DecConsumed' = m + 1
  BY <1>1, ReadsKeep
<1>3. s \in DecStates /\ s.val = val /\ s.queue = dqueue /\ s.nbits = dnbits
      /\ s.out = out
  BY DecHere
<1>4. DecodeAll(SubSeq(given, 1, m)) = s
  BY <1>1 DEF DecFollows
<1> HIDE DEF m, c
<1>5. (di + 0) + 1 = di + 1 /\ 0 \in Nat /\ m = DecConsumed + 0
  BY <1>2 DEF m
<1>6. /\ c \in Symbol
      /\ DecodeAll(SubSeq(given, 1, m + 1)) = DecSymbol(s, c)
  <2>1. /\ dchunk[(di + 0) + 1] \in Symbol
        /\ DecodeAll(SubSeq(given, 1, m + 1)) =
              DecSymbol(DecodeAll(SubSeq(given, 1, m)), dchunk[(di + 0) + 1])
    BY <1>1, <1>2, <1>5, DecFollowsSymbol
  <2> QED BY <1>4, <1>5, <2>1, Zenon DEF c
<1>7. DecSymbol(s, c) = sn
  <2>1. CASE SlowJunk
    <3>1. /\ c = Junk /\ dqueue' = dqueue /\ dnbits' = dnbits /\ val' = val /\ out' = out
      BY <2>1 DEF SlowJunk, c
    <3>2. s = sn
      BY <3>1
    <3> HIDE DEF s, sn
    <3> QED BY <1>3, <1>6, <3>1, <3>2, DecSymbolIs
  <2>2. CASE SlowFirst
    <3>1. /\ c # Junk /\ val = NoChar /\ dqueue' = dqueue /\ dnbits' = dnbits /\ val' = c
          /\ out' = out
      BY <2>2 DEF SlowFirst, c
    <3> HIDE DEF s
    <3>2. DecSymbol(s, c) = [queue |-> dqueue, nbits |-> dnbits, val |-> c, out |-> out]
      BY <1>3, <1>6, <3>1, DecSymbolIs
    <3> QED BY <3>1, <3>2
  <2>3. CASE SlowSecond
    <3>1. c # Junk /\ val # NoChar /\ val' = NoChar /\ PushPair(ValueOf(val, c))
      BY <2>3 DEF SlowSecond, c
    <3>2. c \in Char /\ val \in Char
      BY <1>6, <3>1 DEF Symbol, DecIInv, DecTypeOK
    <3> QED BY <3>1, <3>2, SecondSymbol
  <2> QED BY <2>1, <2>2, <2>3
<1>8. given' = given /\ dchunk' = dchunk /\ dpc' = "decode"
  BY <1>1 DEF Reads
<1> HIDE DEF s
<1> QED BY <1>2, <1>6, <1>7, <1>8 DEF DecFollows

LEMMA DecFollowsReturn ==
    ASSUME DecIInv, DecFollows, DecReturn
    PROVE  DecFollows'
<1>1. /\ given' = given /\ dqueue' = dqueue /\ dnbits' = dnbits /\ val' = val
      /\ out' = out /\ dpc = "decode" /\ dpc' = "idle" /\ di = Len(dchunk) /\ di' = 0
      /\ dchunk' = << >>
  BY DEF DecReturn
<1>2. DecConsumed' = DecConsumed
  BY <1>1 DEF DecIInv, DecTypeOK, DecConsumed
<1> QED BY <1>1, <1>2 DEF DecFollows

LEMMA DecFollowsFinish ==
    ASSUME DecIInv, DecFollows, DecFinish
    PROVE  DecFollows'
<1> DEFINE s == [queue |-> dqueue, nbits |-> dnbits, val |-> val, out |-> out]
<1>1. /\ out' = IF val = NoChar THEN out
                ELSE Append(out, (dqueue + val * 2^dnbits) % 2^8)
      /\ dpc = "idle" /\ dpc' = "ended" /\ given' = given /\ dchunk' = dchunk
  BY DEF DecFinish
<1>2. s.val = val /\ s.queue = dqueue /\ s.nbits = dnbits /\ s.out = out
  OBVIOUS
<1>3. out' = DecEnd(s)
  <2> HIDE DEF s
  <2> QED BY <1>1, <1>2, Zenon DEF DecEnd
<1>4. DecConsumed = Len(given) /\ given \in Seq(Symbol)
  BY <1>1 DEF DecIInv, DecTypeOK, DecAccounted, DecConsumed
<1>5. DecodeAll(given) = s
  BY <1>1, <1>4, WholePrefix DEF DecFollows
<1> HIDE DEF s
<1> QED BY <1>1, <1>3, <1>5 DEF DecFollows

LEMMA DecFollowsBegin ==
    ASSUME DecIInv, DecFollows, DecBegin
    PROVE  DecFollows'
<1>1. /\ given' = << >> /\ out' = << >> /\ dpc' = "idle" /\ dchunk' = << >> /\ di' = 0
      /\ dqueue' = 0 /\ dnbits' = 0 /\ val' = NoChar
  BY DEF DecIInv, DecTypeOK, DecAccounted, DecBegin
<1>2. SubSeq(given', 1, DecConsumed') = << >>
  BY <1>1 DEF DecConsumed
<1>3. DecodeAll(SubSeq(given', 1, DecConsumed')) = DecStart
  BY <1>2, DecodeAllNext
<1> QED BY <1>1, <1>3 DEF DecFollows, DecStart

LEMMA DecFollowsRun ==
    ASSUME DecIInv, DecFollows, DecRun
    PROVE  DecFollows'
<1>1. CASE FastPair
  BY <1>1, DecFollowsFast
<1>2. CASE SlowJunk \/ SlowFirst \/ SlowSecond
  BY <1>2, DecFollowsSlow
<1>3. CASE DecReturn
  BY <1>3, DecFollowsReturn
<1> QED BY <1>1, <1>2, <1>3 DEF DecRun

LEMMA DecFollowsNext == DecIInv /\ DecFollows /\ [DecNext]_decVars => DecFollows'
<1> SUFFICES ASSUME DecIInv, DecFollows, [DecNext]_decVars PROVE DecFollows'
  OBVIOUS
<1>1. ASSUME NEW c \in Texts, Decode(c) PROVE DecFollows'
  <2>1. c \in Seq(Symbol)
    BY DecoderAssumption
  <2> QED BY <1>1, <2>1, DecFollowsCall
<1>2. CASE DecRun
  BY <1>2, DecFollowsRun
<1>3. CASE DecFinish
  BY <1>3, DecFollowsFinish
<1>4. CASE DecBegin
  BY <1>4, DecFollowsBegin
<1>5. CASE UNCHANGED decVars
  BY <1>5 DEF DecFollows, DecConsumed, decVars
<1> QED BY <1>1, <1>2, <1>3, <1>4, <1>5 DEF DecNext

LEMMA DecFollowsMeans == DecIInv /\ DecFollows => DecodesAsReference
<1> SUFFICES ASSUME DecIInv, DecFollows PROVE DecodesAsReference
  OBVIOUS
<1>1. ASSUME dpc = "idle"
      PROVE  DecodeAll(given) = [queue |-> dqueue, nbits |-> dnbits, val |-> val,
                                 out |-> out]
  <2>1. DecConsumed = Len(given) /\ given \in Seq(Symbol)
    BY <1>1 DEF DecIInv, DecTypeOK, DecAccounted, DecConsumed
  <2> QED BY <1>1, <2>1, WholePrefix DEF DecFollows
<1> QED BY <1>1 DEF DecFollows, DecodesAsReference

\* The decoder of the crate, by pairs or by single symbols, and that of the
\* Go port make the same bytes of any text, however it is cut into calls.
THEOREM DecDecodesAsReference == DecSpec => []DecodesAsReference
<1>1. DecInit => DecIInv /\ DecFollows
  BY DecInitIInv, DecFollowsInit
<1>2. (DecIInv /\ DecFollows) /\ [DecNext]_decVars => (DecIInv /\ DecFollows)'
  BY DecStepIInv, DecFollowsNext
<1> QED BY <1>1, <1>2, DecFollowsMeans, PTL DEF DecSpec

----------------------------------------------------------------------------
\* The round trip, for the two implementations of reference: the decoder that
\* is given all the encoder's text is at most 20 bits behind it.

\* The bits of the queues, joined.
LEMMA AddPowers ==
    ASSUME NEW j \in 0 .. 7, NEW k \in 0 .. 14
    PROVE  Power(j) * Power(k) = Power(j + k)
<1> DEFINE P(x) == \A y \in 0 .. 14 : Power(x) * Power(y) = Power(x + y)
<1>1. \A y \in 0 .. 21 : Power(y) \in Nat
  <2>1. \A y \in 0 .. 20 : Power(y) \in Nat
    BY Doubling
  <2>2. Power(20 + 1) = 2 * Power(20) /\ Power(20) \in Nat
    BY Doubling
  <2> QED BY <2>1, <2>2
<1>2. P(0)
  <2>1. Power(0) = 1
    BY Powers DEF Power
  <2> QED BY <1>1, <2>1
<1>3. ASSUME NEW x \in 0 .. 6, P(x) PROVE P(x + 1)
  <2> SUFFICES ASSUME NEW y \in 0 .. 14 PROVE Power(x + 1) * Power(y) = Power((x + 1) + y)
    OBVIOUS
  <2>1. Power(x + 1) = 2 * Power(x) /\ Power((x + y) + 1) = 2 * Power(x + y)
    BY Doubling
  <2>2. Power(x) * Power(y) = Power(x + y)
    BY <1>3
  <2>3. (2 * Power(x)) * Power(y) = 2 * (Power(x) * Power(y))
    BY <1>1
  <2>4. (x + y) + 1 = (x + 1) + y
    OBVIOUS
  <2> QED BY <2>1, <2>2, <2>3, <2>4
<1> HIDE DEF P
<1>4. P(1) /\ P(2) /\ P(3) /\ P(4)
  BY <1>2, <1>3
<1>5. P(5) /\ P(6) /\ P(7)
  BY <1>3, <1>4
<1>6. P(j)
  BY <1>2, <1>4, <1>5
<1> QED BY <1>6 DEF P

\* The three bytes after the first m, as a number.
ByteAt(b, k) == IF k \in 1 .. Len(b) THEN b[k] ELSE 0

Ahead(b, m) == ByteAt(b, m + 1) + 256 * ByteAt(b, m + 2) + 65536 * ByteAt(b, m + 3)

LEMMA AtIs ==
    ASSUME NEW b \in Seq(Byte), NEW k \in Nat
    PROVE  /\ ByteAt(b, k) \in Nat /\ ByteAt(b, k) < 256
           /\ k > Len(b) => ByteAt(b, k) = 0
           /\ k \in 1 .. Len(b) => ByteAt(b, k) = b[k]
<1>1. CASE k \in 1 .. Len(b)
  <2>1. b[k] \in Byte /\ ~ (k > Len(b))
    BY <1>1
  <2>2. ByteAt(b, k) = b[k]
    BY <1>1 DEF ByteAt
  <2>3. PICK x \in Byte : x = b[k]
    BY <2>1
  <2>4. x \in Nat /\ x < 256
    BY DEF Byte
  <2> QED BY <2>1, <2>2, <2>3, <2>4
<1>2. CASE ~ (k \in 1 .. Len(b))
  BY <1>2 DEF ByteAt
<1> QED BY <1>1, <1>2

\* The first of them leaves.
LEMMA RestNext ==
    ASSUME NEW b \in Seq(Byte), NEW m \in Nat, m < Len(b), Len(b) <= m + 3
    PROVE  /\ Ahead(b, m) \in Nat
           /\ Ahead(b, m) % 256 = b[m + 1] /\ Ahead(b, m) \div 256 = Ahead(b, m + 1)
<1> DEFINE x == ByteAt(b, m + 1)
           y == ByteAt(b, m + 2)
           z == ByteAt(b, m + 3)
<1>1. /\ x \in Nat /\ x < 256 /\ y \in Nat /\ y < 256 /\ z \in Nat /\ z < 256
      /\ x = b[m + 1]
  <2>1. m + 1 \in Nat /\ m + 2 \in Nat /\ m + 3 \in Nat /\ m + 1 \in 1 .. Len(b)
    OBVIOUS
  <2> QED BY <2>1, AtIs, Zenon
<1>2. ByteAt(b, m + 4) = 0
  <2>1. m + 4 > Len(b) /\ m + 4 \in Nat
    OBVIOUS
  <2> QED BY <2>1, AtIs
<1>3. Ahead(b, m) = x + 256 * y + 65536 * z
  BY DEF Ahead
<1>4. Ahead(b, m + 1) = y + 256 * z + 65536 * ByteAt(b, m + 4)
  <2>1. (m + 1) + 1 = m + 2 /\ (m + 1) + 2 = m + 3 /\ (m + 1) + 3 = m + 4
    OBVIOUS
  <2>2. Ahead(b, m + 1) = ByteAt(b, (m + 1) + 1) + 256 * ByteAt(b, (m + 1) + 2)
                         + 65536 * ByteAt(b, (m + 1) + 3)
    BY SMT DEF Ahead
  <2> QED BY <2>1, <2>2
<1> HIDE DEF x, y, z
<1>5. Ahead(b, m + 1) = y + 256 * z
  BY <1>1, <1>2, <1>4
<1>6. Ahead(b, m) = x + 256 * (y + 256 * z) /\ y + 256 * z \in Nat
  BY <1>1, <1>3
<1>7. /\ (x + 256 * (y + 256 * z)) % 256 = x
      /\ (x + 256 * (y + 256 * z)) \div 256 = y + 256 * z
  <2> DEFINE u == y + 256 * z
  <2>1. x \in Nat /\ x < 256 /\ u \in Nat
    BY <1>1, <1>6
  <2> HIDE DEF u
  <2>2. (x + 256 * u) % 256 = x /\ (x + 256 * u) \div 256 = u
    BY ONLY <2>1
  <2> QED BY <2>2 DEF u
<1>8. Ahead(b, m) \in Nat
  BY <1>1, <1>6
<1>9. Ahead(b, m) % 256 = b[m + 1]
  BY <1>1, <1>6, <1>7, Zenon
<1>10. Ahead(b, m) \div 256 = Ahead(b, m + 1)
  BY <1>5, <1>6, <1>7, Zenon
<1> QED BY <1>8, <1>9, <1>10

\* A byte joins them.
LEMMA RestMore ==
    ASSUME NEW b \in Seq(Byte), NEW z \in Byte, NEW m \in Nat, NEW r \in 0 .. 2,
           Len(b) = m + r
    PROVE  /\ Ahead(b, m) \in Nat
           /\ Ahead(Append(b, z), m) = Ahead(b, m) + z * Power(8 * r)
<1> DEFINE c == Append(b, z)
<1>1. /\ c \in Seq(Byte) /\ Len(c) = m + r + 1 /\ c[m + r + 1] = z
      /\ \A k \in 1 .. m + r : c[k] = b[k]
  OBVIOUS
<1>2. z \in Nat
  BY DEF Byte
<1> HIDE DEF c
<1>3. \A k \in Nat \ {0} : ByteAt(c, k) = IF k = m + r + 1 THEN z ELSE ByteAt(b, k)
  BY <1>1 DEF ByteAt
<1>4. ByteAt(b, m + r + 1) = 0 /\ ByteAt(b, m + 1) \in Nat /\ ByteAt(b, m + 2) \in Nat
      /\ ByteAt(b, m + 3) \in Nat
  <2>1. /\ m + r + 1 \in Nat /\ m + 1 \in Nat /\ m + 2 \in Nat /\ m + 3 \in Nat
        /\ m + r + 1 > Len(b)
    OBVIOUS
  <2> QED BY <2>1, AtIs, Zenon
<1>5. Power(0) = 1 /\ Power(8) = 256 /\ Power(16) = 65536
  BY Powers DEF Power
<1> DEFINE x1 == ByteAt(b, m + 1)
           x2 == ByteAt(b, m + 2)
           x3 == ByteAt(b, m + 3)
           y1 == ByteAt(c, m + 1)
           y2 == ByteAt(c, m + 2)
           y3 == ByteAt(c, m + 3)
<1>6. /\ Ahead(b, m) = x1 + 256 * x2 + 65536 * x3
      /\ Ahead(c, m) = y1 + 256 * y2 + 65536 * y3
      /\ x1 \in Nat /\ x2 \in Nat /\ x3 \in Nat
  BY <1>4 DEF Ahead
<1>7. CASE r = 0
  <2>1. y1 = z /\ y2 = x2 /\ y3 = x3 /\ x1 = 0 /\ 8 * r = 0
    BY <1>3, <1>4, <1>7
  <2> HIDE DEF x1, x2, x3, y1, y2, y3
  <2> QED BY <1>2, <1>5, <1>6, <2>1 DEF c
<1>8. CASE r = 1
  <2>1. y1 = x1 /\ y2 = z /\ y3 = x3 /\ x2 = 0 /\ 8 * r = 8
    BY <1>3, <1>4, <1>8
  <2> HIDE DEF x1, x2, x3, y1, y2, y3
  <2> QED BY <1>2, <1>5, <1>6, <2>1 DEF c
<1>9. CASE r = 2
  <2>1. y1 = x1 /\ y2 = x2 /\ y3 = z /\ x3 = 0 /\ 8 * r = 16
    BY <1>3, <1>4, <1>9
  <2> HIDE DEF x1, x2, x3, y1, y2, y3
  <2> QED BY <1>2, <1>5, <1>6, <2>1 DEF c
<1> QED BY <1>7, <1>8, <1>9

\* The decoder's queue of k bits and the encoder's above it.
Joined(r, d, k, e) == r = d + e * Power(k)

\* The byte that leaves the decoder's queue is that of the joined one.
LEMMA Drain ==
    ASSUME NEW k \in 8 .. 21, NEW d \in Nat, NEW e \in Nat, NEW r \in Nat,
           Joined(r, d, k, e)
    PROVE  /\ r % 256 = d % 256
           /\ Joined(r \div 256, d \div 256, k - 8, e)
<1> DEFINE j == k - 8
           p == Power(j)
<1>1. j \in 0 .. 13 /\ j + 8 = k
  OBVIOUS
<1> HIDE DEF j
<1>2. p \in Nat /\ Power(k) = 256 * p
  BY <1>1, Doubling, Shift
<1> HIDE DEF p
<1> DEFINE m == e * p
<1>3. m \in Nat /\ e * (256 * p) = 256 * m
  BY <1>2
<1> HIDE DEF m
<1>4. r = d + 256 * m
  BY <1>2, <1>3 DEF Joined
<1>5. (d + 256 * m) % 256 = d % 256 /\ (d + 256 * m) \div 256 = (d \div 256) + m
  BY ONLY <1>3, d \in Nat
<1> QED BY <1>4, <1>5 DEF m, p, j, Joined

\* What the decoder makes of a group, when the bits of its queue and those of
\* q above it are those of the bytes that it has not written.
LEMMA GroupDecoded ==
    ASSUME NEW b \in Seq(Byte), NEW m \in Nat, m < Len(b), Len(b) <= m + 3,
           NEW k0 \in 0 .. 7, NEW q0 \in Nat, NEW q \in Nat,
           NEW w, w = GroupBits(q), NEW v, v = q % 2^w,
           Joined(Ahead(b, m), q0, k0, q),
           k0 + w >= 16 => m + 2 <= Len(b)
    PROVE  LET d == DecBytes(q0 + v * 2^k0, k0 + w, SubSeq(b, 1, m))
               u == IF k0 + w >= 16 THEN 2 ELSE 1
           IN  /\ d.val = NoChar /\ d.out = SubSeq(b, 1, m + u)
               /\ d.nbits = (k0 + w) - 8 * u
               /\ Joined(Ahead(b, m + u), d.queue, d.nbits, q \div 2^w)
<1> DEFINE e == q \div 2^w
           z == q0 + v * 2^k0
           n0 == k0 + w
           t == SubSeq(b, 1, m)
<1>1. w \in {13, 14} /\ v \in Value
  BY GroupFits
<1>2. q = v + e * Power(w) /\ e \in Nat /\ v \in Nat /\ Power(w) \in Nat
  <2>1. Power(w) \in Nat \ {0} /\ 2^w = Power(w)
    <3>1. Power(13) = 8192 /\ Power(14) = 16384
      BY Powers DEF Power
    <3>2. 2^w = Power(w)
      BY Zenon DEF Power
    <3> QED BY <1>1, <3>1, <3>2
  <2>2. q = Power(w) * (q \div Power(w)) + (q % Power(w))
        /\ q \div Power(w) \in Nat /\ q % Power(w) \in Nat
    <3> DEFINE g == Power(w)
    <3>1. g \in Nat \ {0}
      BY <2>1
    <3> HIDE DEF g
    <3>2. /\ q \div g \in Nat /\ q % g \in 0 .. (g - 1) /\ q = g * (q \div g) + (q % g)
      BY <3>1, Division, Zenon
    <3>3. q % g \in Nat
      BY <3>1, <3>2
    <3> QED BY <3>2, <3>3, Zenon DEF g
  <2>3. e = q \div Power(w) /\ v = q % Power(w)
    BY <2>1, Zenon
  <2> HIDE DEF e
  <2>4. q = Power(w) * e + v /\ e \in Nat /\ v \in Nat
    BY <2>2, <2>3, Zenon
  <2> DEFINE g == Power(w)
  <2>5. g \in Nat /\ q = g * e + v
    BY <2>1, <2>4
  <2> HIDE DEF g
  <2>6. g * e + v = v + e * g
    BY ONLY <2>4, <2>5
  <2> QED BY <2>1, <2>4, <2>5, <2>6 DEF g
<1>3. n0 \in 13 .. 21 /\ Power(k0) \in Nat /\ Power(n0) = Power(k0) * Power(w)
  <2>0. w \in {13, 14} /\ k0 \in 0 .. 7
    BY <1>1
  <2>1. w \in 0 .. 14 /\ k0 \in 0 .. 7 /\ k0 \in 0 .. 20 /\ n0 \in 13 .. 21
    BY ONLY <2>0 DEF n0
  <2>2. Power(k0) * Power(w) = Power(k0 + w) /\ Power(k0) \in Nat
    BY <2>1, AddPowers, Doubling, Zenon
  <2> QED BY <2>1, <2>2, Zenon
<1>4. z = q0 + v * Power(k0)
  BY Zenon DEF Power
<1> HIDE DEF e, z, n0
<1>5. z \in Nat /\ Joined(Ahead(b, m), z, n0, e)
  <2> DEFINE p == Power(k0)
             g == Power(w)
  <2>1. p \in Nat /\ g \in Nat
    BY <1>2, <1>3
  <2> HIDE DEF p, g
  <2>2. (v + e * g) * p = v * p + e * (p * g) /\ v * p \in Nat
    BY ONLY <1>2, <2>1
  <2>3. q * p = (v + e * g) * p
    BY <1>2 DEF g
  <2>4. Ahead(b, m) = q0 + (v * p + e * (p * g))
    BY <2>2, <2>3 DEF p, Joined
  <2>5. e * (p * g) \in Nat
    BY <1>2, <2>1
  <2> DEFINE x == v * p
             y == e * (p * g)
  <2> HIDE DEF x, y
  <2>6. q0 + (x + y) = (q0 + x) + y /\ q0 + x \in Nat
    BY <2>2, <2>5 DEF x, y
  <2> QED BY <1>3, <1>4, <2>4, <2>6 DEF p, g, x, y, Joined
<1>6. Ahead(b, m) \in Nat /\ Ahead(b, m) % 256 = b[m + 1]
      /\ Ahead(b, m) \div 256 = Ahead(b, m + 1)
  BY RestNext
<1>7. z % 256 = b[m + 1] /\ Joined(Ahead(b, m + 1), z \div 256, n0 - 8, e)
  <2>1. n0 \in 8 .. 21
    BY <1>3
  <2>2. /\ Ahead(b, m) % 256 = z % 256
        /\ Joined(Ahead(b, m) \div 256, z \div 256, n0 - 8, e)
    BY <1>2, <1>5, <1>6, <2>1, Drain
  <2> QED BY <1>6, <2>2
<1>8. SubSeq(b, 1, m + 1) = Append(t, b[m + 1])
  BY NextPrefix
<1> HIDE DEF t
<1>9. 2^8 = 256 /\ 2^16 = 65536
  BY Powers
<1>10. CASE ~ (n0 >= 16)
  <2>1. n0 - 8 < 8 /\ n0 - 8 = n0 - 8 * 1
    BY <1>3, <1>10
  <2> DEFINE d == [queue |-> z \div 2^8, nbits |-> n0 - 8, val |-> NoChar,
                   out |-> Append(t, z % 2^8)]
  <2>2. DecBytes(z, n0, t) = d
    BY <2>1, Zenon DEF DecBytes
  <2>3. /\ d.val = NoChar /\ d.out = SubSeq(b, 1, m + 1) /\ d.nbits = n0 - 8 * 1
        /\ Joined(Ahead(b, m + 1), d.queue, d.nbits, e)
    BY <1>7, <1>8, <1>9, <2>1
  <2> HIDE DEF d
  <2> QED BY <1>10, <2>2, <2>3 DEF z, n0, t, e
<1>11. CASE n0 >= 16
  <2>1. m + 1 < Len(b) /\ m + 1 \in Nat /\ (m + 1) + 1 = m + 2 /\ Len(b) <= (m + 1) + 3
        /\ ~ (n0 - 8 < 8) /\ n0 - 16 = n0 - 8 * 2 /\ n0 - 8 \in 8 .. 21
        /\ (n0 - 8) - 8 = n0 - 16 /\ z \div 256 \in Nat
    <3>1. m + 2 <= Len(b)
      BY <1>11 DEF n0
    <3> QED BY <1>3, <1>5, <1>11, <3>1
  <2>2. Ahead(b, m + 1) \in Nat /\ Ahead(b, m + 1) % 256 = b[m + 2]
        /\ Ahead(b, m + 1) \div 256 = Ahead(b, m + 2)
    BY <2>1, RestNext
  <2>3. (z \div 256) % 256 = b[m + 2]
        /\ Joined(Ahead(b, m + 2), (z \div 256) \div 256, n0 - 16, e)
    <3> DEFINE j == n0 - 8
               y == z \div 256
    <3>1. j \in 8 .. 21 /\ y \in Nat /\ j - 8 = n0 - 16
          /\ Joined(Ahead(b, m + 1), y, j, e)
      BY <1>7, <2>1
    <3> HIDE DEF j, y
    <3>2. /\ Ahead(b, m + 1) % 256 = y % 256
          /\ Joined(Ahead(b, m + 1) \div 256, y \div 256, j - 8, e)
      BY <1>2, <2>2, <3>1, Drain
    <3> QED BY <2>2, <3>1, <3>2 DEF y
  <2>4. SubSeq(b, 1, m + 2) = Append(Append(t, b[m + 1]), b[m + 2])
    <3>1. SubSeq(b, 1, (m + 1) + 1) = Append(SubSeq(b, 1, m + 1), b[(m + 1) + 1])
      BY <2>1, NextPrefix, Zenon
    <3> QED BY <1>8, <2>1, <3>1, Zenon
  <2>5. (z \div 256) \div 256 = z \div 65536
    BY <1>5
  <2> DEFINE d == [queue |-> z \div 2^16, nbits |-> n0 - 16, val |-> NoChar,
                   out |-> Append(Append(t, z % 2^8), (z \div 2^8) % 2^8)]
  <2>6. DecBytes(z, n0, t) = d
    BY <2>1, Zenon DEF DecBytes
  <2>7. /\ d.val = NoChar /\ d.out = SubSeq(b, 1, m + 2) /\ d.nbits = n0 - 8 * 2
        /\ Joined(Ahead(b, m + 2), d.queue, d.nbits, e)
    <3>1. /\ d.val = NoChar /\ d.nbits = n0 - 16 /\ d.queue = z \div 2^16
          /\ d.out = Append(Append(t, z % 2^8), (z \div 2^8) % 2^8)
      BY Zenon
    <3> HIDE DEF d
    <3>2. z % 2^8 = b[m + 1]
      BY <1>7, <1>9
    <3>3. (z \div 2^8) % 2^8 = b[m + 2]
      BY <1>9, <2>3
    <3>4. z \div 2^16 = (z \div 256) \div 256
      BY <1>9, <2>5
    <3>5. d.out = SubSeq(b, 1, m + 2)
      BY <2>4, <3>1, <3>2, <3>3, Zenon
    <3>6. Joined(Ahead(b, m + 2), d.queue, d.nbits, e)
      BY <2>3, <3>1, <3>4, Zenon
    <3> QED BY <2>1, <3>1, <3>5, <3>6, Zenon
  <2> HIDE DEF d
  <2> QED BY <1>11, <2>6, <2>7 DEF z, n0, t, e
<1> QED BY <1>10, <1>11

\* The decoder d has been given all the text of the encoder e, which has been
\* given b: their queues hold the bytes of b that are not written yet.
Behind(e, d, b) ==
    \E m \in 0 .. Len(b) :
        /\ d.val = NoChar /\ d.out = SubSeq(b, 1, m)
        /\ 8 * (Len(b) - m) = e.nbits + d.nbits
        /\ Joined(Ahead(b, m), d.queue, d.nbits, e.queue)

\* After the text t, a decoder d reads the w bits v from the pair of v.
PairReads(t, d, w, v) ==
    /\ v \in Value /\ w \in {13, 14} /\ t \o PairOf(v) \in Seq(Char)
    /\ DecodeAll(t \o PairOf(v)) =
           DecBytes(d.queue + v * 2^d.nbits, d.nbits + w, d.out)
    /\ DecodeAll(Append(t, v % 91)).out = d.out
    /\ t \o PairOf(v) = Append(Append(t, v % 91), v \div 91)
    /\ v % 91 \in Char /\ v \div 91 \in Char

\* A pair that encodes a group is decoded to it.
LEMMA PairDecoded ==
    ASSUME NEW t \in Seq(Char), NEW d, d = DecodeAll(t), d.val = NoChar,
           NEW q \in Nat, NEW w, w = GroupBits(q), NEW v, v = q % 2^w
    PROVE  PairReads(t, d, w, v)
<1> DEFINE c0 == v % 91
           c1 == v \div 91
           t1 == Append(t, c0)
           t2 == Append(t1, c1)
           d1 == [queue |-> d.queue, nbits |-> d.nbits, val |-> c0, out |-> d.out]
<1>1. v \in Value /\ w \in {13, 14}
  BY GroupFits
<1>2. c0 \in Char /\ c1 \in Char
  BY <1>1, PairChars
<1>3. PairOf(v) = <<c0, c1>>
  BY DEF PairOf
<1>4. ValueOf(c0, c1) = v /\ GroupBits(v) = w
  <2>1. ValueOf(PairOf(v)[1], PairOf(v)[2]) = v /\ GroupBits(v) = w
    BY GroupRoundTrip
  <2> HIDE DEF c0, c1
  <2> QED BY <1>3, <2>1
<1> HIDE DEF c0, c1
<1>5. t \o PairOf(v) = t2 /\ t1 \in Seq(Char) /\ t2 \in Seq(Char)
  <2>1. t \o <<c0, c1>> = t2
    BY <1>2, OneByOne
  <2>2. t1 \in Seq(Char)
    BY <1>2
  <2> HIDE DEF t1
  <2>3. t2 \in Seq(Char)
    BY <1>2, <2>2
  <2> QED BY <1>3, <2>1, <2>2, <2>3
<1>6. t \in Seq(Symbol) /\ t1 \in Seq(Symbol) /\ c0 \in Symbol /\ c1 \in Symbol
      /\ c0 # Junk /\ c1 # Junk /\ c0 # NoChar
  <2>1. Char \subseteq Symbol
    BY DEF Symbol
  <2>2. t \in Seq(Symbol) /\ t1 \in Seq(Symbol)
    BY <1>5, <2>1, SeqMonotonic
  <2>3. \A c \in Char : c # Junk /\ c # NoChar
    BY DEF Char, Junk, NoChar
  <2> QED BY <1>2, <2>1, <2>2, <2>3
<1>7. d \in DecStates /\ DecodeAll(t1) = DecSymbol(d, c0)
      /\ DecodeAll(t2) = DecSymbol(DecodeAll(t1), c1) /\ DecodeAll(t1) \in DecStates
  BY <1>6, DecodeAllNext
<1>8. DecSymbol(d, c0) = d1
  BY <1>6, <1>7, DecSymbolIs
<1>9. d1.queue = d.queue /\ d1.nbits = d.nbits /\ d1.val = c0 /\ d1.out = d.out
  OBVIOUS
<1> HIDE DEF d1, t1, t2
<1>10. DecSymbol(d1, c1) =
          DecBytes(d1.queue + ValueOf(d1.val, c1) * 2^d1.nbits,
                   d1.nbits + GroupBits(ValueOf(d1.val, c1)), d1.out)
  <2>1. d1 \in DecStates /\ d1.val # NoChar
    BY <1>6, <1>7, <1>8, <1>9
  <2> QED BY <1>6, <2>1, DecSymbolIs
<1>11. DecodeAll(t2) = DecBytes(d.queue + v * 2^d.nbits, d.nbits + w, d.out)
  BY <1>4, <1>7, <1>8, <1>9, <1>10, Zenon
<1>12. DecodeAll(t1).out = d.out
  BY <1>7, <1>8, <1>9
<1> QED BY <1>1, <1>2, <1>5, <1>11, <1>12, Zenon DEF PairReads, c0, c1, t1, t2

\* A byte joins the encoder's queue, above the decoder's.
LEMMA ByteJoined ==
    ASSUME NEW b \in Seq(Byte), NEW x \in Byte, NEW m \in Nat, m <= Len(b),
           NEW ek \in 0 .. 13, NEW eq \in Nat, NEW dk \in 0 .. 7, NEW dq \in Nat,
           8 * (Len(b) - m) = ek + dk, Joined(Ahead(b, m), dq, dk, eq)
    PROVE  Joined(Ahead(Append(b, x), m), dq, dk, eq + x * 2^ek)
<1> DEFINE r == Len(b) - m
           pe == Power(ek)
           pd == Power(dk)
           a == Ahead(b, m)
<1>1. r \in 0 .. 2 /\ Len(b) = m + r /\ 8 * r = dk + ek
  OBVIOUS
<1>2. x \in Nat
  BY DEF Byte
<1> HIDE DEF r
<1>3. a \in Nat /\ Ahead(Append(b, x), m) = a + x * Power(8 * r)
  BY <1>1, RestMore
<1>4. pd * pe = Power(8 * r) /\ pd \in Nat /\ pe \in Nat
  <2>1. dk \in 0 .. 20 /\ ek \in 0 .. 20 /\ ek \in 0 .. 14
    OBVIOUS
  <2>2. Power(dk) * Power(ek) = Power(dk + ek) /\ Power(dk) \in Nat /\ Power(ek) \in Nat
    BY <2>1, AddPowers, Doubling, Zenon
  <2> QED BY <1>1, <2>2, Zenon
<1>5. a = dq + eq * pd /\ 2^ek = pe
  BY Zenon DEF Joined, Power
<1> HIDE DEF a, pd, pe
<1>6. (eq + x * pe) * pd = eq * pd + x * (pd * pe) /\ eq * pd \in Nat
      /\ x * (pd * pe) \in Nat
  BY ONLY <1>2, <1>4, eq \in Nat
<1>7. dq + (eq * pd + x * (pd * pe)) = (dq + eq * pd) + x * (pd * pe)
  BY ONLY <1>6, dq \in Nat
<1>8. a + x * Power(8 * r) = dq + (eq + x * pe) * pd
  BY <1>4, <1>5, <1>6, <1>7
<1> QED BY <1>3, <1>5, <1>8 DEF Joined, pd

\* The bits that are not written, in numbers: ek and dk in the queues when k
\* bytes were given and m written, a group of w, and u bytes.
LEMMA BitsLeft ==
    ASSUME NEW k \in Nat, NEW m \in 0 .. k, NEW ek \in 0 .. 13, NEW dk \in 0 .. 7,
           8 * (k - m) = ek + dk, NEW w \in {13, 14}, NEW u,
           u = IF dk + w >= 16 THEN 2 ELSE 1
    PROVE  /\ k + 1 <= m + 3
           /\ 8 * ((k + 1) - m) = (ek + 8) + dk
           /\ ek + 8 > 13 =>
                /\ dk + w >= 16 => m + 2 <= k + 1
                /\ m + u \in 0 .. k + 1
                /\ 8 * ((k + 1) - (m + u)) = ((ek + 8) - w) + ((dk + w) - 8 * u)
OBVIOUS

\* A byte given to the encoder, and what it writes to the decoder.
LEMMA BehindByte ==
    ASSUME NEW b \in Seq(Byte), NEW x \in Byte, NEW e \in EncStates,
           Behind(e, DecodeAll(e.text), b)
    PROVE  Behind(EncByte(e, x), DecodeAll(EncByte(e, x).text), Append(b, x))
<1> DEFINE c == Append(b, x)
           d == DecodeAll(e.text)
           e2 == EncByte(e, x)
           q == e.queue + x * 2^e.nbits
           w == GroupBits(q)
           v == q % 2^w
<1>1. /\ e.queue \in Nat /\ e.nbits \in 0 .. 13 /\ e.text \in Seq(Char)
      /\ e.queue < 2^e.nbits
  BY DEF EncStates
<1>2. e.text \in Seq(Symbol)
  <2>1. Char \subseteq Symbol
    BY DEF Symbol
  <2> QED BY <1>1, <2>1, SeqMonotonic
<1>3. d \in DecStates
  BY <1>2, DecodeAllNext
<1>4. /\ d.queue \in Nat /\ d.nbits \in 0 .. 7 /\ d.out \in Seq(Byte)
  BY <1>3 DEF DecStates
<1>5. PICK m \in 0 .. Len(b) :
        /\ d.val = NoChar /\ d.out = SubSeq(b, 1, m)
        /\ 8 * (Len(b) - m) = e.nbits + d.nbits
        /\ Joined(Ahead(b, m), d.queue, d.nbits, e.queue)
  BY DEF Behind
<1>6. /\ c \in Seq(Byte) /\ Len(c) = Len(b) + 1 /\ m \in Nat /\ m <= Len(b)
      /\ m < Len(c)
  OBVIOUS
<1>7. SubSeq(c, 1, m) = SubSeq(b, 1, m)
  <2>1. c = b \o <<x>> /\ <<x>> \in Seq(Byte)
    BY AppendIsConcat
  <2> HIDE DEF c
  <2> QED BY <1>6, <2>1, PrefixOfMore
<1>8. /\ q \in Nat
      /\ e2 = IF e.nbits + 8 <= 13
              THEN [queue |-> q, nbits |-> e.nbits + 8, text |-> e.text]
              ELSE EncGroup(q, e.nbits + 8, e.text, w)
  BY EncByteIs
<1>9. Joined(Ahead(c, m), d.queue, d.nbits, q)
  BY <1>1, <1>4, <1>5, <1>6, ByteJoined
<1> DEFINE ek == e.nbits
           dk == d.nbits
           N == Len(b)
<1>13. ek \in 0 .. 13 /\ dk \in 0 .. 7 /\ N \in Nat /\ m \in 0 .. N /\ 8 * (N - m) = ek + dk
  BY <1>1, <1>4, <1>5
<1>10. 8 * (Len(c) - m) = (e.nbits + 8) + d.nbits /\ Len(c) <= m + 3 /\ Len(b) \in Nat
  <2>1. Len(c) = N + 1
    BY <1>6
  <2> HIDE DEF ek, dk, N
  <2>2. PICK u : u = IF dk + 13 >= 16 THEN 2 ELSE 1
    OBVIOUS
  <2>3. 13 \in {13, 14}
    OBVIOUS
  <2>4. 8 * ((N + 1) - m) = (ek + 8) + dk /\ N + 1 <= m + 3
    BY <1>13, <2>2, <2>3, BitsLeft
  <2> QED BY <1>13, <2>1, <2>4 DEF ek, dk, N
<1> HIDE DEF c, d, q, w, e2
<1>11. CASE e.nbits + 8 <= 13
  <2> DEFINE f == [queue |-> q, nbits |-> e.nbits + 8, text |-> e.text]
  <2>1. e2 = f /\ f.queue = q /\ f.nbits = e.nbits + 8 /\ f.text = e.text
    BY <1>8, <1>11
  <2> HIDE DEF f
  <2>2. DecodeAll(e2.text) = d
    BY <2>1 DEF d
  <2>3. m \in 0 .. Len(c)
    BY <1>6, <1>10
  <2>4. /\ d.val = NoChar /\ d.out = SubSeq(c, 1, m)
        /\ 8 * (Len(c) - m) = e2.nbits + d.nbits
        /\ Joined(Ahead(c, m), d.queue, d.nbits, e2.queue)
    BY <1>5, <1>7, <1>9, <1>10, <2>1
  <2>5. Behind(e2, d, c)
    BY <2>3, <2>4 DEF Behind
  <2> QED BY <2>2, <2>5 DEF c, e2
<1>12. CASE ~ (e.nbits + 8 <= 13)
  <2> HIDE DEF v
  <2>1. /\ v \in Value /\ w \in {13, 14}
        /\ DecodeAll(e.text \o PairOf(v)) =
              DecBytes(d.queue + v * 2^d.nbits, d.nbits + w, d.out)
    <3>1. d = DecodeAll(e.text) /\ w = GroupBits(q) /\ v = q % 2^w
      BY DEF d, w, v
    <3>2. e.text \in Seq(Char) /\ q \in Nat /\ d.val = NoChar
      BY <1>1, <1>5, <1>8
    <3>3. PairReads(e.text, d, w, v)
      <4> DEFINE t == e.text
      <4>1. t \in Seq(Char) /\ d = DecodeAll(t)
        BY <3>1, <3>2
      <4> HIDE DEF t
      <4>2. PairReads(t, d, w, v)
        BY ONLY <3>1, <3>2, <4>1, PairDecoded, Zenon
      <4> QED BY <4>2 DEF t
    <3> QED BY <3>3 DEF PairReads
  <2> DEFINE f == [queue |-> q \div 2^w, nbits |-> (e.nbits + 8) - w,
                   text |-> e.text \o PairOf(v)]
  <2>2. e2 = f /\ f.queue = q \div 2^w /\ f.nbits = (e.nbits + 8) - w
        /\ f.text = e.text \o PairOf(v)
    <3>1. e2 = EncGroup(q, e.nbits + 8, e.text, w)
      BY <1>8, <1>12
    <3>2. EncGroup(q, e.nbits + 8, e.text, w) = f
      BY Zenon DEF EncGroup, v
    <3> QED BY <3>1, <3>2
  <2> HIDE DEF f
  <2> DEFINE d2 == DecBytes(d.queue + v * 2^d.nbits, d.nbits + w, SubSeq(c, 1, m))
             u == IF d.nbits + w >= 16 THEN 2 ELSE 1
  <2>3. DecodeAll(e2.text) = d2
    BY <1>5, <1>7, <2>1, <2>2, Zenon
  <2>4. /\ d.nbits + w >= 16 => m + 2 <= Len(c)
        /\ m + u \in 0 .. Len(c)
        /\ 8 * (Len(c) - (m + u)) = ((e.nbits + 8) - w) + ((d.nbits + w) - 8 * u)
    <3>1. Len(c) = N + 1 /\ u = IF dk + w >= 16 THEN 2 ELSE 1
      BY <1>6
    <3>2. ek + 8 > 13
      BY <1>13, <1>12
    <3> HIDE DEF ek, dk, N, u
    <3>3. /\ dk + w >= 16 => m + 2 <= N + 1
          /\ m + u \in 0 .. N + 1
          /\ 8 * ((N + 1) - (m + u)) = ((ek + 8) - w) + ((dk + w) - 8 * u)
      <4>1. w \in {13, 14}
        BY <2>1
      <4>2. u = IF dk + w >= 16 THEN 2 ELSE 1
        BY <3>1
      <4> QED BY ONLY <1>13, <4>1, <4>2, <3>2
    <3> QED BY <3>1, <3>3, Zenon DEF ek, dk
  <2>5. /\ d2.val = NoChar /\ d2.out = SubSeq(c, 1, m + u)
        /\ d2.nbits = (d.nbits + w) - 8 * u
        /\ Joined(Ahead(c, m + u), d2.queue, d2.nbits, q \div 2^w)
    BY <1>4, <1>6, <1>8, <1>9, <1>10, <2>4, GroupDecoded, Zenon DEF w, v
  <2> HIDE DEF d2
  <2>6. m + u \in 0 .. Len(c) /\ 8 * (Len(c) - (m + u)) = e2.nbits + d2.nbits
    BY <2>2, <2>4, <2>5, Zenon
  <2> HIDE DEF u
  <2>7. Behind(e2, d2, c)
    BY <2>2, <2>5, <2>6, Zenon DEF Behind
  <2> QED BY <2>3, <2>7 DEF c, e2
<1> QED BY <1>11, <1>12

\* s is how b begins.
Begins(s, b) == \E k \in 0 .. Len(b) : s = SubSeq(b, 1, k)

\* Whatever is cut off the end of the text t, its bytes are the first of b.
Prefixes(t, b) == \A k \in 0 .. Len(t) : Begins(DecodeAll(SubSeq(t, 1, k)).out, b)

LEMMA BeginsMore ==
    ASSUME NEW Sym, NEW s, NEW b \in Seq(Sym), NEW x \in Sym, Begins(s, b)
    PROVE  Begins(s, Append(b, x))
<1>1. PICK k \in 0 .. Len(b) : s = SubSeq(b, 1, k)
  BY DEF Begins
<1>2. k \in Nat /\ k <= Len(b) /\ <<x>> \in Seq(Sym) /\ Append(b, x) = b \o <<x>>
  BY AppendIsConcat
<1>3. s = SubSeq(Append(b, x), 1, k)
  BY <1>1, <1>2, PrefixOfMore
<1>4. k \in 0 .. Len(Append(b, x))
  OBVIOUS
<1> QED BY <1>3, <1>4 DEF Begins

LEMMA PrefixesMore ==
    ASSUME NEW t, NEW b \in Seq(Byte), NEW x \in Byte, Prefixes(t, b)
    PROVE  Prefixes(t, Append(b, x))
<1>1. \A s : Begins(s, b) => Begins(s, Append(b, x))
  BY BeginsMore, Zenon
<1> QED BY <1>1, Zenon DEF Prefixes

\* One character more.
LEMMA PrefixesNext ==
    ASSUME NEW t \in Seq(Char), NEW y \in Char, NEW b, Prefixes(t, b),
           Begins(DecodeAll(Append(t, y)).out, b)
    PROVE  Prefixes(Append(t, y), b)
<1> DEFINE t1 == Append(t, y)
<1>1. t1 = t \o <<y>> /\ <<y>> \in Seq(Char) /\ t1 \in Seq(Char) /\ Len(t1) = Len(t) + 1
  BY AppendIsConcat
<1>2. SubSeq(t1, 1, Len(t1)) = t1
  BY <1>1, WholePrefix
<1>3. Begins(DecodeAll(t1).out, b)
  OBVIOUS
<1> HIDE DEF t1
<1>4. \A k \in 0 .. Len(t) : SubSeq(t1, 1, k) = SubSeq(t, 1, k)
  <2> TAKE k \in 0 .. Len(t)
  <2> QED BY <1>1, PrefixOfMore
<1>5. ASSUME NEW k \in 0 .. Len(t1)
      PROVE  Begins(DecodeAll(SubSeq(t1, 1, k)).out, b)
  <2>1. CASE k \in 0 .. Len(t)
    BY <2>1, <1>4 DEF Prefixes
  <2>2. CASE k = Len(t1)
    BY <2>2, <1>2, <1>3
  <2> QED BY <1>1, <2>1, <2>2
<1>6. Prefixes(t1, b)
  BY <1>5 DEF Prefixes
<1> QED BY <1>6 DEF t1

\* A pair more: the decoder writes nothing between its characters.
LEMMA PrefixesPair ==
    ASSUME NEW t \in Seq(Char), NEW d, NEW w, NEW v, NEW b, PairReads(t, d, w, v),
           Prefixes(t, b), Begins(d.out, b), Begins(DecodeAll(t \o PairOf(v)).out, b)
    PROVE  Prefixes(t \o PairOf(v), b)
<1> DEFINE c0 == v % 91
           c1 == v \div 91
<1>1. /\ c0 \in Char /\ c1 \in Char
      /\ t \o PairOf(v) = Append(Append(t, c0), c1)
      /\ DecodeAll(Append(t, c0)).out = d.out
  BY DEF PairReads
<1> HIDE DEF c0, c1
<1>2. Prefixes(Append(t, c0), b)
  BY <1>1, PrefixesNext, Zenon
<1> DEFINE t1 == Append(t, c0)
<1>3. t1 \in Seq(Char) /\ Prefixes(t1, b) /\ t \o PairOf(v) = Append(t1, c1)
  BY <1>1, <1>2
<1> HIDE DEF t1
<1> QED BY <1>1, <1>3, PrefixesNext, Zenon

LEMMA BehindBegins ==
    ASSUME NEW e, NEW d, NEW b, Behind(e, d, b)
    PROVE  Begins(d.out, b) /\ d.val = NoChar
BY DEF Behind, Begins

\* A byte given to the encoder: what it writes begins as it should.
LEMMA PrefixesByte ==
    ASSUME NEW b \in Seq(Byte), NEW x \in Byte, NEW e \in EncStates,
           Behind(e, DecodeAll(e.text), b), Prefixes(e.text, b)
    PROVE  Prefixes(EncByte(e, x).text, Append(b, x))
<1> DEFINE c == Append(b, x)
           t == e.text
           d == DecodeAll(t)
           e2 == EncByte(e, x)
           q == e.queue + x * 2^e.nbits
           w == GroupBits(q)
           v == q % 2^w
<1>1. t \in Seq(Char)
  BY DEF EncStates
<1>2. /\ q \in Nat
      /\ e2 = IF e.nbits + 8 <= 13
              THEN [queue |-> q, nbits |-> e.nbits + 8, text |-> e.text]
              ELSE EncGroup(q, e.nbits + 8, e.text, w)
  BY EncByteIs
<1>3. d.val = NoChar /\ Begins(d.out, b) /\ Begins(d.out, c)
  BY BehindBegins, BeginsMore
<1>4. Prefixes(t, c)
  BY PrefixesMore
<1>5. Behind(e2, DecodeAll(e2.text), c)
  BY BehindByte
<1> HIDE DEF c, q, e2
<1>6. CASE e.nbits + 8 <= 13
  <2>1. e2.text = t
    BY <1>2, <1>6
  <2> QED BY <1>4, <2>1 DEF c, e2
<1>7. CASE ~ (e.nbits + 8 <= 13)
  <2>1. e2 = EncGroup(q, e.nbits + 8, e.text, w)
    BY <1>2, <1>7
  <2>2. e2.text = t \o PairOf(v)
    BY <2>1 DEF EncGroup
  <2>3. d = DecodeAll(t) /\ w = GroupBits(q) /\ v = q % 2^w
    OBVIOUS
  <2> HIDE DEF w, v, d, t
  <2>4. PairReads(t, d, w, v)
    BY ONLY <1>1, <1>2, <1>3, <2>3, PairDecoded, Zenon
  <2>5. Begins(DecodeAll(e2.text).out, c)
    BY <1>5, BehindBegins
  <2>6. Prefixes(t \o PairOf(v), c)
    BY <1>1, <1>3, <1>4, <2>2, <2>4, <2>5, PrefixesPair, Zenon
  <2> QED BY <2>2, <2>6, Zenon DEF c, e2
<1> QED BY <1>6, <1>7

\* The text of the reference encoder and the bytes of the reference decoder.
LEMMA EncodeBehind ==
    ASSUME NEW b \in Seq(Byte)
    PROVE  /\ Behind(EncodeAll(b), DecodeAll(EncodeAll(b).text), b)
           /\ Prefixes(EncodeAll(b).text, b)
<1> DEFINE S == {x \in Seq(Byte) :
                    /\ Behind(EncodeAll(x), DecodeAll(EncodeAll(x).text), x)
                    /\ Prefixes(EncodeAll(x).text, x)}
<1>1. << >> \in S
  <2>1. /\ EncodeAll(<< >>) = EncStart /\ EncStart.text = << >> /\ EncStart.nbits = 0
        /\ EncStart.queue = 0 /\ DecodeAll(<< >>) = DecStart /\ DecStart.out = << >>
        /\ DecStart.queue = 0 /\ DecStart.nbits = 0 /\ DecStart.val = NoChar
    BY EncodeAllNext, DecodeAllNext DEF EncStart, DecStart
  <2>2. << >> \in Seq(Byte) /\ Len(<< >>) = 0 /\ SubSeq(<< >>, 1, 0) = << >>
    OBVIOUS
  <2>3. Joined(Ahead(<< >>, 0), 0, 0, 0)
    <3>1. /\ ByteAt(<< >>, 0 + 1) = 0 /\ ByteAt(<< >>, 0 + 2) = 0
          /\ ByteAt(<< >>, 0 + 3) = 0
      BY <2>2 DEF ByteAt
    <3>2. Ahead(<< >>, 0) = 0
      BY <3>1, SMT DEF Ahead
    <3>3. Power(0) = 1
      BY Powers DEF Power
    <3> QED BY <3>2, <3>3, SMT DEF Joined
  <2>4. Behind(EncStart, DecStart, << >>)
    <3>1. 0 \in 0 .. Len(<< >>) /\ 8 * (Len(<< >>) - 0) = 0 + 0
      BY <2>2
    <3> QED BY <2>1, <2>2, <2>3, <3>1 DEF Behind
  <2>5. Prefixes(<< >>, << >>)
    <3>1. Begins(<< >>, << >>)
      BY <2>2 DEF Begins
    <3>2. \A k \in 0 .. Len(<< >>) : SubSeq(<< >>, 1, k) = << >>
      OBVIOUS
    <3> QED BY <2>1, <3>1, <3>2 DEF Prefixes
  <2> QED BY <2>1, <2>2, <2>4, <2>5
<1>2. ASSUME NEW x \in S, NEW y \in Byte PROVE Append(x, y) \in S
  <2> DEFINE e == EncodeAll(x)
  <2>1. e \in EncStates /\ EncodeAll(Append(x, y)) = EncByte(e, y)
    BY EncodeAllNext
  <2>2. x \in Seq(Byte) /\ Behind(e, DecodeAll(e.text), x) /\ Prefixes(e.text, x)
    OBVIOUS
  <2> HIDE DEF e
  <2>3. Append(x, y) \in Seq(Byte)
    BY <2>2
  <2>4. /\ Behind(EncByte(e, y), DecodeAll(EncByte(e, y).text), Append(x, y))
        /\ Prefixes(EncByte(e, y).text, Append(x, y))
    BY <2>1, <2>2, BehindByte, PrefixesByte, Zenon
  <2> QED BY <2>1, <2>3, <2>4
<1>3. S \in SUBSET Seq(Byte)
  OBVIOUS
<1> HIDE DEF S
<1>4. Seq(Byte) = S
  BY <1>1, <1>2, <1>3, SeqInduction, Zenon
<1> QED BY <1>4 DEF S

\* The bits at the end: those of one or two bytes, or none.
LEMMA LastBits ==
    ASSUME NEW k \in Nat, NEW m \in 0 .. k, NEW ek \in 0 .. 13, NEW dk \in 0 .. 7,
           8 * (k - m) = ek + dk, NEW w \in {13, 14}, NEW u,
           u = IF dk + w >= 16 THEN 2 ELSE 1
    PROVE  /\ ek = 0 => m = k
           /\ ek # 0 => m < k /\ k <= m + 3
           /\ ek # 0 /\ ek <= 7 => k = m + 1
           /\ ek > 6 => m + u = k /\ (dk + w >= 16 => m + 2 <= k)
OBVIOUS

LEMMA ShortQueue ==
    ASSUME NEW k \in 0 .. 13, NEW q \in Nat, q < 2^k
    PROVE  /\ k = 0 => q = 0
           /\ q > 90 => k > 6
           /\ q % 2^GroupBits(q) = q
           /\ q <= 90 => q \in Char
<1>1. \/ k = 0 \/ k = 1 \/ k = 2 \/ k = 3 \/ k = 4 \/ k = 5 \/ k = 6
      \/ k = 7 \/ k = 8 \/ k = 9 \/ k = 10 \/ k = 11 \/ k = 12 \/ k = 13
  OBVIOUS
<1>2. Power(k) \in Nat /\ (k <= 6 => Power(k) <= 64) /\ Power(k) <= 8192
      /\ (k = 0 => Power(k) = 1) /\ q < Power(k)
  <2>1. Power(0) = 1 /\ Power(1) = 2 /\ Power(2) = 4 /\ Power(3) = 8
        /\ Power(4) = 16 /\ Power(5) = 32 /\ Power(6) = 64
        /\ Power(7) = 128 /\ Power(8) = 256 /\ Power(9) = 512
        /\ Power(10) = 1024 /\ Power(11) = 2048 /\ Power(12) = 4096
        /\ Power(13) = 8192
    BY Powers, SMT DEF Power
  <2>2. q < Power(k)
    BY DEF Power
  <2> QED BY <1>1, <2>1, <2>2
<1>3. q < 8192
  BY <1>2
<1>4. q % 8192 = q /\ q % 16384 = q
  BY <1>3
<1>5. q % 2^GroupBits(q) = q
  <2>1. CASE GroupBits(q) = 13
    BY <2>1, <1>4, Powers
  <2>2. CASE GroupBits(q) = 14
    BY <2>2, <1>4, Powers
  <2> QED BY <2>1, <2>2, GroupFits
<1>6. (k = 0 => q = 0) /\ (q > 90 => k > 6)
  BY <1>2
<1>7. q <= 90 => q \in Char
  BY DEF Char
<1> QED BY <1>5, <1>6, <1>7

\* The last characters are decoded to the last bytes.
LEMMA EndDecoded ==
    ASSUME NEW b \in Seq(Byte), NEW e \in EncStates,
           Behind(e, DecodeAll(e.text), b), Prefixes(e.text, b)
    PROVE  /\ EncEnd(e) \in Seq(Char)
           /\ Prefixes(EncEnd(e), b)
           /\ DecEnd(DecodeAll(EncEnd(e))) = b
<1> DEFINE t == e.text
           d == DecodeAll(t)
           q == e.queue
           w == GroupBits(q)
           v == q % 2^w
           u == IF d.nbits + w >= 16 THEN 2 ELSE 1
           N == Len(b)
<1>1. q \in Nat /\ e.nbits \in 0 .. 13 /\ t \in Seq(Char) /\ q < 2^e.nbits
  BY DEF EncStates
<1>2. t \in Seq(Symbol)
  <2>1. Char \subseteq Symbol
    BY DEF Symbol
  <2> QED BY <1>1, <2>1, SeqMonotonic
<1>3. d \in DecStates
  BY <1>2, DecodeAllNext
<1>4. d.queue \in Nat /\ d.nbits \in 0 .. 7 /\ d.out \in Seq(Byte)
  BY <1>3 DEF DecStates
<1>5. PICK m \in 0 .. N :
        /\ d.val = NoChar /\ d.out = SubSeq(b, 1, m)
        /\ 8 * (N - m) = e.nbits + d.nbits
        /\ Joined(Ahead(b, m), d.queue, d.nbits, q)
  BY DEF Behind
<1>6. w \in {13, 14} /\ v = q
  BY <1>1, ShortQueue, GroupFits
<1>7. N \in Nat /\ m \in Nat /\ SubSeq(b, 1, N) = b /\ Begins(d.out, b) /\ Begins(b, b)
  <2>1. N \in Nat /\ m \in Nat /\ SubSeq(b, 1, N) = b
    BY WholePrefix
  <2>2. Begins(d.out, b)
    BY <1>5 DEF Begins
  <2>3. Begins(b, b)
    <3>1. N \in 0 .. Len(b) /\ b = SubSeq(b, 1, N)
      BY <2>1
    <3> QED BY <3>1 DEF Begins
  <2> QED BY <2>1, <2>2, <2>3
<1>8. /\ e.nbits = 0 => m = N
      /\ e.nbits # 0 => m < N /\ N <= m + 3
      /\ e.nbits # 0 /\ e.nbits <= 7 => N = m + 1
      /\ e.nbits > 6 => m + u = N /\ (d.nbits + w >= 16 => m + 2 <= N)
  <2> DEFINE ek == e.nbits
             dk == d.nbits
  <2>1. ek \in 0 .. 13 /\ dk \in 0 .. 7 /\ 8 * (N - m) = ek + dk
        /\ u = IF dk + w >= 16 THEN 2 ELSE 1
    BY <1>1, <1>4, <1>5
  <2> HIDE DEF ek, dk, u, N, w
  <2>2. /\ ek = 0 => m = N
        /\ ek # 0 => m < N /\ N <= m + 3
        /\ ek # 0 /\ ek <= 7 => N = m + 1
        /\ ek > 6 => m + u = N /\ (dk + w >= 16 => m + 2 <= N)
    BY ONLY <1>6, <1>7, <2>1, m \in 0 .. N
  <2> QED BY <2>2, Zenon DEF ek, dk
<1>9. Prefixes(t, b)
  OBVIOUS
<1>10. t = e.text /\ d = DecodeAll(t) /\ w = GroupBits(q) /\ v = q % 2^w /\ q = e.queue
  OBVIOUS
<1> HIDE DEF t, d, q, w, v, u, N
<1>11. CASE e.nbits = 0
  <2>1. EncEnd(e) = t
    <3>1. q = 0
      BY <1>1, <1>11, ShortQueue, Zenon
    <3>2. ~ (e.nbits > 7 \/ q > 90)
      BY <1>11, <3>1
    <3> QED BY <1>10, <1>11, <3>2 DEF EncEnd
  <2>2. DecEnd(d) = b
    BY <1>5, <1>7, <1>8, <1>11 DEF DecEnd
  <2> QED BY <1>1, <1>9, <1>10, <2>1, <2>2, Zenon
<1>12. CASE e.nbits # 0 /\ ~ (e.nbits > 7 \/ q > 90)
  <2>1. EncEnd(e) = Append(t, q)
    BY <1>10, <1>12 DEF EncEnd
  <2>2. q \in Char /\ q \in Symbol /\ q # Junk /\ q # NoChar
    <3>1. q \in Char
      BY <1>1, <1>12, ShortQueue
    <3> QED BY <3>1 DEF Symbol, Char, Junk, NoChar
  <2> DEFINE d1 == [queue |-> d.queue, nbits |-> d.nbits, val |-> q, out |-> d.out]
  <2>3. DecodeAll(Append(t, q)) = d1
    <3>1. DecodeAll(Append(t, q)) = DecSymbol(d, q)
      BY <1>2, <1>10, <2>2, DecodeAllNext, Zenon
    <3>2. DecSymbol(d, q) = d1
      BY <1>3, <1>5, <2>2, DecSymbolIs
    <3> QED BY <3>1, <3>2
  <2>4. /\ d1.queue = d.queue /\ d1.nbits = d.nbits /\ d1.val = q /\ d1.out = d.out
    OBVIOUS
  <2> HIDE DEF d1
  <2>5. N = m + 1 /\ m < N /\ N <= m + 3
    BY <1>1, <1>7, <1>8, <1>12
  <2>6. d.queue + q * 2^d.nbits = Ahead(b, m)
    BY <1>5, Zenon DEF Joined, Power
  <2>7. (d.queue + q * 2^d.nbits) % 2^8 = b[m + 1]
    <3>1. Ahead(b, m) % 256 = b[m + 1]
      BY <1>7, <2>5, RestNext DEF N
    <3>2. 2^8 = 256
      BY Powers
    <3> QED BY <2>6, <3>1, <3>2, Zenon
  <2>8. DecEnd(d1) = Append(d.out, b[m + 1])
    BY <2>2, <2>4, <2>7, Zenon DEF DecEnd
  <2>9. Append(d.out, b[m + 1]) = b
    <3>1. SubSeq(b, 1, m + 1) = Append(SubSeq(b, 1, m), b[m + 1])
      BY <1>7, <2>5, NextPrefix DEF N
    <3> QED BY <1>5, <1>7, <2>5, <3>1
  <2>10. Append(t, q) \in Seq(Char)
    BY <1>1, <2>2
  <2>11. Prefixes(Append(t, q), b)
    BY <1>1, <1>7, <1>9, <2>2, <2>3, <2>4, PrefixesNext, Zenon
  <2> QED BY <2>1, <2>3, <2>8, <2>9, <2>10, <2>11, Zenon
<1>13. CASE e.nbits # 0 /\ (e.nbits > 7 \/ q > 90)
  <2>1. EncEnd(e) = t \o PairOf(q)
    BY <1>10, <1>13 DEF EncEnd
  <2>2. PairReads(t, d, w, v)
    BY ONLY <1>1, <1>5, <1>10, PairDecoded, Zenon
  <2> DEFINE d2 == DecBytes(d.queue + v * 2^d.nbits, d.nbits + w, SubSeq(b, 1, m))
  <2>3. DecodeAll(t \o PairOf(q)) = d2 /\ t \o PairOf(q) \in Seq(Char)
    BY <1>5, <1>6, <2>2, Zenon DEF PairReads
  <2>4. e.nbits > 6
    <3>1. q > 90 => e.nbits > 6
      BY <1>1, ShortQueue, Zenon
    <3> QED BY <1>1, <1>13, <3>1
  <2>5. d2.val = NoChar /\ d2.out = SubSeq(b, 1, m + u)
    <3>1. m < Len(b) /\ Len(b) <= m + 3
      BY <1>8, <1>13 DEF N
    <3>2. d.nbits + w >= 16 => m + 2 <= Len(b)
      BY <1>8, <2>4 DEF N
    <3>3. q \in Nat /\ m \in Nat
      BY <1>1, <1>7
    <3>4. d.queue \in Nat /\ d.nbits \in 0 .. 7
          /\ Joined(Ahead(b, m), d.queue, d.nbits, q)
      BY <1>4, <1>5
    <3>5. /\ d2.val = NoChar /\ d2.out = SubSeq(b, 1, m + u)
          /\ d2.nbits = (d.nbits + w) - 8 * u
          /\ Joined(Ahead(b, m + u), d2.queue, d2.nbits, q \div 2^w)
      BY <3>1, <3>2, <3>3, <3>4, GroupDecoded, Zenon DEF u, w, v
    <3> QED BY <3>5
  <2> HIDE DEF d2
  <2>6. d2.out = b
    BY <1>7, <1>8, <2>4, <2>5, Zenon
  <2>7. DecEnd(d2) = b
    BY <2>5, <2>6, Zenon DEF DecEnd
  <2>8. Prefixes(t \o PairOf(q), b)
    <3>1. PairOf(v) = PairOf(q) /\ Begins(DecodeAll(t \o PairOf(v)).out, b)
      BY <1>6, <1>7, <2>3, <2>6
    <3> QED BY <1>1, <1>7, <1>9, <2>2, <3>1, PrefixesPair, Zenon
  <2> QED BY <2>1, <2>3, <2>7, <2>8, Zenon
<1> QED BY <1>11, <1>12, <1>13

\* What the encoder writes for b, and that the decoder makes b of it.
THEOREM ReferenceRoundTrip ==
    ASSUME NEW b \in Seq(Byte)
    PROVE  LET t == EncEnd(EncodeAll(b))
           IN  t \in Seq(Char) /\ DecEnd(DecodeAll(t)) = b /\ Prefixes(t, b)
<1> DEFINE e == EncodeAll(b)
<1>1. e \in EncStates
  BY EncodeAllNext
<1>2. Behind(e, DecodeAll(e.text), b) /\ Prefixes(e.text, b)
  BY EncodeBehind
<1> HIDE DEF e
<1>3. EncEnd(e) \in Seq(Char) /\ DecEnd(DecodeAll(EncEnd(e))) = b /\ Prefixes(EncEnd(e), b)
  BY <1>1, <1>2, EndDecoded, Zenon
<1> QED BY <1>3 DEF e

\* A text that was never finished lacks the last bytes, and the decoder makes
\* no other of it.
THEOREM UnfinishedRoundTrip ==
    ASSUME NEW b \in Seq(Byte)
    PROVE  Begins(DecEnd(DecodeAll(EncodeAll(b).text)), b)
<1> DEFINE d == DecodeAll(EncodeAll(b).text)
<1>1. Behind(EncodeAll(b), d, b)
  BY EncodeBehind
<1> HIDE DEF d
<1>2. d.val = NoChar /\ Begins(d.out, b)
  BY <1>1, Zenon DEF Behind, Begins
<1> QED BY <1>2, Zenon DEF d, DecEnd

\* Junk does not matter to the decoder.
LEMMA JunkIgnored ==
    ASSUME NEW g \in Seq(Symbol)
    PROVE  DecodeAll(g) = DecodeAll(Characters(g))
<1> DEFINE S == {x \in Seq(Symbol) : DecodeAll(x) = DecodeAll(Characters(x))}
<1>1. << >> \in S
  BY CharactersNext
<1>2. ASSUME NEW x \in S, NEW y \in Symbol PROVE Append(x, y) \in S
  <2> DEFINE x1 == Append(x, y)
             k == Characters(x)
  <2>1. x \in Seq(Symbol) /\ x1 \in Seq(Symbol) /\ DecodeAll(x) = DecodeAll(k)
    OBVIOUS
  <2>2. k \in Seq(Char) /\ Characters(x1) = Keep(k, y)
    BY CharactersNext
  <2>3. k \in Seq(Symbol)
    <3>1. Char \subseteq Symbol
      BY DEF Symbol
    <3> QED BY <2>2, <3>1, SeqMonotonic
  <2>4. DecodeAll(x) \in DecStates /\ DecodeAll(x1) = DecSymbol(DecodeAll(x), y)
        /\ DecodeAll(Append(k, y)) = DecSymbol(DecodeAll(k), y)
    BY <2>1, <2>3, DecodeAllNext
  <2> HIDE DEF x1, k
  <2>5. DecodeAll(x1) = DecodeAll(Keep(k, y))
    <3>1. CASE y = Junk
      <4>1. DecSymbol(DecodeAll(x), y) = DecodeAll(x)
        BY <2>4, <3>1, DecSymbolIs
      <4> QED BY <2>1, <2>4, <3>1, <4>1 DEF Keep
    <3>2. CASE y # Junk
      BY <2>1, <2>4, <3>2 DEF Keep
    <3> QED BY <3>1, <3>2
  <2>6. x1 \in S
    BY <2>1, <2>2, <2>5
  <2> QED BY <2>6 DEF x1
<1>3. S \in SUBSET Seq(Symbol)
  OBVIOUS
<1> HIDE DEF S
<1>4. Seq(Symbol) = S
  BY <1>1, <1>2, <1>3, SeqInduction, Zenon
<1> QED BY <1>4 DEF S

\* The characters of two pieces.
LEMMA CharactersJoin ==
    ASSUME NEW g \in Seq(Symbol), NEW p \in Seq(Symbol)
    PROVE  Characters(g \o p) = Characters(g) \o Characters(p)
<1> DEFINE kg == Characters(g)
           S == {x \in Seq(Symbol) : Characters(g \o x) = kg \o Characters(x)}
<1>0. kg \in Seq(Char) /\ Characters(<< >>) = << >>
  BY CharactersNext
<1>1. << >> \in S
  <2>1. g \o << >> = g /\ kg \o << >> = kg
    BY <1>0
  <2> QED BY <1>0, <2>1
<1>2. ASSUME NEW x \in S, NEW y \in Symbol PROVE Append(x, y) \in S
  <2> DEFINE x1 == Append(x, y)
             k == Characters(x)
             gx == g \o x
  <2>1. x \in Seq(Symbol) /\ x1 \in Seq(Symbol) /\ gx \in Seq(Symbol)
        /\ Characters(gx) = kg \o k
    OBVIOUS
  <2>2. g \o x1 = Append(gx, y)
    OBVIOUS
  <2>3. k \in Seq(Char) /\ Characters(x1) = Keep(k, y)
        /\ Characters(Append(gx, y)) = Keep(Characters(gx), y)
    BY <2>1, CharactersNext
  <2> HIDE DEF x1, k, gx, kg
  <2>4. Keep(kg \o k, y) = kg \o Keep(k, y)
    <3>1. CASE y = Junk
      BY <3>1 DEF Keep
    <3>2. CASE y # Junk
      <4>1. Append(kg \o k, y) = kg \o Append(k, y)
        <5>1. Char \subseteq Symbol
          BY DEF Symbol
        <5>2. kg \in Seq(Symbol) /\ k \in Seq(Symbol)
          BY <1>0, <2>3, <5>1, SeqMonotonic
        <5> DEFINE Sym == Symbol
        <5>3. kg \in Seq(Sym) /\ k \in Seq(Sym) /\ y \in Sym
          BY <5>2
        <5> HIDE DEF Sym
        <5>4. <<y>> \in Seq(Sym) /\ kg \o k \in Seq(Sym)
          BY <5>3
        <5>5. Append(kg \o k, y) = (kg \o k) \o <<y>> /\ Append(k, y) = k \o <<y>>
          BY <5>3, <5>4, AppendIsConcat
        <5>6. (kg \o k) \o <<y>> = kg \o (k \o <<y>>)
          BY <5>3, <5>4, ConcatAssociative
        <5> QED BY <5>5, <5>6, Zenon
      <4> QED BY <3>2, <4>1 DEF Keep
    <3> QED BY <3>1, <3>2
  <2>5. Characters(g \o x1) = kg \o Characters(x1)
    BY <2>1, <2>2, <2>3, <2>4
  <2>6. x1 \in S
    BY <2>1, <2>5
  <2> QED BY <2>6 DEF x1
<1>3. S \in SUBSET Seq(Symbol)
  OBVIOUS
<1> HIDE DEF S
<1>4. Seq(Symbol) = S
  BY <1>1, <1>2, <1>3, SeqInduction, Zenon
<1> QED BY <1>4 DEF S

\* A text without junk.
LEMMA CharactersOnly ==
    ASSUME NEW s \in Seq(Char)
    PROVE  Characters(s) = s
<1> DEFINE S == {x \in Seq(Char) : Characters(x) = x}
<1>1. << >> \in S
  BY CharactersNext
<1>2. ASSUME NEW x \in S, NEW y \in Char PROVE Append(x, y) \in S
  <2>1. x \in Seq(Char) /\ Characters(x) = x /\ Append(x, y) \in Seq(Char)
    OBVIOUS
  <2>2. x \in Seq(Symbol) /\ y \in Symbol /\ y # Junk
    <3>1. Char \subseteq Symbol /\ y # Junk
      BY DEF Symbol, Char, Junk
    <3> QED BY <2>1, <3>1, SeqMonotonic
  <2>3. Characters(Append(x, y)) = Append(x, y)
    BY <2>1, <2>2, CharactersNext DEF Keep
  <2> QED BY <2>1, <2>3
<1>3. S \in SUBSET Seq(Char)
  OBVIOUS
<1> HIDE DEF S
<1>4. Seq(Char) = S
  BY <1>1, <1>2, <1>3, SeqInduction, Zenon
<1> QED BY <1>4 DEF S

\* A text with junk in it.
LEMMA CharactersWithJunk ==
    ASSUME NEW s \in Seq(Char), NEW j \in 0 .. Len(s)
    PROVE  WithJunk(s, j) \in Seq(Symbol) /\ Characters(WithJunk(s, j)) = s
<1> DEFINE a == SubSeq(s, 1, j)
           z == SubSeq(s, j + 1, Len(s))
           x == a \o <<Junk>>
<1>1. a \in Seq(Char) /\ z \in Seq(Char) /\ a \o z = s
  <2>1. j \in Nat /\ Len(s) \in Nat /\ j <= Len(s) /\ Len(s) <= Len(s)
    OBVIOUS
  <2> DEFINE m == Len(s)
  <2>2. m \in Nat /\ j <= m /\ m <= Len(s) /\ z = SubSeq(s, j + 1, m)
    BY <2>1
  <2> HIDE DEF m, z
  <2>3. a \in Seq(Char) /\ z \in Seq(Char) /\ a \o z = SubSeq(s, 1, m)
    BY <2>1, <2>2, TwoParts
  <2> QED BY <2>3, WholePrefix DEF m
<1>2. WithJunk(s, j) = x \o z
  BY DEF WithJunk
<1> HIDE DEF a, z
<1>3. a \in Seq(Symbol) /\ z \in Seq(Symbol) /\ Junk \in Symbol /\ x = Append(a, Junk)
  <2>1. Char \subseteq Symbol /\ Junk \in Symbol
    BY DEF Symbol
  <2>2. a \in Seq(Symbol) /\ z \in Seq(Symbol)
    BY <1>1, <2>1, SeqMonotonic
  <2> QED BY <2>1, <2>2
<1>4. x \in Seq(Symbol) /\ x \o z \in Seq(Symbol)
  BY <1>3
<1>5. Characters(x) = a
  BY <1>1, <1>3, CharactersNext, CharactersOnly DEF Keep
<1> HIDE DEF x
<1>6. Characters(x \o z) = a \o z
  <2>1. Characters(x \o z) = Characters(x) \o Characters(z)
    BY <1>3, <1>4, CharactersJoin
  <2>2. Characters(z) = z
    BY <1>1, CharactersOnly
  <2> QED BY <1>5, <2>1, <2>2
<1> QED BY <1>1, <1>2, <1>4, <1>6

\* What the decoder has read of a text that begins as t does.
LEMMA PrefixRead ==
    ASSUME NEW g \in Seq(Symbol), NEW k \in 0 .. Len(g),
           NEW t \in Seq(Char), NEW m \in 0 .. Len(t), Characters(g) = SubSeq(t, 1, m)
    PROVE  \E j \in 0 .. Len(t) :
              DecodeAll(SubSeq(g, 1, k)) = DecodeAll(SubSeq(t, 1, j))
<1> DEFINE a == SubSeq(g, 1, k)
           z == SubSeq(g, k + 1, Len(g))
           ca == Characters(a)
           cz == Characters(z)
           j == Len(ca)
<1>1. a \in Seq(Symbol) /\ z \in Seq(Symbol) /\ a \o z = g
  <2>1. k \in Nat /\ Len(g) \in Nat /\ k <= Len(g) /\ Len(g) <= Len(g)
    OBVIOUS
  <2> DEFINE n0 == Len(g)
  <2>2. n0 \in Nat /\ k <= n0 /\ n0 <= Len(g) /\ z = SubSeq(g, k + 1, n0)
    BY <2>1
  <2> HIDE DEF n0, z
  <2>3. a \in Seq(Symbol) /\ z \in Seq(Symbol) /\ a \o z = SubSeq(g, 1, n0)
    BY <2>1, <2>2, TwoParts
  <2> QED BY <2>3, WholePrefix DEF n0
<1> HIDE DEF a, z
<1>2. ca \in Seq(Char) /\ cz \in Seq(Char) /\ Characters(g) = ca \o cz
  <2>1. ca \in Seq(Char) /\ cz \in Seq(Char)
    BY <1>1, CharactersNext
  <2> QED BY <1>1, <2>1, CharactersJoin
<1>3. DecodeAll(a) = DecodeAll(ca)
  BY <1>1, JunkIgnored
<1> HIDE DEF ca, cz
<1>4. j \in Nat /\ j <= m /\ ca = SubSeq(t, 1, j)
  <2>1. m \in Nat /\ m <= Len(t) /\ Len(ca \o cz) = m
    <3>1. m \in Nat /\ m <= Len(t)
      OBVIOUS
    <3>2. Len(SubSeq(t, 1, m)) = m
      BY <3>1
    <3> QED BY <1>2, <3>1, <3>2
  <2>2. j \in Nat /\ j <= m
    BY <1>2, <2>1
  <2>3. ca = SubSeq(ca \o cz, 1, j)
    BY <1>2
  <2>4. SubSeq(SubSeq(t, 1, m), 1, j) = SubSeq(t, 1, j)
    BY <2>1, <2>2
  <2> QED BY <1>2, <2>2, <2>3, <2>4
<1>5. j \in 0 .. Len(t)
  BY <1>4
<1> HIDE DEF j
<1> QED BY <1>3, <1>4, <1>5 DEF a

----------------------------------------------------------------------------
\* The pipe.

\* The decoder has been given the first characters of the text, and is
\* finished when it has all of a finished one.
Linked ==
    /\ Taken <= Len(text)
    /\ Characters(given) = SubSeq(text, 1, Taken)
    /\ dpc = "ended" => pc = "ended" /\ Taken = Len(text)

PipeIInv == EncIInv /\ EncFollows /\ DecIInv /\ DecFollows /\ Linked

LEMMA PipeTypes ==
    ASSUME PipeIInv
    PROVE  /\ bytes \in Seq(Byte) /\ text \in Seq(Char) /\ given \in Seq(Symbol)
           /\ out \in Seq(Byte)
           /\ Characters(given) \in Seq(Char) /\ Taken \in 0 .. Len(text)
           /\ pc \in {"idle", "encode", "ended"} /\ dpc \in {"idle", "decode", "ended"}
<1>1. /\ bytes \in Seq(Byte) /\ text \in Seq(Char) /\ given \in Seq(Symbol)
      /\ out \in Seq(Byte)
      /\ pc \in {"idle", "encode", "ended"} /\ dpc \in {"idle", "decode", "ended"}
  BY DEF PipeIInv, EncIInv, EncTypeOK, DecIInv, DecTypeOK
<1>2. Characters(given) \in Seq(Char)
  BY <1>1, CharactersNext
<1>3. Taken \in 0 .. Len(text)
  BY <1>2 DEF Taken, PipeIInv, Linked
<1> QED BY <1>1, <1>2, <1>3

LEMMA PipeInit == Init => PipeIInv
<1> SUFFICES ASSUME Init PROVE PipeIInv
  OBVIOUS
<1>1. EncIInv /\ EncFollows /\ DecIInv /\ DecFollows
  BY EncInitIInv, EncFollowsInit, DecInitIInv, DecFollowsInit DEF Init
<1>2. given = << >> /\ text = << >> /\ dpc = "idle"
  BY DEF Init, EncInit, DecInit
<1>3. Characters(given) = << >>
  BY <1>2, CharactersNext
<1>4. Taken = 0 /\ Len(text) = 0 /\ SubSeq(text, 1, 0) = << >>
  BY <1>2, <1>3 DEF Taken
<1>5. Linked
  <2>1. Characters(given) = SubSeq(text, 1, Taken)
    BY <1>3, <1>4, Zenon
  <2>2. Taken <= Len(text)
    BY <1>4
  <2> QED BY <1>2, <2>1, <2>2, Zenon DEF Linked
<1> QED BY <1>1, <1>5 DEF PipeIInv

\* The text only grows at its end,
LEMMA TextGrows ==
    ASSUME EncIInv, EncWork
    PROVE  /\ pc # "ended"
           /\ \E x \in Seq(Char) : text' = text \o x
<1>1. /\ text \in Seq(Char) /\ queue \in Nat /\ nbits \in 0 .. 13 /\ queue < 2^nbits
      /\ << >> \in Seq(Char) /\ text \o << >> = text
  BY DEF EncIInv, EncTypeOK, EncQueueBounded
<1>2. CASE UNCHANGED text /\ pc # "ended"
  BY <1>1, <1>2
<1>3. CASE Take
  <2> DEFINE v == Loaded % 2^GroupBits(Loaded)
  <2>1. NextByte /\ text' = text \o PairOf(v)
    BY <1>3 DEF Take
  <2>2. chunk[i + 1] \in Byte
    BY <2>1, ReadByte
  <2>3. Loaded \in Nat
    BY <1>1, <2>2, LoadByte DEF Loaded
  <2>4. v \in Value
    BY <2>3, GroupFits
  <2> HIDE DEF v
  <2>5. PairOf(v) \in Seq(Char)
    BY <2>4, PairChars
  <2>6. pc # "ended"
    BY <2>1 DEF NextByte
  <2> QED BY <2>1, <2>5, <2>6
<1>4. CASE EncFinish
  <2> DEFINE x == SubSeq(PairOf(queue), 1, FinishLen(queue, nbits))
  <2>1. x \in Seq(Char)
    BY <1>1, LastChars
  <2>2. text' = text \o x /\ pc # "ended"
    BY <1>4 DEF EncFinish
  <2> HIDE DEF x
  <2> QED BY <2>1, <2>2
<1>5. (\E c \in Chunks : Encode(c)) \/ Load \/ EncReturn => UNCHANGED text /\ pc # "ended"
  BY DEF Encode, Load, NextByte, EncReturn
<1> QED BY <1>2, <1>3, <1>4, <1>5 DEF EncWork

\* ... so the encoder's steps leave the link alone.
LEMMA EncKeepsLink ==
    ASSUME PipeIInv, EncWork, UNCHANGED decVars
    PROVE  PipeIInv'
<1>1. EncIInv' /\ EncFollows'
  BY EncStepIInv, EncFollowsWork DEF PipeIInv, EncNext
<1>2. DecIInv' /\ DecFollows'
  BY DecStepIInv, DecFollowsNext DEF PipeIInv
<1>3. given' = given /\ dpc' = dpc
  BY DEF decVars
<1>4. PICK x \in Seq(Char) : text' = text \o x
  BY TextGrows DEF PipeIInv
<1>5. dpc # "ended"
  BY TextGrows DEF PipeIInv, Linked
<1>6. Taken' = Taken /\ Characters(given)' = Characters(given)
  BY <1>3 DEF Taken
<1>7. text \in Seq(Char) /\ Taken \in 0 .. Len(text)
  BY PipeTypes
<1> DEFINE k == Taken
<1>8. k \in Nat /\ k <= Len(text) /\ Taken' = k
  BY <1>6, <1>7
<1> HIDE DEF k
<1>9. SubSeq(text', 1, k) = SubSeq(text, 1, k) /\ k <= Len(text')
  BY <1>4, <1>7, <1>8, PrefixOfMore
<1>10. Linked'
  <2>1. Characters(given) = SubSeq(text, 1, k)
    BY DEF k, PipeIInv, Linked
  <2> QED BY <1>3, <1>5, <1>6, <1>8, <1>9, <2>1 DEF Linked
<1> QED BY <1>1, <1>2, <1>10 DEF PipeIInv

\* The symbols that the decoder is given next.
LEMMA DeliverMeans ==
    ASSUME PipeIInv, Deliver
    PROVE  \E c \in Seq(Symbol), k \in 0 .. (Len(text) - Taken) :
              Decode(c) /\ Characters(c) = Piece(k)
<1>1. text \in Seq(Char) /\ Taken \in 0 .. Len(text)
  BY PipeTypes
<1>2. \A k \in 0 .. (Len(text) - Taken) :
         /\ Piece(k) \in Seq(Char) /\ Len(Piece(k)) = k
         /\ Piece(k) \in Seq(Symbol) /\ Characters(Piece(k)) = Piece(k)
  <2> TAKE k \in 0 .. (Len(text) - Taken)
  <2>1. Taken \in Nat /\ Taken + k \in Nat /\ Taken <= Taken + k /\ Taken + k <= Len(text)
        /\ (Taken + k) - Taken = k
    BY <1>1
  <2>2. Piece(k) \in Seq(Char) /\ Len(Piece(k)) = k
    BY <1>1, <2>1, TwoParts DEF Piece
  <2>3. Char \subseteq Symbol
    BY DEF Symbol
  <2> QED BY <2>2, <2>3, SeqMonotonic, CharactersOnly
<1>3. PICK k \in 0 .. (Len(text) - Taken) :
         \/ Decode(Piece(k))
         \/ \E j \in 0 .. k : Decode(WithJunk(Piece(k), j))
  BY DEF Deliver
<1>4. CASE Decode(Piece(k))
  BY <1>2, <1>4
<1>5. CASE \E j \in 0 .. k : Decode(WithJunk(Piece(k), j))
  <2>1. PICK j \in 0 .. k : Decode(WithJunk(Piece(k), j))
    BY <1>5
  <2>2. /\ WithJunk(Piece(k), j) \in Seq(Symbol)
        /\ Characters(WithJunk(Piece(k), j)) = Piece(k)
    BY <1>2, CharactersWithJunk
  <2> QED BY <2>1, <2>2
<1> QED BY <1>3, <1>4, <1>5

LEMMA DeliverKeepsLink ==
    ASSUME PipeIInv, Deliver, UNCHANGED encVars
    PROVE  PipeIInv'
<1>1. EncIInv' /\ EncFollows'
  BY EncStepIInv, EncFollowsWork DEF PipeIInv
<1>2. PICK c \in Seq(Symbol), k \in 0 .. (Len(text) - Taken) :
         Decode(c) /\ Characters(c) = Piece(k)
  BY DeliverMeans
<1>3. DecIInv' /\ DecFollows'
  BY <1>2, DecodeStep, DecFollowsCall DEF PipeIInv
<1>4. given' = given \o c /\ dpc' = "decode" /\ text' = text
  BY <1>2 DEF Decode, encVars
<1>5. given \in Seq(Symbol) /\ text \in Seq(Char) /\ Taken \in 0 .. Len(text)
  BY PipeTypes
<1>6. Characters(given') = Characters(given) \o Piece(k)
  BY <1>2, <1>4, <1>5, CharactersJoin
<1> DEFINE t == Taken
           s == t + k
<1>7. /\ t \in Nat /\ s \in Nat /\ t <= s /\ s <= Len(text)
      /\ Characters(given) = SubSeq(text, 1, t)
      /\ Piece(k) = SubSeq(text, t + 1, s)
  BY <1>5 DEF PipeIInv, Linked, Piece
<1> HIDE DEF t, s
<1>8. Characters(given') = SubSeq(text, 1, s) /\ Len(Characters(given')) = s
  <2>1. SubSeq(text, 1, t) \o SubSeq(text, t + 1, s) = SubSeq(text, 1, s)
    BY <1>5, <1>7, TwoParts
  <2>2. Len(SubSeq(text, 1, s)) = s
    BY <1>5, <1>7
  <2> QED BY <1>6, <1>7, <2>1, <2>2
<1>9. Linked'
  BY <1>4, <1>7, <1>8 DEF Linked, Taken
<1> QED BY <1>1, <1>3, <1>9 DEF PipeIInv

\* The decoder's own steps.
LEMMA DecKeepsLink ==
    ASSUME PipeIInv, UNCHANGED encVars,
           DecRun \/ (pc = "ended" /\ Taken = Len(text) /\ DecFinish)
    PROVE  PipeIInv'
<1>1. EncIInv' /\ EncFollows'
  BY EncStepIInv, EncFollowsWork DEF PipeIInv
<1>2. DecIInv' /\ DecFollows'
  BY DecStepIInv, DecFollowsNext DEF PipeIInv, DecNext
<1>3. text' = text /\ pc' = pc
  BY DEF encVars
<1>4. CASE DecRun
  <2>1. given' = given /\ dpc' # "ended"
    BY <1>4 DEF DecRun, FastPair, SlowJunk, SlowFirst, SlowSecond, SlowSymbol, DecReturn
  <2> QED BY <1>1, <1>2, <1>3, <2>1 DEF PipeIInv, Linked, Taken
<1>5. CASE pc = "ended" /\ Taken = Len(text) /\ DecFinish
  <2>1. given' = given
    BY <1>5 DEF DecFinish
  <2> QED BY <1>1, <1>2, <1>3, <1>5, <2>1 DEF PipeIInv, Linked, Taken
<1> QED BY <1>4, <1>5

LEMMA BeginKeepsLink ==
    ASSUME PipeIInv, EncBegin, DecBegin
    PROVE  PipeIInv'
<1>1. EncIInv' /\ EncFollows'
  BY EncStepIInv, EncFollowsWork DEF PipeIInv, EncNext
<1>2. DecIInv' /\ DecFollows'
  BY DecStepIInv, DecFollowsNext DEF PipeIInv, DecNext
<1>3. given' = << >> /\ text' = << >> /\ dpc' = "idle"
  BY DEF EncBegin, DecBegin
<1>4. Characters(given') = << >>
  BY <1>3, CharactersNext
<1>5. Taken' = 0 /\ Len(text') = 0 /\ SubSeq(text', 1, 0) = << >>
  BY <1>3, <1>4 DEF Taken
<1>6. Linked'
  <2>1. Characters(given') = SubSeq(text', 1, Taken')
    BY <1>4, <1>5, Zenon
  <2>2. Taken' <= Len(text')
    BY <1>5
  <2>3. dpc' # "ended"
    BY <1>3
  <2> QED BY <2>1, <2>2, <2>3, Zenon DEF Linked
<1> QED BY <1>1, <1>2, <1>6 DEF PipeIInv

LEMMA PipeStep == PipeIInv /\ [Next]_<<encVars, decVars>> => PipeIInv'
<1> SUFFICES ASSUME PipeIInv, [Next]_<<encVars, decVars>> PROVE PipeIInv'
  OBVIOUS
<1>1. CASE EncWork /\ UNCHANGED decVars
  BY <1>1, EncKeepsLink
<1>2. CASE Deliver /\ UNCHANGED encVars
  BY <1>2, DeliverKeepsLink
<1>3. CASE UNCHANGED encVars
           /\ (DecRun \/ (pc = "ended" /\ Taken = Len(text) /\ DecFinish))
  BY <1>3, DecKeepsLink
<1>4. CASE EncBegin /\ DecBegin
  BY <1>4, BeginKeepsLink
<1>5. CASE UNCHANGED <<encVars, decVars>>
  <2>1. UNCHANGED encVars /\ UNCHANGED decVars
    BY <1>5
  <2>2. EncIInv' /\ EncFollows' /\ DecIInv' /\ DecFollows'
    BY <2>1, EncStepIInv, EncFollowsWork, DecStepIInv, DecFollowsNext DEF PipeIInv
  <2>3. given' = given /\ text' = text /\ dpc' = dpc /\ pc' = pc
    BY <2>1 DEF encVars, decVars
  <2> QED BY <2>2, <2>3 DEF PipeIInv, Linked, Taken
<1> QED BY <1>1, <1>2, <1>3, <1>4, <1>5 DEF Next

LEMMA BeginsOfPrefix ==
    ASSUME NEW b \in Seq(Byte), NEW m \in 0 .. Len(b), NEW s, Begins(s, SubSeq(b, 1, m))
    PROVE  Begins(s, b)
<1>1. m \in Nat /\ m <= Len(b) /\ Len(SubSeq(b, 1, m)) = m
  OBVIOUS
<1>2. PICK k \in 0 .. m : s = SubSeq(SubSeq(b, 1, m), 1, k)
  BY <1>1 DEF Begins
<1>3. SubSeq(SubSeq(b, 1, m), 1, k) = SubSeq(b, 1, k)
  BY <1>1
<1> QED BY <1>1, <1>2, <1>3 DEF Begins

\* Whatever part of the text is decoded, its bytes are the first that were
\* given to the encoder.
LEMMA TextPrefixes ==
    ASSUME PipeIInv
    PROVE  Prefixes(text, bytes)
<1>1. bytes \in Seq(Byte) /\ pc \in {"idle", "encode", "ended"}
  BY PipeTypes
<1>2. CASE pc = "ended"
  <2>1. text = EncEnd(EncodeAll(bytes))
    BY <1>2 DEF PipeIInv, EncFollows
  <2> QED BY <1>1, <2>1, ReferenceRoundTrip, Zenon
<1>3. CASE pc # "ended"
  <2> DEFINE b == SubSeq(bytes, 1, EncConsumed)
             s == [queue |-> queue, nbits |-> nbits, text |-> text]
  <2>1. EncodeAll(b) = s /\ s.text = text
    BY <1>1, <1>3 DEF PipeIInv, EncFollows
  <2>2. EncConsumed \in 0 .. Len(bytes)
    BY DEF PipeIInv, EncIInv, EncTypeOK, EncAccounted, EncConsumed
  <2>3. b \in Seq(Byte)
    BY <1>1, <2>2
  <2>4. \A x : Begins(x, b) => Begins(x, bytes)
    BY <1>1, <2>2, BeginsOfPrefix
  <2> HIDE DEF b, s
  <2>5. Prefixes(text, b)
    BY <2>1, <2>3, EncodeBehind
  <2> QED BY <2>4, <2>5 DEF Prefixes
<1> QED BY <1>2, <1>3

\* Until finish, the output is how the input begins.
LEMMA OutBegins == PipeIInv /\ dpc # "ended" => Begins(out, bytes)
<1> SUFFICES ASSUME PipeIInv, dpc # "ended" PROVE Begins(out, bytes)
  OBVIOUS
<1>1. /\ given \in Seq(Symbol) /\ text \in Seq(Char) /\ Taken \in 0 .. Len(text)
      /\ dpc \in {"idle", "decode", "ended"}
  BY PipeTypes
<1> DEFINE k == DecConsumed
           d == [queue |-> dqueue, nbits |-> dnbits, val |-> val, out |-> out]
<1>2. k \in 0 .. Len(given)
  BY DEF PipeIInv, DecIInv, DecTypeOK, DecAccounted, DecConsumed
<1>3. DecodeAll(SubSeq(given, 1, k)) = d /\ d.out = out
  BY <1>1 DEF PipeIInv, DecFollows
<1> HIDE DEF k, d
<1>4. Characters(given) = SubSeq(text, 1, Taken)
  BY DEF PipeIInv, Linked
<1>5. PICK j \in 0 .. Len(text) :
         DecodeAll(SubSeq(given, 1, k)) = DecodeAll(SubSeq(text, 1, j))
  BY <1>1, <1>2, <1>4, PrefixRead
<1> QED BY <1>3, <1>5, TextPrefixes DEF Prefixes

\* ... and all of it afterwards.
LEMMA OutEnds == PipeIInv /\ dpc = "ended" => out = bytes
<1> SUFFICES ASSUME PipeIInv, dpc = "ended" PROVE out = bytes
  OBVIOUS
<1>1. /\ given \in Seq(Symbol) /\ text \in Seq(Char) /\ bytes \in Seq(Byte)
  BY PipeTypes
<1>2. pc = "ended" /\ Taken = Len(text) /\ Characters(given) = SubSeq(text, 1, Taken)
  BY DEF PipeIInv, Linked
<1>3. Characters(given) = text
  BY <1>1, <1>2, WholePrefix
<1>4. text = EncEnd(EncodeAll(bytes)) /\ out = DecEnd(DecodeAll(given))
  BY <1>2 DEF PipeIInv, EncFollows, DecFollows
<1>5. DecodeAll(given) = DecodeAll(text)
  BY <1>1, <1>3, JunkIgnored
<1>6. DecEnd(DecodeAll(EncEnd(EncodeAll(bytes)))) = bytes
  BY <1>1, ReferenceRoundTrip, Zenon
<1> QED BY <1>4, <1>5, <1>6

\* The decoder's output only grows in a call.
LEMMA PairGrows ==
    ASSUME DecIInv, NEW v \in Value, PushPair(v)
    PROVE  Len(out) <= Len(out')
<1>1. DecTypeOK /\ DecQueueBounded /\ out \in Seq(Byte) /\ Len(out) \in Nat
  BY DEF DecIInv, DecTypeOK
<1>2. PICK w \in {1, 2} : Len(out') = Len(out) + w
  BY <1>1, PushPairKeeps
<1> QED BY <1>1, <1>2

LEMMA OutGrows ==
    ASSUME DecIInv, DecRun
    PROVE  Len(out) <= Len(out') /\ Len(out) \in Nat /\ dpc # "ended" /\ dpc' # "ended"
<1>1. DecTypeOK /\ DecQueueBounded /\ out \in Seq(Byte) /\ Len(out) \in Nat
  BY DEF DecIInv, DecTypeOK
<1>2. dpc = "decode" /\ dpc' \in {"decode", "idle"}
  BY DEF DecRun, FastPair, SlowJunk, SlowFirst, SlowSecond, SlowSymbol, DecReturn
<1>4. CASE FastPair
  <2> DEFINE v == ValueOf(dchunk[di + 1], dchunk[di + 2])
  <2>1. PushPair(v)
    BY <1>4, Zenon DEF FastPair
  <2>2. dchunk[di + 1] \in Char /\ dchunk[di + 2] \in Char
    BY <1>1, <1>4 DEF FastPair, PairAhead, DecTypeOK, Symbol
  <2>3. v \in Value
    BY <2>2, ValueFits, Zenon
  <2> HIDE DEF v
  <2> QED BY <1>1, <1>2, <2>1, <2>3, PairGrows
<1>5. CASE SlowSecond
  <2> DEFINE v == ValueOf(val, dchunk[di + 1])
  <2>1. PushPair(v)
    BY <1>5, Zenon DEF SlowSecond
  <2>2. dchunk[di + 1] \in Char /\ val \in Char
    BY <1>1, <1>5 DEF SlowSecond, SlowSymbol, DecTypeOK, Symbol
  <2>3. v \in Value
    BY <2>2, ValueFits, Zenon
  <2> HIDE DEF v
  <2> QED BY <1>1, <1>2, <2>1, <2>3, PairGrows
<1>6. SlowJunk \/ SlowFirst \/ DecReturn => out' = out
  BY DEF SlowJunk, SlowFirst, DecReturn
<1>7. Len(out) <= Len(out')
  BY <1>1, <1>4, <1>5, <1>6 DEF DecRun
<1> QED BY <1>1, <1>2, <1>7

\* Each step, for the abstract specification.
LEMMA SendOrNot ==
    ASSUME PipeIInv, EncWork, UNCHANGED decVars
    PROVE  Bytes!Send
<1>1. bytes \in Seq(Byte) /\ bytes \o << >> = bytes /\ << >> \in Seq(Byte)
  BY PipeTypes
<1>2. out' = out /\ dpc' = dpc /\ dpc # "ended"
  BY TextGrows DEF decVars, PipeIInv, Linked
<1>3. PICK c \in Seq(Byte) : bytes' = bytes \o c
  BY <1>1, EncoderAssumption
     DEF EncWork, Encode, Load, Take, NextByte, EncReturn, EncFinish
<1>4. Len(bytes') >= Len(bytes)
  BY <1>1, <1>3
<1>5. SubSeq(bytes', 1, Len(bytes)) = bytes
  <2> DEFINE k == Len(bytes)
  <2>1. k \in Nat /\ k <= Len(bytes) /\ SubSeq(bytes, 1, k) = bytes
    BY <1>1, WholePrefix
  <2> HIDE DEF k
  <2>2. SubSeq(bytes', 1, k) = bytes
    BY <1>1, <1>3, <2>1, PrefixOfMore
  <2> QED BY <2>2 DEF k
<1> QED BY <1>2, <1>4, <1>5 DEF Bytes!Send

LEMMA ReceiveStep ==
    ASSUME PipeIInv, DecRun, UNCHANGED encVars
    PROVE  Bytes!Receive
<1>1. PipeIInv'
  BY DecKeepsLink
<1>2. Len(out) <= Len(out') /\ Len(out) \in Nat /\ dpc # "ended" /\ dpc' # "ended"
  BY OutGrows DEF PipeIInv
<1>3. Begins(out', bytes')
  <2>1. (PipeIInv /\ dpc # "ended" => Begins(out, bytes))'
    BY OutBegins, PTL
  <2> QED BY <1>1, <1>2, <2>1
<1>4. bytes' = bytes /\ bytes \in Seq(Byte)
  BY PipeTypes DEF encVars
<1>5. PICK k \in 0 .. Len(bytes) : out' = SubSeq(bytes, 1, k)
  BY <1>3, <1>4 DEF Begins
<1>6. k \in Nat /\ k <= Len(bytes) /\ Len(SubSeq(bytes, 1, k)) = k
  BY <1>4
<1>7. k \in Len(out) .. Len(bytes)
  BY <1>2, <1>5, <1>6
<1> QED BY <1>2, <1>4, <1>5, <1>7 DEF Bytes!Receive

LEMMA FinishStep ==
    ASSUME PipeIInv, pc = "ended", Taken = Len(text), DecFinish, UNCHANGED encVars
    PROVE  Bytes!Finish
<1>1. PipeIInv'
  BY DecKeepsLink
<1>2. dpc' = "ended" /\ dpc = "idle" /\ bytes' = bytes
  BY DEF DecFinish, encVars
<1>3. out' = bytes'
  <2>1. (PipeIInv /\ dpc = "ended" => out = bytes)'
    BY OutEnds, PTL
  <2> QED BY <1>1, <1>2, <2>1
<1> QED BY <1>2, <1>3 DEF Bytes!Finish

\* Every step of the two machines is one of the abstract pipe, or none.
LEMMA PipeSimulates ==
    PipeIInv /\ [Next]_<<encVars, decVars>> => [Bytes!Next]_<<bytes, out, dpc = "ended">>
<1> SUFFICES ASSUME PipeIInv, [Next]_<<encVars, decVars>>
             PROVE  [Bytes!Next]_<<bytes, out, dpc = "ended">>
  OBVIOUS
<1>1. CASE EncWork /\ UNCHANGED decVars
  BY <1>1, SendOrNot DEF Bytes!Next
<1>2. CASE Deliver /\ UNCHANGED encVars
  <2>1. PICK c : Decode(c)
    BY <1>2, DeliverMeans
  <2>2. bytes' = bytes /\ out' = out /\ dpc = "idle" /\ dpc' = "decode"
    BY <1>2, <2>1 DEF Decode, encVars
  <2> QED BY <2>2
<1>3. CASE DecRun /\ UNCHANGED encVars
  BY <1>3, ReceiveStep DEF Bytes!Next
<1>4. CASE pc = "ended" /\ Taken = Len(text) /\ DecFinish /\ UNCHANGED encVars
  BY <1>4, FinishStep DEF Bytes!Next
<1>5. CASE EncBegin /\ DecBegin
  BY <1>5 DEF EncBegin, DecBegin, Bytes!Begin, Bytes!Next
<1>6. CASE UNCHANGED <<encVars, decVars>>
  BY <1>6 DEF encVars, decVars
<1> QED BY <1>1, <1>2, <1>3, <1>4, <1>5, <1>6 DEF Next

\* The round trip, for every input, every way of cutting it into calls on both
\* sides, and any junk in the text.
THEOREM PipeIsBytePipe == Spec => ImplementsBytePipe
<1>1. Init => Bytes!Init
  BY DEF Init, EncInit, DecInit, Bytes!Init
<1>2. Init => PipeIInv
  BY PipeInit
<1>3. PipeIInv /\ [Next]_<<encVars, decVars>> => PipeIInv'
  BY PipeStep
<1>4. PipeIInv /\ [Next]_<<encVars, decVars>>
      => [Bytes!Next]_<<bytes, out, dpc = "ended">>
  BY PipeSimulates
<1> QED BY <1>1, <1>2, <1>3, <1>4, PTL DEF Spec, ImplementsBytePipe, Bytes!Spec
=============================================================================
