----------------------------- MODULE Arithmetic -----------------------------
(* Facts about numbers, for the proofs about the codecs: quotients and       *)
(* remainders by a block size or a line width, sequences, induction and      *)
(* recursion, and the queue and the groups of Henke's format.                *)
EXTENDS HenkeFormat, SequenceTheorems, TLAPS, WellFoundedInduction

----------------------------------------------------------------------------
\* Blocks and lines.

\* Euclidean division: quotient and remainder exist and make up the number.
LEMMA Division ==
    ASSUME NEW a \in Nat, NEW k \in Nat \ {0}
    PROVE  /\ a \div k \in Nat
           /\ a % k \in 0 .. (k - 1)
           /\ a = k * (a \div k) + (a % k)
<1>1. a \div k \in Nat
    BY SMT
<1>2. a % k \in 0 .. (k - 1)
    BY SMT
<1>3. a = k * (a \div k) + (a % k)
    BY Z3
<1>q. QED BY <1>1, <1>2, <1>3

\* ... and are unique.
LEMMA DivisionUnique ==
    ASSUME NEW k \in Nat \ {0}, NEW q \in Nat, NEW r \in 0 .. (k - 1)
    PROVE  (k * q + r) \div k = q /\ (k * q + r) % k = r
    OBVIOUS

\* Division keeps the order,
LEMMA DivMonotone ==
    ASSUME NEW a \in Nat, NEW b \in Nat, NEW k \in Nat \ {0}, a <= b
    PROVE  a \div k <= b \div k
    OBVIOUS

\* Whole blocks added to a count leave its remainder alone.
LEMMA AddBlocks ==
    ASSUME NEW a \in Nat, NEW m \in Nat, NEW k \in Nat \ {0}
    PROVE  (a + k * m) % k = a % k /\ (a + k * m) \div k = a \div k + m
    OBVIOUS

\* ... and so does multiplication.
LEMMA MulMonotone ==
    ASSUME NEW a \in Nat, NEW b \in Nat, NEW k \in Nat, a <= b
    PROVE  k * a <= k * b
    OBVIOUS

\* Rows are counted one by one, or several at once.
LEMMA AddRows ==
    ASSUME NEW a \in Nat, NEW m \in Nat, NEW k \in Nat
    PROVE  (a + m) * k = a * k + m * k /\ a * k \in Nat /\ m * k \in Nat
    OBVIOUS

\* One more character: one more in the incomplete block, or a whole block.
LEMMA AddOne ==
    ASSUME NEW a \in Nat, NEW k \in Nat \ {0}
    PROVE  /\ (a % k) + 1 = k => (a + 1) % k = 0
           /\ (a % k) + 1 # k => (a + 1) % k = (a % k) + 1
<1> DEFINE q == a \div k
           r == a % k
<1>1. q \in Nat /\ r \in 0 .. (k - 1) /\ a = k * q + r
    BY Division
<1> HIDE DEF q, r
<1>2. ASSUME r + 1 = k PROVE (a + 1) % k = 0
    <2>1. a + 1 = k * (q + 1) + 0
        BY <1>1, <1>2
    <2>q. QED BY <2>1, <1>1, DivisionUnique
<1>3. ASSUME r + 1 # k PROVE (a + 1) % k = r + 1
    <2>1. a + 1 = k * q + (r + 1) /\ r + 1 \in 0 .. (k - 1)
        BY <1>1, <1>3
    <2>q. QED BY <2>1, <1>1, DivisionUnique
<1>q. QED BY <1>2, <1>3 DEF r

\* A multiple of the width unit is a whole number of blocks.
LEMMA MultipleOfMultiple ==
    ASSUME NEW a \in Nat, NEW u \in Nat \ {0}, NEW k \in Nat \ {0},
           a % u = 0, u % k = 0
    PROVE  a % k = 0
<1> DEFINE q == a \div u
           p == u \div k
<1>1. q \in Nat /\ a = u * q
    BY Division
<1>2. p \in Nat /\ u = k * p
    BY Division
<1> HIDE DEF q, p
<1> DEFINE m == p * q
<1>3. m \in Nat /\ a = k * m + 0
    BY <1>1, <1>2
<1> HIDE DEF m
<1>q. QED BY <1>3, DivisionUnique

\* A width that is a multiple of the block is so many blocks.
LEMMA ExactBlocks ==
    ASSUME NEW a \in Nat \ {0}, NEW k \in Nat \ {0}, a % k = 0
    PROVE  a \div k \in Nat \ {0} /\ k * (a \div k) = a
<1> DEFINE q == a \div k
<1>1. q \in Nat /\ a = k * q
    BY Division
<1> HIDE DEF q
<1>2. q # 0
    BY <1>1
<1>q. QED BY <1>1, <1>2 DEF q

\* A quotient never reaches beyond what is divided.
LEMMA FloorFits ==
    ASSUME NEW a \in Nat, NEW k \in Nat \ {0}, NEW n \in Nat, n <= a \div k
    PROVE  k * n \in Nat /\ k * n <= a
<1> DEFINE q == a \div k
<1>1. q \in Nat /\ k * q <= a
    BY Division
<1>2. n <= q
    OBVIOUS
<1> HIDE DEF q
<1>3. k * n <= k * q
    BY <1>1, <1>2, MulMonotone
<1>q. QED BY <1>1, <1>3

\* Lines of a given width, each at one stride after the line before it: so
\* many lie wholly in what is available, and they hold their characters.
LEMMA LinesFit ==
    ASSUME NEW width \in Nat \ {0}, NEW stride \in Nat, width <= stride,
           NEW avail \in Nat, width <= avail,
           NEW lines \in Nat \ {0},
           lines <= ((avail - width) \div stride) + 1
    PROVE  /\ stride * (lines - 1) + width \in Nat
           /\ stride * (lines - 1) + width <= avail
           /\ width * lines <= stride * (lines - 1) + width
<1> DEFINE m == lines - 1
<1>1. m \in Nat /\ lines = m + 1
    OBVIOUS
<1>2. avail - width \in Nat /\ stride \in Nat \ {0}
    OBVIOUS
<1>3. (avail - width) \div stride \in Nat
    BY <1>2, Division
<1>4. m <= (avail - width) \div stride
    BY <1>1, <1>3
<1> HIDE DEF m
<1>5. stride * m \in Nat /\ stride * m <= avail - width
    BY <1>1, <1>2, <1>4, FloorFits
<1>6. width * m <= stride * m
    BY <1>1
<1>7. width * lines = width * m + width
    BY <1>1
<1>q. QED BY <1>1, <1>5, <1>6, <1>7 DEF m

\* Places are counted in rows of w bytes and a line feed.
LEMMA Rows ==
    ASSUME NEW w \in Nat \ {0}, NEW q \in Nat, NEW r \in 0..w
    PROVE  /\ ((w + 1) * q + r) \div (w + 1) = q
           /\ ((w + 1) * q + r) % (w + 1) = r
           /\ (w + 1) * q = w * q + q
<1>1. w + 1 \in Nat \ {0} /\ r \in 0..(w + 1) - 1
  OBVIOUS
<1>2. (w + 1) * q = w * q + q
  OBVIOUS
<1> QED
  BY <1>1, <1>2, DivisionUnique

\* A place that is not a line feed's has a byte of the text.
LEMMA InText ==
    ASSUME NEW w \in Nat \ {0}, NEW n \in Nat,
           NEW p \in 1..n + (n \div w), p % (w + 1) # 0
    PROVE  p - (p \div (w + 1)) \in 1..n
<1> DEFINE q == p \div (w + 1)
           r == p % (w + 1)
           m == n \div w
           s == n % w
<1>1. /\ q \in Nat /\ r \in 0..w /\ p = (w + 1) * q + r /\ p \in Nat
  <2>1. w + 1 \in Nat \ {0} /\ p \in Nat /\ (w + 1) - 1 = w
    BY Division
  <2>2. q \in Nat /\ r \in 0..((w + 1) - 1) /\ p = (w + 1) * q + r
    BY <2>1, Division, Zenon
  <2> QED
    BY <2>1, <2>2
<1>2. m \in Nat /\ s \in 0..w - 1 /\ n = w * m + s
  BY Division
<1>3. p <= n + m /\ r # 0
  OBVIOUS
<1> HIDE DEF q, r, m, s
<1>4. (w + 1) * q = w * q + q /\ (w + 1) * m = w * m + m
      /\ w * q \in Nat /\ w * m \in Nat
  BY <1>1, <1>2
<1>5. q <= m
  <2> SUFFICES ASSUME m + 1 <= q PROVE FALSE
    BY <1>1, <1>2
  <2>1. (w + 1) * (m + 1) <= (w + 1) * q
    BY <1>1, <1>2, MulMonotone
  <2>2. (w + 1) * (m + 1) = (w + 1) * m + (w + 1)
    BY <1>2
  <2> QED
    BY <1>1, <1>2, <1>3, <1>4, <2>1, <2>2
<1>6. CASE q = m
  BY <1>1, <1>2, <1>3, <1>4, <1>6 DEF q
<1>7. CASE q < m
  <2>1. w * (q + 1) <= w * m /\ w * (q + 1) = w * q + w
    <3>1. q + 1 <= m /\ q + 1 \in Nat
      BY <1>1, <1>2, <1>7
    <3>2. w * (q + 1) <= w * m
      BY <1>2, <3>1, MulMonotone
    <3>3. w * (q + 1) = w * q + w
      BY <1>1
    <3> QED
      BY <3>2, <3>3
  <2>2. p - q = w * q + r
    BY <1>1, <1>4
  <2>3. p - q >= 1 /\ p - q <= n /\ p - q \in Int
    BY <1>1, <1>2, <1>3, <1>4, <2>1, <2>2
  <2> QED
    BY <2>3 DEF q
<1> QED
  BY <1>1, <1>2, <1>5, <1>6, <1>7

----------------------------------------------------------------------------
\* Sequences of numbers.

\* s is how t begins.
Starts(s, t) == \E u \in Seq(Nat) : t = s \o u

LEMMA SeqCut ==
    ASSUME NEW s \in Seq(Nat), NEW m \in Nat, NEW n \in Nat, m <= n,
           n <= Len(s)
    PROVE  /\ SubSeq(s, m + 1, n) \in Seq(Nat)
           /\ Len(SubSeq(s, m + 1, n)) = n - m
<1>1. \A i \in m + 1 .. n : s[i] \in Nat
  BY ElementOfSeq
<1> QED
  BY <1>1, SubSeqProperties

LEMMA SeqParts ==
    ASSUME NEW s \in Seq(Nat), NEW m \in Nat, NEW k \in Nat, NEW n \in Nat,
           m <= k, k <= n, n <= Len(s)
    PROVE  SubSeq(s, m + 1, k) \o SubSeq(s, k + 1, n) = SubSeq(s, m + 1, n)
<1>1. m + 1 \in 1 .. Len(s) + 1 /\ k \in m + 1 - 1 .. Len(s) /\ n \in k .. Len(s)
  BY LenProperties
<1> QED
  BY <1>1, ConcatAdjacentSubSeq

LEMMA SeqHalves ==
    ASSUME NEW s \in Seq(Nat), NEW k \in 0 .. Len(s)
    PROVE  /\ SubSeq(s, 1, k) \in Seq(Nat) /\ Len(SubSeq(s, 1, k)) = k
           /\ SubSeq(s, k + 1, Len(s)) \in Seq(Nat)
           /\ Len(SubSeq(s, k + 1, Len(s))) = Len(s) - k
           /\ SubSeq(s, 1, k) \o SubSeq(s, k + 1, Len(s)) = s
<1>1. /\ Len(s) \in Nat /\ k \in Nat /\ 0 \in Nat /\ 0 <= k /\ k <= Len(s)
      /\ Len(s) <= Len(s) /\ 0 + 1 = 1 /\ k - 0 = k
  BY LenProperties
<1>2. SubSeq(s, 0 + 1, k) \o SubSeq(s, k + 1, Len(s)) = SubSeq(s, 0 + 1, Len(s))
  BY <1>1, SeqParts, Zenon
<1>3. SubSeq(s, 1, Len(s)) = s
  BY SubSeqFull
<1>4. SubSeq(s, 0 + 1, k) \in Seq(Nat) /\ Len(SubSeq(s, 0 + 1, k)) = k - 0
  BY <1>1, SeqCut, Zenon
<1>5. /\ SubSeq(s, k + 1, Len(s)) \in Seq(Nat)
      /\ Len(SubSeq(s, k + 1, Len(s))) = Len(s) - k
  BY <1>1, SeqCut, Zenon
<1> QED
  BY <1>1, <1>2, <1>3, <1>4, <1>5, Zenon

LEMMA SeqJoined ==
    ASSUME NEW s \in Seq(Nat), NEW t \in Seq(Nat), NEW u \in Seq(Nat)
    PROVE  (s \o t) \o u = s \o (t \o u)
BY ConcatAssociative

\* The next k elements after the first p, and the rest.
LEMMA SeqMiddle ==
    ASSUME NEW s \in Seq(Nat), NEW p \in Nat, NEW k \in Nat, p + k <= Len(s)
    PROVE  /\ SubSeq(s, p + 1, p + k) \in Seq(Nat)
           /\ Len(SubSeq(s, p + 1, p + k)) = k
           /\ SubSeq(s, p + k + 1, Len(s)) \in Seq(Nat)
           /\ SubSeq(s, p + 1, p + k) \o SubSeq(s, p + k + 1, Len(s))
                = SubSeq(s, p + 1, Len(s))
<1> DEFINE n == p + k
<1>1. /\ n \in Nat /\ p <= n /\ n <= Len(s) /\ n - p = k /\ n \in 0 .. Len(s)
      /\ Len(s) \in Nat /\ Len(s) <= Len(s)
  BY LenProperties
<1> HIDE DEF n
<1>2. SubSeq(s, p + 1, n) \in Seq(Nat) /\ Len(SubSeq(s, p + 1, n)) = n - p
  BY <1>1, SeqCut
<1>3. SubSeq(s, n + 1, Len(s)) \in Seq(Nat)
  BY <1>1, SeqHalves
<1>4. SubSeq(s, p + 1, n) \o SubSeq(s, n + 1, Len(s)) = SubSeq(s, p + 1, Len(s))
  BY <1>1, SeqParts
<1> QED
  BY <1>1, <1>2, <1>3, <1>4 DEF n

\* A longer sequence has the same first elements.
LEMMA SeqFront ==
    ASSUME NEW s \in Seq(Nat), NEW t \in Seq(Nat), NEW n \in 0 .. Len(s)
    PROVE  SubSeq(s \o t, 1, n) = SubSeq(s, 1, n)
<1>1. CASE n = 0
  BY <1>1, SubSeqEmpty
<1>2. CASE n # 0
  BY <1>2, SubSeqOfConcat1, LenProperties
<1> QED
  BY <1>1, <1>2

LEMMA SeqBack ==
    ASSUME NEW s \in Seq(Nat), NEW t \in Seq(Nat)
    PROVE  SubSeq(s \o t, Len(s) + 1, Len(s \o t)) = t
<1>1. /\ Len(s \o t) = Len(s) + Len(t) /\ s \o t \in Seq(Nat)
      /\ Len(s) \in Nat /\ Len(t) \in Nat
  BY ConcatProperties, LenProperties
<1>2. CASE t = << >>
  BY <1>1, <1>2, SubSeqEmpty, EmptySeq
<1>3. CASE t # << >>
  <2>1. Len(t) > 0
    BY <1>1, <1>3, EmptySeq
  <2>2. SubSeq(s \o t, Len(s) + 1, Len(s) + Len(t)) = SubSeq(t, 1, Len(t))
    <3>1. Len(s) + 1 \in Len(s) + 1 .. Len(s) + Len(t)
      BY <1>1, <2>1
    <3>2. Len(s) + Len(t) \in Len(s) + 1 .. Len(s) + Len(t)
      BY <1>1, <2>1
    <3>3. SubSeq(s \o t, Len(s) + 1, Len(s) + Len(t))
            = SubSeq(t, Len(s) + 1 - Len(s), Len(s) + Len(t) - Len(s))
      BY <3>1, <3>2, SubSeqOfConcat2
    <3> QED
      BY <3>3, <1>1
  <2> QED
    BY <1>1, <2>2, SubSeqFull
<1> QED
  BY <1>2, <1>3

\* What is added to s makes t of it.
LEMMA SeqAddition ==
    ASSUME NEW s \in Seq(Nat), NEW t \in Seq(Nat), Starts(s, t)
    PROVE  /\ SubSeq(t, Len(s) + 1, Len(t)) \in Seq(Nat)
           /\ s \o SubSeq(t, Len(s) + 1, Len(t)) = t
<1>1. PICK u \in Seq(Nat) : t = s \o u
  BY DEF Starts
<1>2. SubSeq(t, Len(s) + 1, Len(t)) = u
  BY <1>1, SeqBack
<1> QED
  BY <1>1, <1>2

----------------------------------------------------------------------------
\* Induction and recursion.

\* A set of naturals that is not empty has a least element.
LEMMA LeastNatural ==
    ASSUME NEW T \in SUBSET Nat, T # {}
    PROVE  \E x \in T : \A y \in T : x <= y
<1> DEFINE R == OpToRel(<, Nat)
<1>1. \A x \in Nat, y \in Nat : x < y => <<x, y>> \in R
    BY DEF OpToRel
<1>2. IsWellFoundedOn(R, Nat)
    BY NatLessThanWellFounded
<1> HIDE DEF R
<1>3. PICK x \in T : \A y \in T : ~ (<<y, x>> \in R)
    BY <1>2, WFMin
<1>4. \A y \in T : ~ (y < x)
    BY <1>1, <1>3
<1>q. QED BY <1>3, <1>4

\* Induction, with the property as a set: what holds of 0, and of n + 1 if of
\* n, holds of all numbers.
LEMMA SetInduction ==
    ASSUME NEW S \in SUBSET Nat, 0 \in S, \A n \in S : n + 1 \in S
    PROVE  Nat = S
<1> DEFINE T == Nat \ S
<1>1. ASSUME T # {} PROVE FALSE
  <2>1. PICK x \in T : \A y \in T : x <= y
    BY <1>1, LeastNatural
  <2>2. x \in Nat /\ x # 0 /\ x \notin S
    BY <2>1
  <2>3. x - 1 \in Nat /\ x - 1 \notin T
    BY <2>1, <2>2
  <2>4. (x - 1) + 1 \in S
    BY <2>3
  <2> QED BY <2>2, <2>4
<1> QED BY <1>1

\* A computation takes the elements of a sequence one by one.
IsStep(step, s0, State, Sym) == s0 \in State /\ step \in [State \X Sym -> State]

\* The equations of its states, up to the n-th.
Follows(f, n, State, s0, step, x) ==
    /\ f[0] = s0
    /\ \A k \in 1 .. n : f[k - 1] \in State => f[k] = step[<<f[k - 1], x[k]>>]

Alike(x, y, n, Sym) == n \in Nat /\ \A k \in 1 .. n : x[k] \in Sym /\ y[k] = x[k]

Agree(f, g, n, State) == \A k \in 0 .. n : f[k] \in State /\ g[k] = f[k]

\* On sequences that begin alike two computations agree that far.
LEMMA RunsAgree ==
    ASSUME NEW State, NEW Sym, NEW s0, NEW step, IsStep(step, s0, State, Sym),
           NEW n, NEW x, NEW y, Alike(x, y, n, Sym),
           NEW f, NEW g,
           Follows(f, n, State, s0, step, x), Follows(g, n, State, s0, step, y)
    PROVE  Agree(f, g, n, State)
<1> USE DEF Follows, Alike, IsStep
<1> DEFINE S == {k \in Nat : k <= n => f[k] \in State /\ g[k] = f[k]}
<1>1. 0 \in S
  OBVIOUS
<1>2. ASSUME NEW k \in S PROVE k + 1 \in S
  <2>1. k \in Nat /\ k + 1 \in Nat /\ (k <= n => f[k] \in State /\ g[k] = f[k])
    OBVIOUS
  <2>2. ASSUME k + 1 <= n PROVE f[k + 1] \in State /\ g[k + 1] = f[k + 1]
    <3> DEFINE j == k + 1
    <3>1. j \in 1 .. n /\ j - 1 = k /\ f[k] \in State /\ g[k] = f[k]
      BY <2>1, <2>2
    <3> HIDE DEF j
    <3>2. x[j] \in Sym /\ y[j] = x[j]
      BY <3>1
    <3>3. f[j] = step[<<f[k], x[j]>>] /\ g[j] = step[<<g[k], y[j]>>]
      BY <3>1
    <3>4. step[<<f[k], x[j]>>] \in State
      BY <3>1, <3>2
    <3>5. f[j] \in State /\ g[j] = f[j]
      BY ONLY <3>1, <3>2, <3>3, <3>4
    <3> QED BY ONLY <3>5 DEF j
  <2> QED BY ONLY <2>1, <2>2
<1> HIDE DEF S
<1>3. Nat = S
  <2>1. S \in SUBSET Nat
    BY DEF S
  <2> QED BY <1>1, <1>2, <2>1, SetInduction
<1> SUFFICES ASSUME NEW k \in 0 .. n PROVE f[k] \in State /\ g[k] = f[k]
  BY DEF Agree
<1>5. k \in S /\ k <= n
  BY <1>3
<1> QED BY ONLY <1>5 DEF S

\* ... and there is one on every sequence.
LEMMA RunExists ==
    ASSUME NEW State, NEW Sym, NEW s0, NEW step, IsStep(step, s0, State, Sym),
           NEW x \in Seq(Sym)
    PROVE  \E f : /\ f \in [0 .. Len(x) -> State]
                  /\ Follows(f, Len(x), State, s0, step, x)
<1> USE DEF IsStep
<1> DEFINE Runs(n) == {r \in [0 .. n -> State] :
                         /\ r[0] = s0
                         /\ \A k \in 1 .. n : r[k] = step[<<r[k - 1], x[k]>>]}
           S == {n \in Nat : n <= Len(x) => Runs(n) # {}}
<1>1. 0 \in S
  <2>1. [k \in 0 .. 0 |-> s0] \in Runs(0)
    OBVIOUS
  <2> QED BY <2>1
<1>2. ASSUME NEW n \in S PROVE n + 1 \in S
  <2>1. n \in Nat /\ (n <= Len(x) => Runs(n) # {})
    OBVIOUS
  <2>2. ASSUME n + 1 <= Len(x) PROVE Runs(n + 1) # {}
    <3>1. n + 1 \in 1 .. Len(x) /\ x[n + 1] \in Sym /\ Runs(n) # {}
      BY <2>1, <2>2
    <3>2. PICK f : f \in Runs(n)
      BY <3>1
    <3>3. /\ f \in [0 .. n -> State] /\ f[0] = s0
          /\ \A k \in 1 .. n : f[k] = step[<<f[k - 1], x[k]>>]
      BY <3>2
    <3> DEFINE last == step[<<f[n], x[n + 1]>>]
               g    == [k \in 0 .. n + 1 |-> IF k = n + 1 THEN last ELSE f[k]]
    <3>4. f[n] \in State
      BY <2>1, <3>3
    <3>5. last \in State
      BY <3>1, <3>4
    <3> HIDE DEF last, Runs, S
    <3>6. g \in [0 .. n + 1 -> State]
      BY <2>1, <3>3, <3>5
    <3>7. g[0] = s0
      BY <2>1, <3>3
    <3>8. ASSUME NEW k \in 1 .. n + 1 PROVE g[k] = step[<<g[k - 1], x[k]>>]
      <4>1. CASE k = n + 1
        <5>1. k - 1 = n /\ k \in 0 .. n + 1 /\ k - 1 \in 0 .. n + 1 /\ n # n + 1
          BY <4>1, <2>1
        <5>2. g[k] = last /\ g[k - 1] = f[n]
          BY <4>1, <5>1
        <5> QED BY <4>1, <5>1, <5>2 DEF last
      <4>2. CASE k # n + 1
        <5>1. /\ k \in 1 .. n /\ k - 1 \in 0 .. n + 1 /\ k - 1 # n + 1
              /\ k \in 0 .. n + 1
          BY <4>2, <2>1
        <5>2. g[k] = f[k] /\ g[k - 1] = f[k - 1]
          BY <4>2, <5>1
        <5> QED BY <5>1, <5>2, <3>3
      <4> QED BY <4>1, <4>2
    <3> HIDE DEF g
    <3>9. g \in Runs(n + 1)
      BY <3>6, <3>7, <3>8 DEF Runs
    <3> QED BY <3>9
  <2> HIDE DEF Runs
  <2> QED BY <2>1, <2>2
<1> HIDE DEF Runs
<1>3. Runs(Len(x)) # {}
  <2> HIDE DEF S
  <2>1. S \in SUBSET Nat
    BY DEF S
  <2>2. Nat = S
    BY <1>1, <1>2, <2>1, SetInduction
  <2>3. Len(x) \in S
    BY <2>2
  <2> QED BY <2>3 DEF S
<1>4. PICK f : f \in Runs(Len(x))
  BY <1>3
<1>5. /\ f \in [0 .. Len(x) -> State] /\ f[0] = s0
      /\ \A k \in 1 .. Len(x) : f[k] = step[<<f[k - 1], x[k]>>]
  BY <1>4 DEF Runs
<1>6. Follows(f, Len(x), State, s0, step, x)
  BY <1>5 DEF Follows
<1> QED BY <1>5, <1>6

\* What a computation makes of a whole sequence, from what it makes of one
\* that is an element shorter.
LEMMA RunNext ==
    ASSUME NEW State, NEW Sym, NEW s0, NEW step, IsStep(step, s0, State, Sym),
           NEW r, \A x \in Seq(Sym) : \E f : /\ Follows(f, Len(x), State, s0, step, x)
                                            /\ r[x] = f[Len(x)]
    PROVE  /\ r[<< >>] = s0
           /\ \A x \in Seq(Sym) : /\ r[x] \in State
                                  /\ \A e \in Sym : r[Append(x, e)] = step[<<r[x], e>>]
<1>1. r[<< >>] = s0
  <2>1. << >> \in Seq(Sym) /\ Len(<< >>) = 0
    OBVIOUS
  <2>2. PICK f : Follows(f, 0, State, s0, step, << >>) /\ r[<< >>] = f[0]
    BY <2>1
  <2> QED BY <2>2, Zenon DEF Follows
<1>2. ASSUME NEW x \in Seq(Sym) PROVE r[x] \in State
  <2>1. PICK f : Follows(f, Len(x), State, s0, step, x) /\ r[x] = f[Len(x)]
    OBVIOUS
  <2>2. Len(x) \in Nat /\ Alike(x, x, Len(x), Sym)
    BY DEF Alike
  <2>3. Agree(f, f, Len(x), State)
    BY <2>1, <2>2, RunsAgree
  <2> QED BY <2>1, <2>2, <2>3 DEF Agree
<1>3. ASSUME NEW x \in Seq(Sym), NEW e \in Sym
      PROVE  r[Append(x, e)] = step[<<r[x], e>>]
  <2> DEFINE y == Append(x, e)
  <2>n. PICK n \in Nat : n = Len(x)
    OBVIOUS
  <2>1. y \in Seq(Sym) /\ Len(y) = n + 1 /\ y[n + 1] = e
        /\ Alike(x, y, n, Sym)
    BY <2>n DEF Alike
  <2> HIDE DEF y
  <2>2. PICK f : Follows(f, n, State, s0, step, x) /\ r[x] = f[n]
    BY <2>n
  <2>3. PICK g : Follows(g, n + 1, State, s0, step, y) /\ r[y] = g[n + 1]
    BY <2>1
  <2>4. Follows(g, n, State, s0, step, y)
    <3>1. \A k \in 1 .. n : k \in 1 .. n + 1
      BY <2>1
    <3> QED BY <2>3, <3>1 DEF Follows
  <2>5. Agree(f, g, n, State)
    <3>1. Alike(x, y, n, Sym)
      BY <2>1
    <3>2. Follows(f, n, State, s0, step, x)
      BY <2>2
    <3> QED BY <2>4, <3>1, <3>2, RunsAgree
  <2>6. f[n] \in State /\ g[n] = f[n]
    BY <2>1, <2>5 DEF Agree
  <2>7. n + 1 \in 1 .. n + 1 /\ (n + 1) - 1 = n
    BY <2>1
  <2>8. g[n + 1] = step[<<g[n], y[n + 1]>>]
    BY <2>3, <2>6, <2>7 DEF Follows
  <2> QED BY <2>1, <2>2, <2>3, <2>6, <2>8 DEF y
<1> QED BY <1>1, <1>2, <1>3

----------------------------------------------------------------------------
\* The queue and the groups.

\* The powers of two that the codec meets, as numerals.
LEMMA Powers ==
    /\ 2^0 = 1 /\ 2^1 = 2 /\ 2^2 = 4 /\ 2^3 = 8 /\ 2^4 = 16 /\ 2^5 = 32
    /\ 2^6 = 64 /\ 2^7 = 128 /\ 2^8 = 256 /\ 2^9 = 512 /\ 2^10 = 1024
    /\ 2^11 = 2048 /\ 2^12 = 4096 /\ 2^13 = 8192 /\ 2^14 = 16384
    /\ 2^15 = 32768 /\ 2^16 = 65536 /\ 2^17 = 131072 /\ 2^18 = 262144
    /\ 2^19 = 524288 /\ 2^20 = 1048576 /\ 2^21 = 2097152
BY SMT

\* The values of two characters: up to 90 + 91 * 90.
Value == {v \in Nat : v <= 8280}

\* A name for the power, which the backends leave alone.
Power(k) == 2^k

\* Each power is twice the one before.
LEMMA Doubling ==
    ASSUME NEW k \in 0 .. 20
    PROVE  Power(k) \in Nat /\ Power(k + 1) = 2 * Power(k)
<1>1. CASE k = 0 BY <1>1, Powers, SMT DEF Power
<1>2. CASE k = 1 BY <1>2, Powers, SMT DEF Power
<1>3. CASE k = 2 BY <1>3, Powers, SMT DEF Power
<1>4. CASE k = 3 BY <1>4, Powers, SMT DEF Power
<1>5. CASE k = 4 BY <1>5, Powers, SMT DEF Power
<1>6. CASE k = 5 BY <1>6, Powers, SMT DEF Power
<1>7. CASE k = 6 BY <1>7, Powers, SMT DEF Power
<1>8. CASE k = 7 BY <1>8, Powers, SMT DEF Power
<1>9. CASE k = 8 BY <1>9, Powers, SMT DEF Power
<1>10. CASE k = 9 BY <1>10, Powers, SMT DEF Power
<1>11. CASE k = 10 BY <1>11, Powers, SMT DEF Power
<1>12. CASE k = 11 BY <1>12, Powers, SMT DEF Power
<1>13. CASE k = 12 BY <1>13, Powers, SMT DEF Power
<1>14. CASE k = 13 BY <1>14, Powers, SMT DEF Power
<1>15. CASE k = 14 BY <1>15, Powers, SMT DEF Power
<1>16. CASE k = 15 BY <1>16, Powers, SMT DEF Power
<1>17. CASE k = 16 BY <1>17, Powers, SMT DEF Power
<1>18. CASE k = 17 BY <1>18, Powers, SMT DEF Power
<1>19. CASE k = 18 BY <1>19, Powers, SMT DEF Power
<1>20. CASE k = 19 BY <1>20, Powers, SMT DEF Power
<1>21. CASE k = 20 BY <1>21, Powers, SMT DEF Power
<1> QED BY <1>1, <1>2, <1>3, <1>4, <1>5, <1>6, <1>7, <1>8, <1>9, <1>10, <1>11, <1>12, <1>13, <1>14, <1>15, <1>16, <1>17, <1>18, <1>19, <1>20, <1>21, SMT

\* A queue of k bits shifted by the widths that the codec uses.
LEMMA Shift ==
    ASSUME NEW k \in Nat
    PROVE  /\ k <= 13 => Power(k + 8) = 256 * Power(k)
           /\ k <= 8  => Power(k + 13) = 8192 * Power(k)
           /\ k <= 7  => Power(k + 14) = 16384 * Power(k)
           /\ k <= 5  => Power(k + 16) = 65536 * Power(k)
<1>1. \A j \in 0 .. 20 : Power(j) \in Nat /\ Power(j + 1) = 2 * Power(j)
  BY Doubling
<1>2. \A j \in 0 .. 17 : Power(j + 4) = 16 * Power(j)
  <2> SUFFICES ASSUME NEW j \in 0 .. 17 PROVE Power(j + 4) = 16 * Power(j)
    OBVIOUS
  <2>1. /\ Power(j + 1) = 2 * Power(j)
        /\ Power((j + 1) + 1) = 2 * Power(j + 1)
        /\ Power((j + 2) + 1) = 2 * Power(j + 2)
        /\ Power((j + 3) + 1) = 2 * Power(j + 3)
    BY <1>1
  <2> QED BY <2>1, <1>1
<1>3. \A j \in 0 .. 13 : Power(j + 8) = 256 * Power(j)
  <2> SUFFICES ASSUME NEW j \in 0 .. 13 PROVE Power(j + 8) = 256 * Power(j)
    OBVIOUS
  <2>1. /\ Power((j + 4) + 4) = 16 * Power(j + 4)
        /\ Power(j + 4) = 16 * Power(j)
    BY <1>2
  <2> QED BY <2>1, <1>1
<1>4. k <= 8 => Power(k + 13) = 8192 * Power(k)
  <2> SUFFICES ASSUME k <= 8 PROVE Power(k + 13) = 8192 * Power(k)
    OBVIOUS
  <2>1. /\ Power((k + 8) + 4) = 16 * Power(k + 8)
        /\ Power((k + 12) + 1) = 2 * Power(k + 12)
        /\ Power(k + 8) = 256 * Power(k)
    BY <1>1, <1>2, <1>3
  <2>2. Power(k) \in Nat
    BY <1>1
  <2> QED BY <2>1, <2>2
<1>5. k <= 7 => Power(k + 14) = 16384 * Power(k)
  <2> SUFFICES ASSUME k <= 7 PROVE Power(k + 14) = 16384 * Power(k)
    OBVIOUS
  <2>1. Power((k + 13) + 1) = 2 * Power(k + 13)
    BY <1>1
  <2>2. Power(k) \in Nat
    BY <1>1
  <2> QED BY <2>1, <2>2, <1>4
<1>6. k <= 5 => Power(k + 16) = 65536 * Power(k)
  <2> SUFFICES ASSUME k <= 5 PROVE Power(k + 16) = 65536 * Power(k)
    OBVIOUS
  <2>1. /\ Power((k + 8) + 8) = 256 * Power(k + 8)
        /\ Power(k + 8) = 256 * Power(k)
    BY <1>3
  <2>2. Power(k) \in Nat
    BY <1>1
  <2> QED BY <2>1, <2>2
<1> QED BY <1>3, <1>4, <1>5, <1>6

\* A value below m above a queue below p is below m * p.
LEMMA Above ==
    ASSUME NEW p \in Nat, NEW q \in Nat, q < p, NEW m \in Nat, NEW v \in Nat, v < m
    PROVE  v * p \in Nat /\ q + v * p < m * p
<1>1. v * p \in Nat OBVIOUS
<1>2. m * p = v * p + (m - v) * p OBVIOUS
<1>3. (m - v) * p >= p OBVIOUS
<1>4. m * p \in Nat /\ (m - v) * p \in Nat OBVIOUS
<1> QED BY <1>1, <1>2, <1>3, <1>4

\* A byte above a queue of k bits makes one of k + 8.
LEMMA LoadByte ==
    ASSUME NEW k \in 0 .. 13, NEW q \in Nat, q < 2^k, NEW b \in Byte
    PROVE  q + b * 2^k \in Nat /\ q + b * 2^k < 2^(k + 8)
<1>1. q < Power(k)
  BY DEF Power
<1>2. Power(k) \in Nat /\ Power(k + 8) = 256 * Power(k)
  BY Doubling, Shift
<1>3. b \in Nat /\ b < 256
  BY DEF Byte
<1>4. b * Power(k) \in Nat /\ q + b * Power(k) < 256 * Power(k)
  BY <1>1, <1>2, <1>3, Above
<1>5. q + b * Power(k) \in Nat /\ q + b * Power(k) < Power(k + 8)
  BY <1>2, <1>4
<1> QED BY <1>5, Zenon DEF Power

\* A group above a queue of k bits makes one of k + GroupBits.
LEMMA LoadGroup ==
    ASSUME NEW k \in 0 .. 7, NEW q \in Nat, q < 2^k, NEW v \in Value
    PROVE  /\ q + v * 2^k \in Nat
           /\ q + v * 2^k < 2^(k + GroupBits(v))
<1>1. q < Power(k)
  BY DEF Power
<1>2. /\ Power(k) \in Nat
      /\ Power(k + 13) = 8192 * Power(k) /\ Power(k + 14) = 16384 * Power(k)
  BY Doubling, Shift
<1>3. \/ GroupBits(v) = 14
      \/ GroupBits(v) = 13 /\ v \in Nat /\ v < 8192
  <2>1. CASE v < 8192
    BY <2>1 DEF GroupBits, Value
  <2>2. CASE v >= 8192
    BY <2>2, Powers, SMT DEF GroupBits, Value
  <2> QED BY <2>1, <2>2 DEF Value
<1>P. Power(k) = 2^k /\ Power(k + GroupBits(v)) = 2^(k + GroupBits(v))
  BY DEF Power
<1>4. CASE GroupBits(v) = 14
  <2>1. v \in Nat /\ v < 16384
    BY DEF Value
  <2>2. v * Power(k) \in Nat /\ q + v * Power(k) < 16384 * Power(k)
    BY <1>1, <1>2, <2>1, Above, SMT
  <2>3. /\ q + v * Power(k) \in Nat
        /\ q + v * Power(k) < Power(k + GroupBits(v))
    BY <1>2, <1>4, <2>2
  <2> QED BY <2>3, <1>P, Zenon
<1>5. CASE GroupBits(v) = 13 /\ v \in Nat /\ v < 8192
  <2>1. v * Power(k) \in Nat /\ q + v * Power(k) < 8192 * Power(k)
    BY <1>1, <1>2, <1>5, Above, SMT
  <2>2. /\ q + v * Power(k) \in Nat
        /\ q + v * Power(k) < Power(k + GroupBits(v))
    BY <1>2, <1>5, <2>1
  <2> QED BY <2>2, <1>P, Zenon
<1> QED BY <1>3, <1>4, <1>5

\* A queue of k bits gives up its low w.
LEMMA Drop ==
    ASSUME NEW k \in 0 .. 21, NEW w \in {8, 13, 14, 16}, w <= k,
           NEW q \in Nat, q < 2^k
    PROVE  q \div 2^w \in Nat /\ q \div 2^w < 2^(k - w)
<1>1. q < Power(k)
  BY DEF Power
<1> DEFINE j == k - w
<1>2. j \in Nat /\ j + w = k
  OBVIOUS
<1> HIDE DEF j
<1>3. /\ Power(j) \in Nat
      /\ w = 8 => Power(k) = 256 * Power(j)
      /\ w = 13 => Power(k) = 8192 * Power(j)
      /\ w = 14 => Power(k) = 16384 * Power(j)
      /\ w = 16 => Power(k) = 65536 * Power(j)
  BY <1>2, Doubling, Shift
<1>4. /\ w = 8 => q \div 256 < Power(j)
      /\ w = 13 => q \div 8192 < Power(j)
      /\ w = 14 => q \div 16384 < Power(j)
      /\ w = 16 => q \div 65536 < Power(j)
  BY <1>1, <1>3
<1>5. q \div 256 \in Nat /\ q \div 8192 \in Nat /\ q \div 16384 \in Nat
      /\ q \div 65536 \in Nat
  OBVIOUS
<1>6. Power(j) = 2^(k - w)
  BY DEF Power, j
<1>7. CASE w = 8
  <2>1. Power(w) = 256
    BY <1>7, Powers, SMT DEF Power
  <2>2. q \div Power(w) \in Nat /\ q \div Power(w) < Power(j)
    BY <1>3, <1>4, <1>5, <1>7, <2>1
  <2> QED BY <2>2, <1>6, Zenon DEF Power
<1>8. CASE w = 13
  <2>1. Power(w) = 8192
    BY <1>8, Powers, SMT DEF Power
  <2>2. q \div Power(w) \in Nat /\ q \div Power(w) < Power(j)
    BY <1>3, <1>4, <1>5, <1>8, <2>1
  <2> QED BY <2>2, <1>6, Zenon DEF Power
<1>9. CASE w = 14
  <2>1. Power(w) = 16384
    BY <1>9, Powers, SMT DEF Power
  <2>2. q \div Power(w) \in Nat /\ q \div Power(w) < Power(j)
    BY <1>3, <1>4, <1>5, <1>9, <2>1
  <2> QED BY <2>2, <1>6, Zenon DEF Power
<1>10. CASE w = 16
  <2>1. Power(w) = 65536
    BY <1>10, Powers, SMT DEF Power
  <2>2. q \div Power(w) \in Nat /\ q \div Power(w) < Power(j)
    BY <1>3, <1>4, <1>5, <1>10, <2>1
  <2> QED BY <2>2, <1>6, Zenon DEF Power
<1> QED BY <1>7, <1>8, <1>9, <1>10

\* A value up to 90 * 91 + 90 is two characters.
LEMMA PairChars ==
    ASSUME NEW v \in Value
    PROVE  /\ v % 91 \in Char /\ v \div 91 \in Char
           /\ PairOf(v) \in Seq(Char) /\ Len(PairOf(v)) = 2
<1>1. v % 91 \in 0 .. 90
  BY DEF Value
<1>2. v \div 91 \in 0 .. 90
  BY DEF Value
<1> QED BY <1>1, <1>2 DEF PairOf, Char

\* What the encoder takes from a queue is such a value: a group of 14 bits
\* is at most 2^13 + 88.
LEMMA GroupFits ==
    ASSUME NEW q \in Nat
    PROVE  /\ GroupBits(q) \in {13, 14}
           /\ q % 2^GroupBits(q) \in Value
<1>1. CASE q % 2^13 > 88
  BY <1>1, Powers, SMT DEF GroupBits, Value
<1>2. CASE ~ (q % 2^13 > 88)
  <2>1. q % 8192 <= 88 /\ GroupBits(q) = 14
    BY <1>2, Powers, SMT DEF GroupBits
  <2>2. q % 16384 \in Nat /\ q % 16384 <= 8280
    BY <2>1, SMT
  <2> QED BY <2>1, <2>2, Powers, SMT DEF Value
<1> QED BY <1>1, <1>2

\* Two characters are a value of one group.
LEMMA ValueFits ==
    ASSUME NEW c0 \in Char, NEW c1 \in Char
    PROVE  /\ ValueOf(c0, c1) \in Value
           /\ GroupBits(ValueOf(c0, c1)) \in {13, 14}
<1>1. ValueOf(c0, c1) \in Value
  BY SMT DEF ValueOf, Char, Value
<1> QED BY <1>1 DEF GroupBits

----------------------------------------------------------------------------
\* What is decoded is what was encoded: the decoder finds the value of a group
\* in its two characters, and its bits, 13 or 14, in the value alone, without
\* the queue that the encoder took them from.
THEOREM GroupRoundTrip ==
    ASSUME NEW q \in Nat
    PROVE  LET v == q % 2^GroupBits(q) IN
           /\ ValueOf(PairOf(v)[1], PairOf(v)[2]) = v
           /\ GroupBits(v) = GroupBits(q)
<1> DEFINE v == q % 2^GroupBits(q)
<1>1. v \in Value
  BY GroupFits
<1>2. GroupBits(v) = GroupBits(q)
  <2>1. CASE q % 2^13 > 88
    <3>1. q % 8192 > 88 /\ GroupBits(q) = 13 /\ v = q % 8192
      BY <2>1, Powers, SMT DEF GroupBits
    <3> HIDE DEF v
    <3>2. v % 8192 = q % 8192
      BY <3>1, SMT
    <3> QED BY <3>1, <3>2, Powers, SMT DEF GroupBits
  <2>2. CASE ~ (q % 2^13 > 88)
    <3>1. q % 8192 <= 88 /\ GroupBits(q) = 14 /\ v = q % 16384
      BY <2>2, Powers, SMT DEF GroupBits
    <3> HIDE DEF v
    <3>2. v % 8192 = q % 8192
      BY <3>1, SMT
    <3> QED BY <3>1, <3>2, Powers, SMT DEF GroupBits
  <2> QED BY <2>1, <2>2
<1> HIDE DEF v
<1>3. ValueOf(PairOf(v)[1], PairOf(v)[2]) = v
  <2>1. PairOf(v)[1] = v % 91 /\ PairOf(v)[2] = v \div 91
    BY Zenon DEF PairOf
  <2>2. (v % 91) + 91 * (v \div 91) = v
    BY <1>1, SMT DEF Value
  <2> QED BY <2>1, <2>2, Zenon DEF ValueOf
<1> QED BY <1>2, <1>3 DEF v
=============================================================================
