----------------------------- MODULE MCBlockRuns -----------------------------
(* Batches for model-checking BlockRuns: lines of one block to four, with    *)
(* and without room behind the last block, and blocks with bytes of every    *)
(* size; the blocks that are decoded include invalid ones.                   *)
EXTENDS BlockRuns

\* Blocks per line and lines: an odd number is a partial line of its own.
Shapes == {<<1, 1>>, <<2, 1>>, <<3, 1>>, <<2, 2>>, <<2, 3>>, <<4, 2>>}

\* Bytes without a pattern that a misplaced register would repeat.
DataByte(seed, k) == ((seed * 61 + 37) * k + (k * k) \div 3 + 7 * seed) % 256
Data(seed, size) == [k \in 1 .. size |-> DataByte(seed, k)]

EncodeBatch(shape, gap, lf, extra, seed) ==
    LET stride == 16 * shape[1] + gap
    IN  [op |-> "encode", level |-> "", n |-> shape[1], lines |-> shape[2],
         stride |-> stride, lf |-> lf, w |-> 0,
         src |-> Data(seed, 13 * shape[1] * shape[2] + extra),
         room |-> stride * shape[2] + 2]

\* A line of blocks with terminators; character x of block b is replaced by
\* c, and c = 0 replaces none.
CodedBatch(shape, gap, room, seed, b, x, c) ==
    LET n      == shape[1]
        lines  == shape[2]
        stride == 16 * n + gap
        raw    == Data(seed, 13 * n * lines)
        text(k) == EncodeScalar([j \in 0 .. 12 |-> raw[13 * k + j + 1]])
        at(a)  == LET l == a \div stride
                      k == n * l + (a % stride) \div 16
                  IN  IF a % stride >= 16 * n THEN 10
                      ELSE IF c # 0 /\ k = b /\ (a % stride) % 16 = x THEN c
                      ELSE text(k)[(a % stride) % 16]
    IN  [op |-> "decode", level |-> "", n |-> n, lines |-> lines,
         stride |-> stride, lf |-> FALSE, w |-> 2,
         src |-> [a \in 1 .. stride * lines |-> at(a - 1)],
         room |-> 2 + 13 * n * lines + room]

MCLevels == {"scalar", "sse41", "avx2"}

MCBatches ==
    {EncodeBatch(s, 1, lf, extra, seed) :
        s \in Shapes, lf \in BOOLEAN, extra \in {0, 2, 3}, seed \in {1, 2}}

\* 39 is the apostrophe, 34 and 127 are next to the alphabet, 200 is no ASCII
\* character, and 126 is worth most, so that a pair may exceed 13 bits.
MCCoded ==
    {CodedBatch(s, gap, room, 1, 0, 0, 0) :
        s \in Shapes, gap \in {1, 2}, room \in {0, 2, 3, 5}}
    \cup {CodedBatch(s, 1, room, 2, b, x, c) :
             s \in {<<3, 1>>, <<2, 2>>}, room \in {0, 3}, b \in {0, 2}, x \in {1, 15},
             c \in {34, 39, 126, 127, 200}}
=============================================================================
