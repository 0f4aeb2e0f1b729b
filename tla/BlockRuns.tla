----------------------------- MODULE BlockRuns ------------------------------
(* A batch of whole blocks (driver.rs: encode_blocks, decode_blocks): lines  *)
(* of n blocks, whose characters begin every stride bytes and whose bytes    *)
(* are contiguous.  The kernels of a level load and store whole registers,   *)
(* and so more than the block: the driver gives the last block buffers of    *)
(* its own where the caller's end with it, and the order of the stores       *)
(* decides what stays.                                                       *)
(*                                                                           *)
(* A batch is a sequence of calls of the line functions of x86.rs, which     *)
(* load and store one block (scalar, SSE4.1) or two (AVX2) at a time.        *)
EXTENDS BlockCode, VectorKernel, Sequences

CONSTANTS
    Levels,     \* the kernels: "scalar", "sse41", "avx2"
    Batches,    \* the batches to encode
    Coded       \* the batches to decode

Kernels == {"scalar", "sse41", "avx2"}

\* Lines that do not overlap, with room for an LF behind each: a caller's
\* stride is the width and its line break.  Init gives the level.
Shaped(b, op) ==
    /\ b \in [op : {op}, level : Kernels \cup {""}, n : Nat \ {0}, lines : Nat \ {0},
              stride : Nat, lf : BOOLEAN, w : Nat, src : Seq(Byte), room : Nat]
    /\ b.lines = 1 \/ b.stride >= 16 * b.n + (IF b.lf THEN 1 ELSE 0)

LineRoom(b) == b.stride * (b.lines - 1) + 16 * b.n

\* What the assertions of encode_blocks and decode_blocks let through.
ASSUME BlockRunsAssumption ==
    /\ Levels \subseteq Kernels
    /\ \A b \in Batches :
          /\ Shaped(b, "encode")
          /\ Len(b.src) >= 13 * b.n * b.lines
          /\ b.room >= LineRoom(b) + (IF b.lf THEN 1 ELSE 0)
    /\ \A b \in Coded :
          /\ Shaped(b, "decode") /\ ~b.lf
          /\ Len(b.src) >= LineRoom(b)
          /\ b.room >= b.w + 13 * b.n * b.lines

VARIABLES
    batch,      \* the call's arguments
    out,        \* the output, as the caller sees it
    side,       \* the stack buffer: pad when encoding, last when decoding
    todo,       \* the calls of line functions not made yet; the first is
                \*   in progress
    line, unit, \* its line and what it does next in it
    worst,      \* its running maxima: of the indices, of the pair values
    ok,         \* whether the calls before it found valid blocks only
    pc          \* "run", "copy" or "done"

vars == <<batch, out, side, todo, line, unit, worst, ok, pc>>

Slack == 3      \* DECODE_SLACK, and what the encoders load past a block
Keep == -1      \* a byte of the output that nothing was stored to

Encoding == batch.op = "encode"
Blocks == batch.n * batch.lines
Register == [0 .. 15 -> Byte]
Zeros == [j \in 0 .. 15 |-> 0]

\* A call of a line function of kernel k: n units in each of lines lines.
\* Offset at is the side that is contiguous in bytes when encoding and in
\* characters when decoding; to is the other side's.
Call(k, from, at, to, into, stride, n, lines, lf) ==
    [kernel |-> k, from |-> from, at |-> at, to |-> to, into |-> into,
     stride |-> stride, n |-> n, lines |-> lines, lf |-> lf]

Size(call) == IF call.kernel = "avx2" THEN 2 ELSE 1

\* encode_run.  An odd number of blocks per line: AVX2 for the even part,
\* line by line, and SSE4.1 for the last block.
EncodeRunBug(level, from, at, into, stride, n, lines, lf) ==
    <<Call(level, from, at, "out", into, stride,
           IF level = "avx2" THEN n \div 2 ELSE n, lines, lf)>>

EncodeRun(level, from, at, into, stride, n, lines, lf) ==
    IF level = "avx2" /\ n % 2 = 1
    THEN [i \in 1 .. 2 * lines |->
            LET src == at + 13 * n * ((i - 1) \div 2)
                dst == into + stride * ((i - 1) \div 2)
            IN  IF i % 2 = 1
                THEN Call("avx2", from, src, "out", dst, 0, n \div 2, 1, FALSE)
                ELSE Call("sse41", from, src + 13 * (n - 1), "out",
                          dst + 16 * (n - 1), 0, 1, 1, lf)]
    ELSE <<Call(level, from, at, "out", into, stride,
                IF level = "avx2" THEN n \div 2 ELSE n, lines, lf)>>

\* decode_run, likewise.
DecodeRun(level, at, stride, to, into, n, lines) ==
    IF level = "avx2" /\ n % 2 = 1
    THEN [i \in 1 .. 2 * lines |->
            LET src == at + stride * ((i - 1) \div 2)
                dst == into + 13 * n * ((i - 1) \div 2)
            IN  IF i % 2 = 1
                THEN Call("avx2", "src", src, to, dst, 0, n \div 2, 1, FALSE)
                ELSE Call("sse41", "src", src + 16 * (n - 1), to,
                          dst + 13 * (n - 1), 0, 1, 1, FALSE)]
    ELSE <<Call(level, "src", at, to, into, stride,
                IF level = "avx2" THEN n \div 2 ELSE n, lines, FALSE)>>

\* encode_blocks: with three bytes behind the last block, one run; otherwise
\* the last block is encoded from a padded copy.
EncodeCallsBug(b) ==
    EncodeRun(b.level, "src", 0, 0, b.stride, b.n, b.lines, b.lf)

EncodeCalls(b) ==
    LET last == b.stride * (b.lines - 1)
    IN  IF Len(b.src) >= 13 * b.n * b.lines + Slack
        THEN EncodeRun(b.level, "src", 0, 0, b.stride, b.n, b.lines, b.lf)
        ELSE EncodeRun(b.level, "src", 0, 0, b.stride, b.n, b.lines - 1, b.lf)
             \o EncodeRun(b.level, "src", 13 * b.n * (b.lines - 1), last, 0,
                          b.n - 1, 1, FALSE)
             \o EncodeRun(b.level, "pad", 0, last + 16 * (b.n - 1), 0, 1, 1, b.lf)

Pad(b) ==
    [j \in 0 .. 15 |->
        IF j < 13 THEN b.src[13 * (b.n * b.lines - 1) + j + 1] ELSE 0]

\* decode_blocks: with three bytes of room behind the last block, one run;
\* otherwise the last block is decoded to a buffer of its own.
RoomForSlack(b) == b.room - b.w >= 13 * b.n * b.lines + Slack

DecodeCalls(b) ==
    LET last == b.stride * (b.lines - 1)
        done == b.w + 13 * b.n * (b.lines - 1)
    IN  IF RoomForSlack(b)
        THEN DecodeRun(b.level, 0, b.stride, "out", b.w, b.n, b.lines)
        ELSE DecodeRun(b.level, 0, b.stride, "out", b.w, b.n, b.lines - 1)
             \o DecodeRun(b.level, last, 0, "out", done, b.n - 1, 1)
             \o DecodeRun(b.level, last + 16 * (b.n - 1), 0, "side", 0, 1, 1)

Init ==
    /\ \E b \in Batches \cup Coded, k \in Levels :
         batch = [b EXCEPT !.level = k]
    /\ out = [a \in 0 .. batch.room - 1 |-> Keep]
    /\ side = IF Encoding THEN Pad(batch) ELSE Zeros
    /\ todo = IF Encoding THEN EncodeCalls(batch) ELSE DecodeCalls(batch)
    /\ line = 0 /\ unit = 0 /\ worst = <<0, 0>> /\ ok = TRUE
    /\ pc = "run"

----------------------------------------------------------------------------
call == Head(todo)
Running == pc = "run" /\ todo # << >> /\ line < call.lines

\* Where a unit's bytes and characters begin, in the call's buffers.
UnitBytes == 13 * Size(call) * (call.n * line + unit)
UnitChars == call.stride * line + 16 * Size(call) * unit

\* What is loaded and stored from address a on, of a register or a block.
LoadSrc(a, size) == [j \in 0 .. size - 1 |-> batch.src[a + j + 1]]
Load(a, size) ==
    IF call.from = "pad" THEN [j \in 0 .. size - 1 |-> side[a + j]]
    ELSE LoadSrc(a, size)
Store(m, a, bytes) ==
    [x \in DOMAIN m |-> IF x - a \in DOMAIN bytes THEN bytes[x - a] ELSE m[x]]

\* The addresses that a unit loads from and stores to.
Loads ==
    IF Encoding
    THEN LET a == call.at + UnitBytes
         IN  a .. a + (IF call.kernel = "scalar" THEN 12
                       ELSE IF call.kernel = "avx2" THEN 28 ELSE 15)
    ELSE LET a == call.at + UnitChars
         IN  a .. a + 16 * Size(call) - 1
Stores ==
    IF Encoding
    THEN LET a == call.into + UnitChars
         IN  a .. a + 16 * Size(call) - 1
    ELSE LET a == call.into + UnitBytes
         IN  a .. a + (IF call.kernel = "scalar" THEN 12
                       ELSE IF call.kernel = "avx2" THEN 28 ELSE 15)

\* A unit of an encoding line function: each block is loaded with what is
\* behind it, and gives 16 characters.
EncodeUnit ==
    LET encoded(u) ==
            LET a == call.at + UnitBytes + 13 * u
            IN  IF call.kernel = "scalar" THEN EncodeScalar(Load(a, 13))
                ELSE EncodeVector(Load(a, 16))
        to == call.into + UnitChars
    IN  /\ Running /\ Encoding /\ unit < call.n
        /\ out' = IF Size(call) = 1 THEN Store(out, to, encoded(0))
                  ELSE Store(Store(out, to, encoded(0)), to + 16, encoded(1))
        /\ unit' = unit + 1
        /\ UNCHANGED <<batch, side, todo, line, worst, ok, pc>>

Greatest(S) == CHOOSE x \in S : \A y \in S : y <= x

\* What a kernel reports of a block: its largest index and pair value.  The
\* lanes of the registers are compared with the same bounds at the end, so
\* one maximum stands for all.
Report(chars) ==
    <<Greatest({CheckedIndex(chars[x]) : x \in 0 .. 15}),
      Greatest({VectorValue(chars, g) : g \in 0 .. 7})>>

\* The scalar kernel reports a mask: invalid is as good as an index of 255.
ScalarReport(chars) == IF ValidScalar(chars) THEN <<0, 0>> ELSE <<255, 0>>

WorstOf(r, s) == <<Greatest({r[1], s[1]}), Greatest({r[2], s[2]})>>

\* The two blocks of a unit stored in the other order.
DecodeUnitBug ==
    LET chars(u) == LoadSrc(call.at + UnitChars + 16 * u, 16)
        vector   == call.kernel # "scalar"
        bytes(u) == IF vector THEN DecodeVector(chars(u))
                    ELSE DecodeScalar(chars(u))
        report(u) == IF vector THEN Report(chars(u)) ELSE ScalarReport(chars(u))
        to == call.into + UnitBytes
        Stored(m) == IF Size(call) = 1 THEN Store(m, to, bytes(0))
                     ELSE Store(Store(m, to + 13, bytes(1)), to, bytes(0))
    IN  /\ Running /\ ~Encoding /\ unit < call.n
        /\ IF call.to = "out" THEN out' = Stored(out) /\ UNCHANGED side
           ELSE side' = Stored(side) /\ UNCHANGED out
        /\ worst' = IF Size(call) = 1 THEN WorstOf(worst, report(0))
                    ELSE WorstOf(WorstOf(worst, report(0)), report(1))
        /\ unit' = unit + 1
        /\ UNCHANGED <<batch, todo, line, ok, pc>>

\* A unit of a decoding line function: a vector kernel stores the 13 bytes of
\* each block and 3 more, the second block's after the first's.
DecodeUnit ==
    LET chars(u) == LoadSrc(call.at + UnitChars + 16 * u, 16)
        vector   == call.kernel # "scalar"
        bytes(u) == IF vector THEN DecodeVector(chars(u))
                    ELSE DecodeScalar(chars(u))
        report(u) == IF vector THEN Report(chars(u)) ELSE ScalarReport(chars(u))
        to == call.into + UnitBytes
        Stored(m) == IF Size(call) = 1 THEN Store(m, to, bytes(0))
                     ELSE Store(Store(m, to, bytes(0)), to + 13, bytes(1))
    IN  /\ Running /\ ~Encoding /\ unit < call.n
        /\ IF call.to = "out" THEN out' = Stored(out) /\ UNCHANGED side
           ELSE side' = Stored(side) /\ UNCHANGED out
        /\ worst' = IF Size(call) = 1 THEN WorstOf(worst, report(0))
                    ELSE WorstOf(WorstOf(worst, report(0)), report(1))
        /\ unit' = unit + 1
        /\ UNCHANGED <<batch, todo, line, ok, pc>>

\* A line ends, with its LF when the call writes them.
LineFeedAt == call.into + call.stride * line + 16 * Size(call) * call.n

LineEnd ==
    /\ Running /\ unit = call.n
    /\ out' = IF call.lf THEN Store(out, LineFeedAt, [j \in 0 .. 0 |-> 10]) ELSE out
    /\ line' = line + 1 /\ unit' = 0
    /\ UNCHANGED <<batch, side, todo, worst, ok, pc>>

\* A call returns; a decoding one compares its maxima with the bounds
\* (valid_sse41).  The next begins whatever it found.
CallEnd ==
    /\ pc = "run" /\ todo # << >> /\ line = call.lines
    /\ ok' = (ok /\ worst[1] <= 90 /\ worst[2] <= 8191)
    /\ todo' = Tail(todo)
    /\ line' = 0 /\ unit' = 0 /\ worst' = <<0, 0>>
    /\ UNCHANGED <<batch, out, side, pc>>

RunEnd ==
    /\ pc = "run" /\ todo = << >>
    /\ pc' = IF ~Encoding /\ ~RoomForSlack(batch) THEN "copy" ELSE "done"
    /\ UNCHANGED <<batch, out, side, todo, line, unit, worst, ok>>

\* The last block's 13 bytes go to their place.
CopyLast ==
    /\ pc = "copy"
    /\ out' = Store(out, batch.w + 13 * (Blocks - 1), [j \in 0 .. 12 |-> side[j]])
    /\ pc' = "done"
    /\ UNCHANGED <<batch, side, todo, line, unit, worst, ok>>

Done == pc = "done" /\ UNCHANGED vars

Next == EncodeUnit \/ DecodeUnit \/ LineEnd \/ CallEnd \/ RunEnd \/ CopyLast \/ Done

Spec == Init /\ [][Next]_vars

----------------------------------------------------------------------------
\* No register is loaded from or stored to beyond its buffer, and no LF is
\* written there (the safety contracts of x86.rs and driver.rs).
AccessesInside ==
    Running =>
        /\ unit < call.n =>
             /\ Loads \subseteq IF call.from = "pad" THEN 0 .. 15
                                ELSE 0 .. Len(batch.src) - 1
             /\ Stores \subseteq IF call.to = "side" THEN 0 .. 15
                                 ELSE DOMAIN out
        /\ unit = call.n /\ call.lf => LineFeedAt \in DOMAIN out

\* Block b's characters begin here, and block b's bytes there.
CharsAt(b) == batch.stride * (b \div batch.n) + 16 * (b % batch.n)
BytesAt(b) == 13 * b

\* Every level encodes a batch as the scalar code does, block by block, each
\* line with its LF, and writes nothing else.
EncodesAsScalar ==
    pc = "done" /\ Encoding =>
        \A a \in DOMAIN out :
            out[a] =
              IF \E b \in 0 .. Blocks - 1 : a - CharsAt(b) \in 0 .. 15
              THEN LET b == CHOOSE b \in 0 .. Blocks - 1 : a - CharsAt(b) \in 0 .. 15
                   IN  EncodeScalar(LoadSrc(BytesAt(b), 13))[a - CharsAt(b)]
              ELSE IF batch.lf /\ \E l \in 1 .. batch.lines :
                        a = batch.stride * (l - 1) + 16 * batch.n
              THEN 10
              ELSE Keep

\* Every level finds a batch valid when all its blocks are, and then leaves
\* their bytes, each in its place, whatever else the registers held; outside
\* them it writes three bytes at most, and only where there is room.
DecodesAsScalar ==
    pc = "done" /\ ~Encoding =>
        /\ ok <=> \A b \in 0 .. Blocks - 1 : ValidScalar(LoadSrc(CharsAt(b), 16))
        /\ ok => \A b \in 0 .. Blocks - 1 : \A j \in 0 .. 12 :
                   out[batch.w + BytesAt(b) + j]
                     = DecodeScalar(LoadSrc(CharsAt(b), 16))[j]
        /\ \A a \in DOMAIN out :
             a \notin batch.w .. batch.w + 13 * Blocks + Slack - 1 => out[a] = Keep
=============================================================================
