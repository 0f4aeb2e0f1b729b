----------------------------- MODULE SimdEncoder -----------------------------
(* The streaming encoder of the SIMD format (simd/driver.rs, EncodeCore;     *)
(* simd/mod.rs, Encoder).  A call of encode takes the next bytes of stream   *)
(* and then runs by itself: bytes up to a block boundary, batches of blocks, *)
(* the bytes left.  13 bytes are a block, 16 characters.                     *)
(*                                                                           *)
(* Byte values and the bit queue are the code's own.  A call with no bytes,  *)
(* or with a buffer that is too small, changes nothing and is not an action; *)
(* the width of a line is 0 or a multiple of 32, as Encoder::new checks.     *)
EXTENDS Integers, Sequences

CONSTANTS
    Streams,      \* the streams of bytes that a session may encode
    ChunkSizes,   \* how many bytes a call may be given, the rest excepted
    Widths,       \* line widths, 0 for no lines
    Batch         \* BATCH: blocks that the kernels are given at a time

Byte == 0 .. 255

ASSUME EncoderAssumption ==
    /\ Streams \subseteq Seq(Byte)
    /\ ChunkSizes \subseteq Nat
    /\ Widths \subseteq {n \in Nat : n % 32 = 0}
    /\ Batch \in Nat \ {0}

VARIABLES
    stream,     \* all the bytes of this session
    fed,        \* how many of them the calls that returned were given
    end,        \* where the bytes of the call in progress end
    pos,        \* bytes read
    core,       \* EncodeCore
    blocks,     \* blocks left to the batches of this call
    w,          \* what this call has written (what finish has, once ended)
    reach,      \* how far into the stream its kernels have loaded bytes
    text,       \* what the caller has
    promised,   \* the length that it is to write exactly
    pc          \* "idle", "align", "blocks", "tail", "ended" (finish returned)

vars == <<stream, fed, end, pos, core, blocks, w, reach, text, promised, pc>>

Char == 0 .. 90
Dash == 9
LF == 91
Symbol == Char \cup {LF}

\* Definitions named ...Bug are not part of the model: each is the definition
\* after it with a plausible mistake, which a property must notice.

NewCore(wrap) ==
    [wrap |-> wrap, started |-> FALSE, col |-> 0, queue |-> 0, nbits |-> 0]

Init ==
    /\ stream \in Streams
    /\ \E wrap \in Widths : core = NewCore(wrap)
    /\ fed = 0 /\ end = 0 /\ pos = 0 /\ blocks = 0
    /\ w = << >> /\ reach = 0 /\ text = << >>
    /\ promised = 0
    /\ pc = "idle"

----------------------------------------------------------------------------
\* The exact lengths that the calls ask for.

Header(c) == IF c.wrap > 0 THEN <<Dash, LF>> ELSE <<Dash>>

\* Line breaks, without the characters already in the line.
EncodeLenBug(c, n) ==
    LET chars == 2 * ((c.nbits + 8 * n) \div 13)
    IN  (IF c.started THEN 0 ELSE Len(Header(c)))
        + chars + (IF c.wrap = 0 THEN 0 ELSE chars \div c.wrap)

EncodeLen(c, n) ==
    LET chars == 2 * ((c.nbits + 8 * n) \div 13)
    IN  (IF c.started THEN 0 ELSE Len(Header(c)))
        + chars + (IF c.wrap = 0 THEN 0 ELSE (c.col + chars) \div c.wrap)

LastChars(c) == IF c.nbits = 0 THEN 0 ELSE IF c.nbits <= 6 THEN 1 ELSE 2

\* One line break for each line that the characters complete or leave open.
FinishLen(c) ==
    IF ~ c.started THEN 0
    ELSE LastChars(c)
         + (IF c.wrap = 0 THEN 0
            ELSE (c.col + LastChars(c) + c.wrap - 1) \div c.wrap)

\* encoded_len: the length of the whole text of n bytes, and of its payload.
TailChars == <<0, 2, 3, 4, 5, 7, 8, 9, 10, 12, 13, 14, 15>>

\* A line break for each whole line only.
EncodedLenBug(n, wrap) ==
    LET payload == 16 * (n \div 13) + TailChars[(n % 13) + 1]
    IN  IF n = 0 THEN 0
        ELSE IF wrap = 0 THEN 1 + payload
        ELSE 2 + payload + payload \div wrap

EncodedLen(n, wrap) ==
    LET payload == 16 * (n \div 13) + TailChars[(n % 13) + 1]
    IN  IF n = 0 THEN 0
        ELSE IF wrap = 0 THEN 1 + payload
        ELSE 2 + payload + (payload + wrap - 1) \div wrap

\* An upper bound of it, which encode_unchecked asks for.
EncodeSizeHint(n, wrap) ==
    LET payload == (16 * n + 12) \div 13 + 2
    IN  1 + payload
        + (IF wrap = 0 THEN 0 ELSE 1 + (payload + wrap - 1) \div wrap)

----------------------------------------------------------------------------
\* One character or one byte at a time.  e has the core and the output.

\* The character that fills a line brings its LF.
PutChar(e, c) ==
    LET col  == e.core.col + 1
        full == col = e.core.wrap
    IN  IF e.core.wrap = 0 THEN [core |-> e.core, w |-> Append(e.w, c)]
        ELSE [core |-> [e.core EXCEPT !.col = IF full THEN 0 ELSE col],
              w    |-> e.w \o (IF full THEN <<c, LF>> ELSE <<c>>)]

PutPair(e, v) == PutChar(PutChar(e, v % 91), v \div 91)

\* The output with the core's queue replaced.
Requeued(e, queue, nbits) ==
    [core |-> [e.core EXCEPT !.queue = queue, !.nbits = nbits], w |-> e.w]

\* A group is written when its 13 bits are there.  The queue is below
\* 2^nbits (TypeOK), so the code's `queue | byte << nbits` is a sum.
PushByte(e, b) ==
    LET queue == e.core.queue + b * 2^e.core.nbits
        nbits == e.core.nbits + 8
    IN  IF nbits < 13 THEN Requeued(e, queue, nbits)
        ELSE PutPair(Requeued(e, queue \div 2^13, nbits - 13), queue % 2^13)

\* 6 bits are two characters.
PutLastBug(e) ==
    LET v == e.core.queue % 2^13
    IN  IF e.core.nbits = 0 THEN e
        ELSE IF e.core.nbits < 6 THEN PutChar(e, v % 91)
        ELSE PutPair(e, v)

\* The group that is left: one character for 6 bits or less.
PutLast(e) ==
    LET v == e.core.queue % 2^13
    IN  IF e.core.nbits = 0 THEN e
        ELSE IF e.core.nbits <= 6 THEN PutChar(e, v % 91)
        ELSE PutPair(e, v)

Out == [core |-> core, w |-> w]

----------------------------------------------------------------------------
\* Blocks.

\* Group k of the block that begins at p: 13 bits in the three bytes that
\* begin at bit 13k; those past the block are loaded as zero or masked.
BlockGroup(p, k) ==
    LET at(j) == LET b == (13 * k) \div 8 + j
                 IN  IF b < 13 THEN stream[p + b + 1] ELSE 0
    IN  ((at(0) + 2^8 * at(1) + 2^16 * at(2)) \div 2^((13 * k) % 8)) % 2^13

BlockChar(p, j) ==
    LET v == BlockGroup(p, j \div 2)
    IN  IF j % 2 = 0 THEN v % 91 ELSE v \div 91

\* What encode_blocks writes: lines of n blocks, each with its LF or not.
BatchText(n, lines, terminate) ==
    LET stride == 16 * n + (IF terminate THEN 1 ELSE 0)
    IN  [x \in 1 .. stride * lines |->
            LET l == (x - 1) \div stride
                c == (x - 1) % stride
            IN  IF c = 16 * n THEN LF
                ELSE BlockChar(pos + 13 * (l * n + c \div 16), c % 16)]

\* How far its kernels load: three bytes past a block, unless the chunk ends
\* before them; the last block then goes through a padded copy.
LoadsToBug(n) == pos + 13 * n + 3

LoadsTo(n) ==
    IF end - pos >= 13 * n + 3 THEN pos + 13 * n + 3
    ELSE IF n > 1 THEN pos + 13 * (n - 1) + 3 ELSE pos

----------------------------------------------------------------------------
\* encode_slice and encode, with n bytes: the prefix comes with the first.
Encode(n) ==
    /\ pc = "idle" /\ n > 0
    /\ end' = fed + n
    /\ promised' = EncodeLen(core, n)
    /\ core' = [core EXCEPT !.started = TRUE]
    /\ w' = IF core.started THEN << >> ELSE Header(core)
    /\ pc' = "align"
    /\ UNCHANGED <<stream, fed, pos, blocks, reach, text>>

\* push_byte of the next byte.
TakeByte ==
    LET e == PushByte(Out, stream[pos + 1])
    IN  /\ core' = e.core /\ w' = e.w
        /\ pos' = pos + 1
        /\ UNCHANGED <<stream, fed, end, blocks, reach, text, promised,
                       pc>>

AlignByte == pc = "align" /\ core.nbits # 0 /\ pos < end /\ TakeByte

Aligned ==
    /\ pc = "align" /\ (core.nbits = 0 \/ pos = end)
    /\ blocks' = (end - pos) \div 13
    /\ pc' = "blocks"
    /\ UNCHANGED <<stream, fed, end, pos, core, w, reach, text, promised>>

\* A batch of n blocks a line.
TakeBatch(n, lines) ==
    /\ pos' = pos + 13 * n * lines
    /\ blocks' = blocks - n * lines
    /\ reach' = LoadsTo(n * lines)
    /\ UNCHANGED <<stream, fed, end, text, promised, pc>>

PerLine == core.wrap \div 16

\* The batch begins a line and has the blocks of one.
AtWholeLines == core.wrap > 0 /\ core.col = 0 /\ blocks >= PerLine

AtMost(a, b) == IF a < b THEN a ELSE b

\* As many whole lines as a batch holds, at least one, with their LFs.
LineBatch ==
    LET most  == Batch \div PerLine
        lines == AtMost(blocks \div PerLine, IF most = 0 THEN 1 ELSE most)
    IN  /\ pc = "blocks" /\ blocks > 0 /\ AtWholeLines
        /\ w' = w \o BatchText(PerLine, lines, TRUE)
        /\ TakeBatch(PerLine, lines)
        /\ UNCHANGED core

\* The blocks of an open line, or those left when there are no lines: all
\* that there are, or up to the end of the line, which then gets its LF.
RowBlocks ==
    IF core.wrap = 0 THEN blocks ELSE AtMost(blocks, (core.wrap - core.col) \div 16)

\* A line filled by a batch stays open.
RowBatchBug ==
    LET col  == core.col + 16 * RowBlocks
    IN  /\ pc = "blocks" /\ blocks > 0 /\ ~ AtWholeLines
        /\ w' = w \o BatchText(RowBlocks, 1, FALSE)
        /\ core' = IF core.wrap = 0 THEN core ELSE [core EXCEPT !.col = col]
        /\ TakeBatch(RowBlocks, 1)

RowBatch ==
    LET col  == core.col + 16 * RowBlocks
        full == core.wrap > 0 /\ col = core.wrap
    IN  /\ pc = "blocks" /\ blocks > 0 /\ ~ AtWholeLines
        /\ w' = w \o BatchText(RowBlocks, 1, FALSE)
                  \o (IF full THEN <<LF>> ELSE << >>)
        /\ core' = IF core.wrap = 0 THEN core
                   ELSE [core EXCEPT !.col = IF full THEN 0 ELSE col]
        /\ TakeBatch(RowBlocks, 1)

BlocksDone ==
    /\ pc = "blocks" /\ blocks = 0
    /\ pc' = "tail"
    /\ UNCHANGED <<stream, fed, end, pos, core, blocks, w, reach, text,
                   promised>>

TailByte == pc = "tail" /\ pos < end /\ TakeByte

Return ==
    /\ pc = "tail" /\ pos = end
    /\ text' = text \o w /\ fed' = end
    /\ w' = << >> /\ reach' = 0 /\ promised' = 0
    /\ pc' = "idle"
    /\ UNCHANGED <<stream, end, pos, core, blocks>>

\* The last group, and the LF of a line that is not full; the core is new.
Finish ==
    LET last == PutLast([core |-> core, w |-> << >>])
        rest == last.w
                \o (IF core.wrap > 0 /\ last.core.col # 0 THEN <<LF>> ELSE << >>)
        written == IF core.started THEN rest ELSE << >>
    IN  /\ pc = "idle"
        /\ w' = written /\ text' = text \o written
        /\ promised' = FinishLen(core)
        /\ core' = NewCore(core.wrap)
        /\ pc' = "ended"
        /\ UNCHANGED <<stream, fed, end, pos, blocks, reach>>

\* Another session, with the encoder that finish_slice reset.
Begin ==
    /\ pc = "ended"
    /\ stream' \in Streams
    /\ fed' = 0 /\ end' = 0 /\ pos' = 0 /\ text' = << >>
    /\ w' = << >> /\ promised' = 0
    /\ pc' = "idle"
    /\ UNCHANGED <<core, blocks, reach>>

Step == \/ AlignByte \/ Aligned
        \/ LineBatch \/ RowBatch \/ BlocksDone
        \/ TailByte \/ Return

Next ==
    \/ \E n \in 1 .. Len(stream) - fed :
           (n \in ChunkSizes \/ fed + n = Len(stream)) /\ Encode(n)
    \/ Step
    \/ Finish
    \/ Begin

\* A call in progress runs on.
Spec == Init /\ [][Next]_vars /\ WF_vars(Step)

----------------------------------------------------------------------------
\* Properties.

\* Every variable keeps its type: the symbols are characters and LFs, the
\* pending bits less than a group, and nothing is in the queue above them.
TypeOK ==
    /\ stream \in Seq(Byte)
    /\ fed \in 0 .. end /\ pos \in fed .. end /\ end \in 0 .. Len(stream)
    /\ core \in [wrap : Widths, started : BOOLEAN, col : Nat,
                 queue : Nat, nbits : 0 .. 12]
    /\ core.queue < 2^core.nbits
    /\ blocks \in Nat /\ reach \in Nat
    /\ w \in Seq(Symbol) /\ text \in Seq(Symbol)
    /\ promised \in Nat
    /\ pc \in {"idle", "align", "blocks", "tail", "ended"}

\* A call of encode is in progress.
Running == pc \in {"align", "blocks", "tail"}

\* Each call writes exactly the length that it asked room for, whichever of
\* the three writers meets the end of a line: the callers take the buffer as
\* initialized up to there.
LengthExact ==
    pc = "ended" \/ (pc = "tail" /\ pos = end) => Len(w) = promised

\* The batch in question would be of n > 0 blocks a line, and end in the
\* buffer: what encode_blocks asserts before it lets the kernels store.
BatchStores ==
    LET most  == Batch \div PerLine
        lines == AtMost(blocks \div PerLine, IF most = 0 THEN 1 ELSE most)
    IN  IF AtWholeLines
        THEN lines > 0 /\ Len(w) + (core.wrap + 1) * lines <= promised
        ELSE RowBlocks > 0 /\ Len(w) + 16 * RowBlocks <= promised

\* No byte is stored past the buffer in the middle of a call, and no batch
\* is out of bounds or empty.
WritesInBounds ==
    /\ Running => Len(w) <= promised
    /\ pc = "blocks" /\ blocks > 0 => BatchStores

\* The kernels load no byte past the chunk, although each block's loads go
\* three bytes beyond it.
LoadsInBounds == reach <= end

\* A whole session writes the encoded_len of its bytes: the one-shot calls
\* give the two calls of a session one buffer of that size, and the unchecked
\* one's caller gives the hint.
SessionFits ==
    /\ pc = "ended" => Len(text) = EncodedLen(fed, core.wrap)
    /\ Running =>
          Len(text) + promised <= EncodedLen(end, core.wrap)
    /\ EncodedLen(end, core.wrap) <= EncodeSizeHint(end, core.wrap)

\* The characters of m bytes' whole groups, where the last of n characters
\* leaves the line, and how many lines they fill.
GroupChars(m) == 2 * ((8 * m) \div 13)
Column(n, wrap) == IF wrap = 0 THEN 0 ELSE n % wrap
FullLines(n, wrap) == IF wrap = 0 THEN 0 ELSE n \div wrap

\* What has been written when m bytes have been read, if any call was made.
WrittenLen(m, wrap) ==
    (IF wrap = 0 THEN 1 ELSE 2)
    + GroupChars(m) + FullLines(GroupChars(m), wrap)

\* The bit queue and the column are where the bytes read put them, whichever
\* writer took them.
CountersAgree ==
    pc # "ended" =>
        /\ core.nbits = (8 * pos) % 13
        /\ core.col = Column(GroupChars(pos), core.wrap)
        /\ core.started = (end > 0)

\* So are the lengths of the text and of the call's part of it.
LengthsAgree ==
    /\ pc # "ended" /\ fed > 0 => Len(text) = WrittenLen(fed, core.wrap)
    /\ pc # "ended" /\ fed = 0 => text = << >>
    /\ Running =>
          /\ Len(text) + Len(w) = WrittenLen(pos, core.wrap)
          /\ Len(text) + promised = WrittenLen(end, core.wrap)
    /\ pc = "ended" =>
          Len(w) = promised /\ Len(text) = EncodedLen(fed, core.wrap)

\* Where a call is says what it may rely on.
CallShape ==
    /\ Running => fed < end
    /\ ~ Running => fed = end /\ pos = end /\ reach = 0
    /\ pc = "idle" => w = << >>
    /\ pc = "ended" => core = NewCore(core.wrap)
    /\ pc = "blocks" =>
          blocks = (end - pos) \div 13 /\ (core.nbits = 0 \/ pos = end)

\* The inductive invariant.
IInv == TypeOK /\ CallShape /\ CountersAgree /\ LengthsAgree /\ LoadsInBounds

\* However the bytes are cut into calls, the text so far is the settled part
\* of the canonical one, and after finish it is the canonical one.
Canon == INSTANCE CanonicalText WITH
             width <- core.wrap, given <- SubSeq(stream, 1, fed),
             done <- pc = "ended"
ImplementsCanonical == Canon!Spec

=============================================================================
