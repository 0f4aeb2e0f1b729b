----------------------------- MODULE SimdDecoder -----------------------------
(* The streaming SIMD decoder: simd::Decoder (simd/mod.rs) around the        *)
(* decoder core (DecodeCore, simd/driver.rs), with its two paths: fast, in   *)
(* batches of whole blocks and whole lines handed to a kernel, and slow, one *)
(* byte at a time.                                                           *)
(*                                                                           *)
(* A call is made by the caller (Decode, DecodeNothing, Finish, ...) and a   *)
(* decode call then runs by the steps of its loops: one action per turn of   *)
(* DecodeCore::decode, of its fast path, and per byte of the slow path.      *)
EXTENDS SimdFormat

CONSTANTS
    Batch,              \* BATCH: blocks per batch, 64 in the code
    LineBatch,          \* LINE_BATCH: blocks per batch of whole lines, 256
    FirstLineProbe,     \* FIRST_LINE_PROBE: first batch of a first line, 2
    Streams,            \* the streams a caller may have
    LaterStreams,       \* those it may have after a successful finish
    ChunkSizes          \* the lengths of the pieces it gives to decode; it
                        \* may always give the rest of the stream

ASSUME DecoderAssumption ==
    /\ Batch \in Nat \ {0} /\ LineBatch \in Nat \ {0}
    /\ FirstLineProbe \in 1 .. Batch
    /\ Streams \subseteq Seq(Byte) /\ LaterStreams \subseteq Streams

VARIABLES
    stream,     \* the whole stream of this session
    fed,        \* bytes of it given by the calls that returned
    end,        \* where the chunk of the call in progress ends
    pos,        \* the next byte of the stream to read
    mode,       \* DecoderMode: "undecided", "simd" or "henke"
    core,       \* DecodeCore (and the offset that Undecided keeps)
    pc,         \* where the call is
    mark,       \* in "fast", where the fast path started; in "reread", where
                \* the batch being re-read ends; else 0
    w,          \* characters decoded by this call
    cap,        \* blocks the output buffer has room for (decode_len)
    wrote,      \* blocks of it written to, by failed batches too
    out,        \* characters delivered by the calls that returned
    ret         \* the answer of the last call

callVars == <<mark, w, cap, wrote>>
vars == <<stream, fed, end, pos, mode, core, pc, callVars, out, ret>>

Strict == INSTANCE StrictDecoder WITH ended <- pc = "ended"
BufferTooSmall == Error("BufferTooSmall", 0)
Answer(op, err) == [op |-> op, err |-> err]

RunHeadLen == 4         \* run_head: the first bytes of a whitespace run
LesserOf(a, b) == IF a <= b THEN a ELSE b
GreaterOf(a, b) == IF a >= b THEN a ELSE b

----------------------------------------------------------------------------
\* DecodeCore

\* Definitions named ...Bug are not part of the model: each is the definition
\* after it with a plausible mistake, which a property below must notice.

\* The first batch of a first line is a full one.
NewCoreBug(offset) ==
    [phase |-> "header", err |-> NoError, offset |-> offset,
     term |-> Unwrapped, width |-> 0, linesDone |-> 0, line |-> 0,
     runStart |-> 0, runLen |-> 0, runHead |-> << >>,
     carry |-> << >>, pairOffset |-> 0, payloadLen |-> 0,
     probe |-> Batch]

NewCore(offset) ==
    [phase |-> "header", err |-> NoError, offset |-> offset,
     term |-> Unwrapped, width |-> 0, linesDone |-> 0, line |-> 0,
     runStart |-> 0, runLen |-> 0, runHead |-> << >>,
     carry |-> << >>, pairOffset |-> 0, payloadLen |-> 0,
     probe |-> FirstLineProbe]

Failed(c, e) == [c EXCEPT !.phase = "failed", !.err = e]

\* The carried characters are forgotten.
DecodeLenBug(c, n) == n \div BlockChars

\* Blocks that the carried characters and n more can complete.
DecodeLen(c, n) == (Len(c.carry) + n) \div BlockChars

TailValid(c) == Len(c.carry) \notin InvalidTails

\* A whitespace byte joins the pending run.
InRun(c, b) ==
    [c EXCEPT !.offset = @ + 1,
              !.runStart = IF c.runLen = 0 THEN c.offset ELSE @,
              !.runHead = IF c.runLen < RunHeadLen THEN Append(@, b) ELSE @,
              !.runLen = @ + 1]

\* Rule 1, judge_run: a pending run is one line break, or the error is at
\* its first byte that is not part of one.
RunFault(c) ==
    LET brk   == c.term # Unwrapped /\ c.line > 0 /\ StartsWith(c.runHead, c.term)
        first == IF brk THEN Len(c.term) ELSE 0
    IN  IF c.runLen = 0 \/ (brk /\ c.runLen = Len(c.term)) THEN NoError
        ELSE RunError(SubSeq(c.runHead, first + 1, Len(c.runHead)),
                      c.runStart + first)

\* The end of the first line is not counted.
AfterRunBug(c) ==
    IF c.runLen = 0 THEN c
    ELSE [c EXCEPT !.runLen = 0, !.runHead = << >>,
                   !.width = IF c.linesDone = 0 THEN c.line ELSE @,
                   !.linesDone = IF @ = 0 THEN 0 ELSE @ + 1, !.line = 0]

\* The line break that a judged run is: the first one sets the width.
AfterRun(c) ==
    IF c.runLen = 0 THEN c
    ELSE [c EXCEPT !.runLen = 0, !.runHead = << >>,
                   !.width = IF c.linesDone = 0 THEN c.line ELSE @,
                   !.linesDone = @ + 1, !.line = 0]

\* Rules 2 and 3: the width, the line just ended, a line too long.
LayoutBroken(c) ==
    LET d == AfterRun(c)
    IN  c.term # Unwrapped
        /\ \/ /\ c.runLen > 0
              /\ \/ c.linesDone = 0 /\ (d.width = 0 \/ d.width % WidthUnit # 0)
                 \/ c.line # d.width
           \/ d.linesDone > 0 /\ d.line = d.width

\* Rules 4 and 5: the alphabet, then the value of a pair just completed.
ContentFault(c, b) ==
    IF b \notin Alphabet THEN Error("InvalidCharacter", c.offset)
    ELSE IF Len(c.carry) % 2 = 1 /\ PairTooBig(c.carry[Len(c.carry)], b)
    THEN Error("InvalidValue", c.pairOffset) ELSE NoError

\* The error that the slow path reports for a byte, NoError if none.
SlowFault(c, b) ==
    CASE b \in Whitespace -> NoError
      [] b \notin Whitespace /\ RunFault(c) # NoError -> RunFault(c)
      [] b \notin Whitespace /\ RunFault(c) = NoError /\ LayoutBroken(c)
            -> Error("InvalidLayout", c.offset)
      [] OTHER -> ContentFault(c, b)

\* The payload is counted block by block.
InPayloadCountBug(c, b) ==
    LET d == AfterRun(c)
    IN  [d EXCEPT !.offset = @ + 1,
                  !.line = IF c.term = Unwrapped THEN @ ELSE @ + 1,
                  !.carry = IF Len(c.carry) + 1 = BlockChars THEN << >>
                            ELSE Append(@, b),
                  !.payloadLen = IF Len(c.carry) + 1 = BlockChars
                                 THEN @ + BlockChars ELSE @]
\* Only the first pair of a block is remembered.
InPayloadPairBug(c, b) ==
    LET d == AfterRun(c)
    IN  [d EXCEPT !.offset = @ + 1,
                  !.line = IF c.term = Unwrapped THEN @ ELSE @ + 1,
                  !.pairOffset = IF c.carry = << >> THEN c.offset ELSE @,
                  !.carry = IF Len(c.carry) + 1 = BlockChars THEN << >>
                            ELSE Append(@, b),
                  !.payloadLen = @ + 1]

\* A payload character: pending, or the last of its block.
InPayload(c, b) ==
    LET d == AfterRun(c)
    IN  [d EXCEPT !.offset = @ + 1,
                  !.line = IF c.term = Unwrapped THEN @ ELSE @ + 1,
                  !.pairOffset = IF Len(c.carry) % 2 = 0 THEN c.offset ELSE @,
                  !.carry = IF Len(c.carry) + 1 = BlockChars THEN << >>
                            ELSE Append(@, b),
                  !.payloadLen = @ + 1]

AfterByte(c, b) == IF b \in Whitespace THEN InRun(c, b) ELSE InPayload(c, b)

\* The characters of the block that byte b completes, if it does.
Completed(c, b) ==
    IF b \notin Whitespace /\ Len(c.carry) + 1 = BlockChars
    THEN Append(c.carry, b) ELSE << >>

----------------------------------------------------------------------------
\* The fast path: c is the core and p the position at the start of a turn.

WidthKnown(c) == c.term # Unwrapped /\ c.linesDone > 0

AtLineEnd(c) == WidthKnown(c) /\ c.line = c.width

\* A line break is taken when its terminator and the next line are visible.
BreakVisible(c, p) ==
    LET next == p + Len(c.term)
    IN  /\ next < end
        /\ SubSeq(stream, p + 1, next) = c.term
        /\ stream[next + 1] \notin Whitespace

AfterBreak(c) ==
    IF AtLineEnd(c)
    THEN [c EXCEPT !.offset = @ + Len(c.term), !.linesDone = @ + 1, !.line = 0]
    ELSE c

\* A batch: lines of n blocks each, line l at l * stride.  Whole lines at the
\* start of one, when the width is known; else blocks in a row, within the
\* line, the probe of a first line, or no limit in an unwrapped stream.
BatchAt(c, p) ==
    LET avail   == end - p
        perLine == c.width \div BlockChars
        stride  == c.width + Len(c.term)
        present == IF avail >= c.width THEN (avail - c.width) \div stride + 1
                   ELSE 0
        room    == IF WidthKnown(c) THEN (c.width - c.line) \div BlockChars
                   ELSE IF c.term # Unwrapped THEN c.probe ELSE Batch
    IN  IF WidthKnown(c) /\ c.line = 0
        THEN [n |-> perLine, stride |-> stride,
              lines |-> LesserOf(present, GreaterOf(LineBatch \div perLine, 1))]
        ELSE [n |-> LesserOf(LesserOf(avail \div BlockChars, room), Batch),
              lines |-> 1, stride |-> 0]

Blocks(b) == b.n * b.lines

\* The last line is left out.
SpanBug(b) == b.stride * (b.lines - 1)
Span(b) == b.stride * (b.lines - 1) + BlockChars * b.n

\* What the kernel reads: the characters of the lines, without what lies
\* between them.
BatchChars(b, p) ==
    LET row == BlockChars * b.n
    IN  [k \in 1 .. row * b.lines |->
            stream[p + b.stride * ((k - 1) \div row) + ((k - 1) % row) + 1]]

CharsValid(s) ==
    /\ \A k \in 1 .. Len(s) : s[k] \in Alphabet
    /\ \A k \in 1 .. Len(s) \div 2 : ~ PairTooBig(s[2 * k - 1], s[2 * k])

\* The terminators inside a batch are taken for granted.
TermsPresentBug(c, b, p) == TRUE

\* The terminators between the lines of a batch, the last one's excepted.
TermsPresent(c, b, p) ==
    \A l \in 1 .. b.lines - 1 :
        SubSeq(stream, p + b.stride * l - Len(c.term) + 1, p + b.stride * l)
            = c.term

BatchValid(c, b, p) == CharsValid(BatchChars(b, p)) /\ TermsPresent(c, b, p)

\* A batch counts for one line.
AfterBatchLinesBug(c, b) ==
    [c EXCEPT !.probe = IF WidthKnown(c) THEN @ ELSE LesserOf(2 * @, Batch),
              !.offset = @ + Span(b),
              !.payloadLen = @ + BlockChars * Blocks(b),
              !.line = IF b.lines > 1 THEN BlockChars * b.n
                       ELSE @ + BlockChars * b.n]

AfterBatch(c, b) ==
    [c EXCEPT !.probe = IF WidthKnown(c) THEN @ ELSE LesserOf(2 * @, Batch),
              !.offset = @ + Span(b),
              !.payloadLen = @ + BlockChars * Blocks(b),
              !.linesDone = @ + b.lines - 1,
              !.line = IF b.lines > 1 THEN BlockChars * b.n
                       ELSE @ + BlockChars * b.n]

----------------------------------------------------------------------------
Init ==
    /\ stream \in Streams
    /\ fed = 0 /\ end = 0 /\ pos = 0
    /\ mode = "undecided" /\ core = NewCore(0)
    /\ pc = "idle" /\ mark = 0 /\ w = << >> /\ cap = 0 /\ wrote = 0
    /\ out = << >> /\ ret = Answer("none", NoError)

\* What decode_slice asks of the buffer, in blocks.  A decoder that has not
\* seen the format yet asks for decode_size_hint, which is at least this.
Needed(n) == IF mode = "simd" THEN DecodeLen(core, n) ELSE n \div BlockChars

NonBlankIn(n) == {i \in pos .. pos + n - 1 : stream[i + 1] \notin Whitespace}

\* The call returns with this answer, and its chunk is behind it.
Return(err) ==
    /\ ret' = Answer("decode", err)
    /\ pc' = "idle" /\ fed' = end /\ pos' = end /\ UNCHANGED <<stream, end>>
    /\ mark' = 0 /\ w' = << >> /\ cap' = 0 /\ wrote' = 0

----------------------------------------------------------------------------
\* Calls.

Chunks == {n \in 1 .. Len(stream) - pos :
              n \in ChunkSizes \/ n = Len(stream) - pos}

\* decode: the next n bytes, in a buffer of the size decode_len asks for.
\* Leading whitespace is skipped; the first other byte decides the format.
Decode(n) ==
    LET first == CHOOSE i \in NonBlankIn(n) : \A j \in NonBlankIn(n) : i <= j
        start(m, p, c) == /\ mode' = m /\ pos' = p /\ core' = c
                          /\ pc' = IF m = "simd" THEN "loop" ELSE "return"
    IN  /\ pc = "idle"
        /\ end' = pos + n
        /\ cap' = Needed(n)
        /\ IF mode # "undecided" THEN start(mode, pos, core)
           ELSE IF NonBlankIn(n) = {}
           THEN start(mode, pos + n, [core EXCEPT !.offset = @ + n])
           ELSE IF stream[first + 1] = "dash"
           THEN start("simd", first + 1,
                      NewCore(core.offset + (first - pos) + 1))
           ELSE start("henke", first, core)
        /\ UNCHANGED <<stream, fed, mark, w, wrote, out, ret>>

\* decode with no bytes: no turn of the loop, whatever the phase.
DecodeNothing ==
    /\ pc = "idle"
    /\ ret' = Answer("empty", NoError)
    /\ UNCHANGED <<stream, fed, end, pos, mode, core, pc, callVars, out>>

\* decode_slice into a buffer with too little room.
DecodeTooSmall ==
    /\ pc = "idle"
    /\ \E n \in Chunks : Needed(n) > 0
    /\ ret' = Answer("decode", BufferTooSmall)
    /\ UNCHANGED <<stream, fed, end, pos, mode, core, pc, callVars, out>>

\* The error of a failed decoder is lost.
FinishErrorBug ==
    IF mode = "simd" /\ core.phase = "body" /\ ~ TailValid(core)
    THEN InvalidLength ELSE NoError

\* finish_len: what finish writes, or the error it reports.
FinishError ==
    IF mode # "simd" THEN NoError
    ELSE IF core.phase = "failed" THEN core.err
    ELSE IF core.phase = "body" /\ ~ TailValid(core) THEN InvalidLength
    ELSE NoError

\* finish_slice.  finish_len reports an error before anything changes.
Finish ==
    /\ pc = "idle"
    /\ ret' = Answer("finish", FinishError)
    /\ IF FinishError # NoError THEN UNCHANGED <<mode, core, pc, out>>
       ELSE /\ out' = IF mode = "simd" /\ core.phase = "body"
                      THEN out \o core.carry ELSE out
            /\ mode' = "undecided" /\ core' = NewCore(0)
            /\ pc' = "ended"
    /\ UNCHANGED <<stream, fed, end, pos, callVars>>

\* finish_slice into a buffer with too little room for the last bytes.
FinishTooSmall ==
    /\ pc = "idle"
    /\ mode = "simd" /\ core.phase = "body" /\ core.carry # << >>
    /\ TailValid(core)
    /\ ret' = Answer("finish", BufferTooSmall)
    /\ UNCHANGED <<stream, fed, end, pos, mode, core, pc, callVars, out>>

\* The decoder that finish reset is used for another stream.
Begin ==
    /\ pc = "ended"
    /\ stream' \in LaterStreams
    /\ fed' = 0 /\ end' = 0 /\ pos' = 0 /\ pc' = "idle"
    /\ out' = << >> /\ ret' = Answer("none", NoError)
    /\ UNCHANGED <<mode, core, callVars>>

----------------------------------------------------------------------------
\* Turns of the loop of DecodeCore::decode.

\* The chunk is exhausted (or its bytes went to the Henke decoder, which
\* never fails): what was decoded is delivered.
ReturnOk ==
    /\ pc = "return" \/ (pc = "loop" /\ pos = end)
    /\ Return(NoError)
    /\ out' = out \o w
    /\ UNCHANGED <<mode, core>>

ReturnFailed ==
    /\ pc = "loop" /\ pos < end /\ core.phase = "failed"
    /\ Return(core.err)
    /\ UNCHANGED <<mode, core, out>>

\* Right after the '-': the byte that decides the layout.
Header ==
    LET b == stream[pos + 1]
    IN  /\ pc = "loop" /\ pos < end /\ core.phase = "header"
        /\ core' = CASE b = "lf" -> [core EXCEPT !.term = LF, !.phase = "body",
                                                !.offset = @ + 1]
                     [] b = "cr" -> [core EXCEPT !.phase = "headerCr",
                                                !.offset = @ + 1]
                     [] OTHER    -> [core EXCEPT !.phase = "body"]
        /\ pos' = IF b \in {"lf", "cr"} THEN pos + 1 ELSE pos
        /\ UNCHANGED <<stream, fed, end, mode, pc, callVars, out, ret>>

\* The run is taken to start at the byte that follows the CR.
HeaderCrBug ==
    LET b == stream[pos + 1]
    IN  /\ pc = "loop" /\ pos < end /\ core.phase = "headerCr"
        /\ core' = IF b = "lf"
                   THEN [core EXCEPT !.term = CRLF, !.phase = "body",
                                     !.offset = @ + 1]
                   ELSE [core EXCEPT !.phase = "body",
                                     !.runStart = core.offset,
                                     !.runLen = 1, !.runHead = <<"cr">>]
        /\ pos' = IF b = "lf" THEN pos + 1 ELSE pos
        /\ UNCHANGED <<stream, fed, end, mode, pc, callVars, out, ret>>

\* After '-' CR: an LF completes a terminator; otherwise the stream is
\* unwrapped and the CR starts a whitespace run.
HeaderCr ==
    LET b == stream[pos + 1]
    IN  /\ pc = "loop" /\ pos < end /\ core.phase = "headerCr"
        /\ core' = IF b = "lf"
                   THEN [core EXCEPT !.term = CRLF, !.phase = "body",
                                     !.offset = @ + 1]
                   ELSE [core EXCEPT !.phase = "body",
                                     !.runStart = core.offset - 1,
                                     !.runLen = 1, !.runHead = <<"cr">>]
        /\ pos' = IF b = "lf" THEN pos + 1 ELSE pos
        /\ UNCHANGED <<stream, fed, end, mode, pc, callVars, out, ret>>

Body ==
    /\ pc = "loop" /\ pos < end /\ core.phase = "body"
    /\ IF core.runLen = 0 /\ core.carry = << >>
       THEN pc' = "fast" /\ mark' = pos
       ELSE pc' = "slow" /\ mark' = 0
    /\ UNCHANGED <<stream, fed, end, pos, mode, core, w, cap, wrote, out, ret>>

----------------------------------------------------------------------------
\* Turns of the loop of DecodeCore::fast.

\* Where a turn's batch starts, after the line break if there is one.
TurnPos == IF AtLineEnd(core) THEN pos + Len(core.term) ELSE pos
TurnCore == AfterBreak(core)
TurnBatch == BatchAt(TurnCore, TurnPos)
BreakMissing == AtLineEnd(core) /\ ~ BreakVisible(core, pos)

\* A turn that consumes nothing does not fall back to the slow path.
FastReturnBug ==
    LET p == IF BreakMissing THEN pos ELSE TurnPos
    IN  /\ pc = "fast"
        /\ BreakMissing \/ Blocks(TurnBatch) = 0
        /\ core' = IF BreakMissing THEN core ELSE TurnCore
        /\ pos' = p
        /\ pc' = "loop" /\ mark' = 0
        /\ UNCHANGED <<stream, fed, end, mode, w, cap, wrote, out, ret>>

\* No line break in sight, or no whole block or line.  Nothing consumed at
\* all leaves the next byte to the slow path.
FastReturn ==
    LET p == IF BreakMissing THEN pos ELSE TurnPos
    IN  /\ pc = "fast"
        /\ BreakMissing \/ Blocks(TurnBatch) = 0
        /\ core' = IF BreakMissing THEN core ELSE TurnCore
        /\ pos' = p
        /\ pc' = IF p = mark THEN "slow" ELSE "loop"
        /\ mark' = 0
        /\ UNCHANGED <<stream, fed, end, mode, w, cap, wrote, out, ret>>

WroteBlocks(b) == GreaterOf(wrote, Len(w) \div BlockChars + Blocks(b))

\* A batch that the kernel accepts.
FastBatch ==
    /\ pc = "fast" /\ ~ BreakMissing /\ Blocks(TurnBatch) > 0
    /\ BatchValid(TurnCore, TurnBatch, TurnPos)
    /\ core' = AfterBatch(TurnCore, TurnBatch)
    /\ pos' = TurnPos + Span(TurnBatch)
    /\ w' = w \o BatchChars(TurnBatch, TurnPos)
    /\ wrote' = WroteBlocks(TurnBatch)
    /\ UNCHANGED <<stream, fed, end, mode, pc, mark, cap, out, ret>>

\* A batch with a byte out of place: the kernel has written its output
\* anyway, and the slow path reads the batch again.
FastReject ==
    /\ pc = "fast" /\ ~ BreakMissing /\ Blocks(TurnBatch) > 0
    /\ ~ BatchValid(TurnCore, TurnBatch, TurnPos)
    /\ core' = TurnCore
    /\ pos' = TurnPos
    /\ pc' = "reread" /\ mark' = TurnPos + Span(TurnBatch)
    /\ wrote' = WroteBlocks(TurnBatch)
    /\ UNCHANGED <<stream, fed, end, mode, w, cap, out, ret>>

----------------------------------------------------------------------------
\* DecodeCore::slow, on the next byte.
SlowOk ==
    LET b    == stream[pos + 1]
        done == Completed(core, b)
    IN  /\ pc \in {"slow", "reread"} /\ SlowFault(core, b) = NoError
        /\ core' = AfterByte(core, b)
        /\ pos' = pos + 1
        /\ w' = w \o done
        /\ wrote' = GreaterOf(wrote, Len(w \o done) \div BlockChars)
        /\ IF pc = "reread" /\ pos + 1 < mark
           THEN UNCHANGED <<pc, mark>>
           ELSE pc' = "loop" /\ mark' = 0
        /\ UNCHANGED <<stream, fed, end, mode, cap, out, ret>>

\* An error: of the core, only the phase and the carry are read again.  What
\* the call had decoded is not delivered.
SlowError ==
    LET fault == SlowFault(core, stream[pos + 1])
    IN  /\ pc \in {"slow", "reread"} /\ fault # NoError
        /\ core' = Failed(core, fault)
        /\ Return(fault)
        /\ UNCHANGED <<mode, out>>

----------------------------------------------------------------------------
Call ==
    \/ \E n \in Chunks : Decode(n)
    \/ DecodeNothing
    \/ DecodeTooSmall
    \/ Finish
    \/ FinishTooSmall
    \/ Begin

Step ==
    \/ ReturnOk \/ ReturnFailed
    \/ Header \/ HeaderCr \/ Body
    \/ FastReturn \/ FastBatch \/ FastReject
    \/ SlowOk \/ SlowError

Next == Call \/ Step

\* A call in progress runs on; making one is the caller's choice.
Spec == Init /\ [][Next]_vars /\ WF_vars(Step)

----------------------------------------------------------------------------
\* Properties.

Cores == [phase : {"header", "headerCr", "body", "failed"}, err : Errors,
          offset : Nat, term : Terminator, width : Nat, linesDone : Nat,
          line : Nat, runStart : Nat, runLen : Nat, runHead : Seq(Whitespace),
          carry : Seq(Alphabet), pairOffset : Nat, payloadLen : Nat,
          probe : 1 .. Batch]

\* Every variable keeps its type, and the reading position stays in the
\* chunk of the call in progress.
TypeOK ==
    /\ stream \in Seq(Byte)
    /\ fed \in Nat /\ end \in Nat /\ pos \in Nat
    /\ fed <= pos /\ pos <= end /\ end <= Len(stream)
    /\ mode \in {"undecided", "simd", "henke"}
    /\ core \in Cores
    /\ pc \in {"idle", "loop", "fast", "slow", "reread", "return", "ended"}
    /\ mark \in 0 .. end
    /\ w \in Seq(Alphabet) /\ out \in Seq(Alphabet)
    /\ cap \in Nat /\ wrote \in Nat
    /\ ret \in [op : {"none", "decode", "empty", "finish"},
                err : Errors \cup {BufferTooSmall}]

\* Whatever the batches do, no call writes past the blocks that decode_len
\* promised for it: the kernels store through raw pointers, rejected batches
\* included, and a caller may give exactly that room.
WritesInBounds == wrote <= cap

\* What finish relies on (a debug_assert there), and the length rule with
\* it: the carried characters are those of the payload's incomplete block,
\* through every mix of batches, re-read batches and single bytes.
CarryIsPayloadTail ==
    mode = "simd" => Len(core.carry) = core.payloadLen % BlockChars

\* The line counters describe the payload read so far: complete lines of the
\* first line's width, which is a multiple of the unit, and the current one.
\* The fast path takes a break one byte before the slow path would, and the
\* first line's width is learned by the slow path only.
LinesDescribePayload ==
    mode = "simd" /\ core.phase = "body" /\ core.term # Unwrapped =>
        /\ core.payloadLen = core.linesDone * core.width + core.line
        /\ core.linesDone > 0 =>
              /\ core.width > 0 /\ core.width % WidthUnit = 0
              /\ core.line <= core.width

\* The offset that errors are reported at is the position in the stream, in
\* every path and across calls.
OffsetIsPosition ==
    /\ mode = "simd" => core.offset > 0
    /\ mode = "simd" /\ core.phase # "failed" => core.offset = pos
    /\ mode = "undecided" =>
          core.offset = IF pc = "ended" THEN 0 ELSE pos

\* Nothing was read while the header is not.
HeaderIsFresh ==
    mode = "simd" /\ core.phase \in {"header", "headerCr"} =>
        /\ core.term = Unwrapped /\ core.linesDone = 0 /\ core.line = 0
        /\ core.runLen = 0 /\ core.carry = << >> /\ core.payloadLen = 0

Running == pc \in {"loop", "fast", "slow", "reread"}

\* Where a call is says what it may rely on.
CallShape ==
    /\ pc \in {"idle", "ended"} =>
          fed = end /\ w = << >> /\ cap = 0 /\ wrote = 0
    /\ pc = "ended" => mode = "undecided"
    /\ pc = "return" => /\ mode # "simd" /\ w = << >> /\ wrote = 0
                        /\ mode = "undecided" => pos = end
    /\ Running => mode = "simd"
    /\ pc \in {"fast", "slow", "reread"} => core.phase = "body"
    /\ pc = "fast" => /\ core.runLen = 0 /\ core.carry = << >>
                      /\ mark < end /\ mark <= pos
    /\ pc = "slow" => pos < end
    /\ pc = "reread" => pos < mark
    /\ pc \notin {"fast", "reread"} => mark = 0

\* The blocks written, and those that the carried and the unread characters
\* can still complete, fit in the buffer.
RoomLeft ==
    Running =>
        /\ Len(w) % BlockChars = 0
        /\ (Len(w) + Len(core.carry) + (end - pos)) \div BlockChars <= cap

\* The inductive invariant.
IInv == /\ TypeOK /\ CallShape /\ OffsetIsPosition /\ HeaderIsFresh
        /\ CarryIsPayloadTail /\ LinesDescribePayload
        /\ RoomLeft /\ WritesInBounds

\* A failed core has its error, and only waits for calls to report it to.
FailureStands ==
    mode = "simd" /\ core.phase = "failed" =>
        core.err # NoError /\ (pc = "idle" \/ (pc = "loop" /\ pos < end))

\* An error of the decoder core is final: it is the answer of every later
\* call that gives it bytes or finishes, and no call revives the decoder.  A
\* call with no bytes succeeds all the same.
StaysFailed ==
    mode = "simd" /\ core.phase = "failed" =>
        /\ mode' = mode /\ core' = core
        /\ ret' # ret => \/ ret'.err \in {core.err, BufferTooSmall}
                         \/ ret'.op = "empty"
ErrorIsFinal == [][StaysFailed]_vars

\* Where the caller cuts the stream does not show: call by call, the answers
\* and the bytes delivered are the reference decoder's.
ImplementsStrict == Strict!Spec

\* A decode call returns, whatever its bytes: every turn of its loops either
\* consumes input, or changes the phase, or leaves the fast path for good.
CallsReturn == (pc \notin {"idle", "ended"}) ~> (pc = "idle")

----------------------------------------------------------------------------
\* What comments of the code say, and the code does not do.

DecodingError(a) == a.err \notin {NoError, BufferTooSmall}

\* "Once it has reported an error, the decoder reports it again on every
\* call" (simd/mod.rs, Decoder): of one that finish_slice reported, calls
\* with no bytes excepted.
FinishErrorRepeats ==
    [][ret.op = "finish" /\ DecodingError(ret) /\ ret' # ret
          /\ ret'.op # "empty" =>
          ret'.err \in {ret.err, BufferTooSmall}]_vars

Rejects == pc = "fast" /\ pc' = "reread"

\* A batch of a first line is rejected, in a valid wrapped stream.
FirstLineRejected ==
    /\ Rejects /\ core.term # Unwrapped /\ core.linesDone = 0
    /\ Strict!Verdict(stream).err = NoError

\* Where such a stream's first line begins, and where it ends.
FirstLineStart == Strict!FirstNonBlank(stream) + 1 + Len(core.term)
FirstLineEnd ==
    LET ends == {i \in FirstLineStart .. Len(stream) - 1 :
                    stream[i + 1] \in Whitespace}
    IN  CHOOSE i \in ends : \A j \in ends : i <= j

\* However the stream is cut, the cost of not knowing the width is paid once:
\* the batch that is read again has the first line's end in it, and from there
\* on the width is known. Where one call has the whole stream, growing the
\* batches from FIRST_LINE_PROBE by doubling "bounds that re-read to about twice
\* the line" (driver.rs, FIRST_LINE_PROBE).
RereadBoundedByLine ==
    [][FirstLineRejected =>
          /\ pos' <= FirstLineEnd /\ FirstLineEnd < mark'
          /\ fed = 0 /\ end = Len(stream) =>
                mark' - pos' <= 2 * (FirstLineEnd - FirstLineStart)
                                + BlockChars * FirstLineProbe]_vars
=============================================================================
