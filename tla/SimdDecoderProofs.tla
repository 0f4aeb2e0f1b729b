-------------------------- MODULE SimdDecoderProofs --------------------------
(* Proofs about SimdDecoder, for every block size, width unit, batch size    *)
(* and set of streams that the assumptions of its constants allow.           *)
(*                                                                           *)
(* IInv is inductive: it holds initially, and every action preserves it.     *)
EXTENDS SimdDecoder, SequenceTheorems, TLAPS

Arith == INSTANCE Arithmetic

----------------------------------------------------------------------------
\* The operators of the core keep their types and bounds.

\* DecodeCore::new makes a core, whatever the offset it starts at.
LEMMA NewCoreType ==
    ASSUME NEW n \in Nat
    PROVE  NewCore(n) \in Cores
BY FormatAssumption, DecoderAssumption
   DEF NewCore, Cores, NoError, Error, Errors, ErrorKinds, Terminator

\* A whitespace byte that joins the run (slow) moves the offset only: the
\* carry, the payload count and the line counters stay.
LEMMA InRunType ==
    ASSUME NEW c \in Cores, NEW b \in Whitespace
    PROVE  /\ InRun(c, b) \in Cores
           /\ InRun(c, b).phase = c.phase /\ InRun(c, b).term = c.term
           /\ InRun(c, b).carry = c.carry
           /\ InRun(c, b).payloadLen = c.payloadLen
           /\ InRun(c, b).width = c.width
           /\ InRun(c, b).line = c.line
           /\ InRun(c, b).linesDone = c.linesDone
           /\ InRun(c, b).offset = c.offset + 1
<1> DEFINE start == IF c.runLen = 0 THEN c.offset ELSE c.runStart
           head  == IF c.runLen < RunHeadLen THEN Append(c.runHead, b)
                    ELSE c.runHead
           len   == c.runLen + 1
           off   == c.offset + 1
<1>1. /\ start \in Nat /\ len \in Nat /\ off \in Nat
      /\ head \in Seq(Whitespace)
    BY DEF Cores
<1>2. InRun(c, b) = [c EXCEPT !.offset = off, !.runStart = start,
                              !.runHead = head, !.runLen = len]
    BY DEF InRun
<1> HIDE DEF start, head, len, off
<1>3. [c EXCEPT !.offset = off, !.runStart = start, !.runHead = head,
                !.runLen = len] \in Cores
    BY <1>1, Zenon DEF Cores
<1>4. /\ InRun(c, b).phase = c.phase /\ InRun(c, b).term = c.term
      /\ InRun(c, b).carry = c.carry /\ InRun(c, b).payloadLen = c.payloadLen
      /\ InRun(c, b).width = c.width /\ InRun(c, b).line = c.line
      /\ InRun(c, b).linesDone = c.linesDone /\ InRun(c, b).offset = off
    BY <1>1, <1>2 DEF Cores
<1>q. QED BY <1>2, <1>3, <1>4, Zenon DEF off

\* An error leaves the carry, the payload count and the offset as they are.
LEMMA FailedType ==
    ASSUME NEW c \in Cores, NEW e \in Errors
    PROVE  /\ Failed(c, e) \in Cores
           /\ Failed(c, e).phase = "failed"
           /\ Failed(c, e).carry = c.carry
           /\ Failed(c, e).payloadLen = c.payloadLen
           /\ Failed(c, e).offset = c.offset
BY DEF Failed, Cores

\* A judged run ends a line; the first one sets the width (slow).
LEMMA AfterRunType ==
    ASSUME NEW c \in Cores
    PROVE  /\ AfterRun(c) \in Cores
           /\ AfterRun(c).phase = c.phase /\ AfterRun(c).term = c.term
           /\ AfterRun(c).carry = c.carry
           /\ AfterRun(c).payloadLen = c.payloadLen
           /\ AfterRun(c).offset = c.offset
           /\ AfterRun(c).width = IF c.runLen > 0 /\ c.linesDone = 0 THEN c.line
                                  ELSE c.width
           /\ AfterRun(c).linesDone = IF c.runLen > 0 THEN c.linesDone + 1
                                      ELSE c.linesDone
           /\ AfterRun(c).line = IF c.runLen > 0 THEN 0 ELSE c.line
<1>1. CASE c.runLen = 0
    BY <1>1 DEF AfterRun, Cores
<1>2. CASE c.runLen > 0
    <2> DEFINE width == IF c.linesDone = 0 THEN c.line ELSE c.width
               lines == c.linesDone + 1
               empty == << >>
    <2>1. width \in Nat /\ lines \in Nat /\ empty \in Seq(Whitespace)
        BY DEF Cores
    <2>2. AfterRun(c) = [c EXCEPT !.runLen = 0, !.runHead = empty,
                                  !.width = width, !.linesDone = lines,
                                  !.line = 0]
        BY <1>2 DEF AfterRun, Cores
    <2>3. width = IF c.runLen > 0 /\ c.linesDone = 0 THEN c.line ELSE c.width
        BY <1>2
    <2> HIDE DEF width, lines, empty
    <2>4. [c EXCEPT !.runLen = 0, !.runHead = empty, !.width = width,
                    !.linesDone = lines, !.line = 0] \in Cores
        BY <2>1, Zenon DEF Cores
    <2>5. /\ AfterRun(c).phase = c.phase /\ AfterRun(c).term = c.term
          /\ AfterRun(c).carry = c.carry
          /\ AfterRun(c).payloadLen = c.payloadLen
          /\ AfterRun(c).offset = c.offset
          /\ AfterRun(c).width = width /\ AfterRun(c).linesDone = lines
          /\ AfterRun(c).line = 0
        BY <2>1, <2>2 DEF Cores
    <2>q. QED BY <1>2, <2>2, <2>3, <2>4, <2>5 DEF lines
<1>q. QED BY <1>1, <1>2 DEF Cores

\* A payload character (slow) is counted once, in the payload, in the line
\* and in the carried block, which empties when it is complete.
LEMMA InPayloadType ==
    ASSUME NEW c \in Cores, NEW b \in Alphabet
    PROVE  LET d == AfterRun(c)
               e == InPayload(c, b)
           IN  /\ e \in Cores
               /\ e.phase = c.phase /\ e.term = c.term
               /\ e.offset = c.offset + 1
               /\ e.payloadLen = c.payloadLen + 1
               /\ e.carry = IF Len(c.carry) + 1 = BlockChars THEN << >>
                            ELSE Append(c.carry, b)
               /\ e.width = d.width /\ e.linesDone = d.linesDone
               /\ e.line = IF c.term = Unwrapped THEN d.line ELSE d.line + 1
<1> DEFINE d     == AfterRun(c)
           off   == d.offset + 1
           line  == IF c.term = Unwrapped THEN d.line ELSE d.line + 1
           pair  == IF Len(c.carry) % 2 = 0 THEN c.offset ELSE d.pairOffset
           carry == IF Len(c.carry) + 1 = BlockChars THEN << >>
                    ELSE Append(d.carry, b)
           count == d.payloadLen + 1
<1>1. /\ d \in Cores
      /\ d.phase = c.phase /\ d.term = c.term /\ d.carry = c.carry
      /\ d.payloadLen = c.payloadLen /\ d.offset = c.offset
    BY AfterRunType
<1> HIDE DEF d
<1>2. /\ off \in Nat /\ line \in Nat /\ pair \in Nat /\ count \in Nat
    <2>1. /\ d.offset \in Nat /\ d.line \in Nat /\ d.pairOffset \in Nat
          /\ d.payloadLen \in Nat
        BY <1>1 DEF Cores
    <2>2. c.offset \in Nat
        BY DEF Cores
    <2>3. off \in Nat /\ count \in Nat /\ d.line + 1 \in Nat
        BY <2>1
    <2> HIDE DEF off, count
    <2>q. QED BY <2>1, <2>2, <2>3, Zenon
<1>3. carry \in Seq(Alphabet)
    BY <1>1 DEF Cores
<1>4. InPayload(c, b) = [d EXCEPT !.offset = off, !.line = line,
                                  !.pairOffset = pair, !.carry = carry,
                                  !.payloadLen = count]
    BY <1>1 DEF InPayload, d
<1> HIDE DEF off, line, pair, carry, count
<1>5. [d EXCEPT !.offset = off, !.line = line, !.pairOffset = pair,
                !.carry = carry, !.payloadLen = count] \in Cores
    BY <1>1, <1>2, <1>3, Zenon DEF Cores
<1>6. /\ InPayload(c, b).phase = d.phase /\ InPayload(c, b).term = d.term
      /\ InPayload(c, b).offset = off /\ InPayload(c, b).payloadLen = count
      /\ InPayload(c, b).carry = carry /\ InPayload(c, b).width = d.width
      /\ InPayload(c, b).linesDone = d.linesDone
      /\ InPayload(c, b).line = line
    BY <1>1, <1>2, <1>3, <1>4 DEF Cores
<1>q. QED BY <1>1, <1>4, <1>5, <1>6 DEF d, off, line, carry, count

\* A line break taken by the fast path ends the line and moves past the
\* terminator; without one nothing changes.
LEMMA AfterBreakType ==
    ASSUME NEW c \in Cores
    PROVE  LET d == AfterBreak(c)
           IN  /\ d \in Cores
               /\ d.phase = c.phase /\ d.term = c.term
               /\ d.carry = c.carry /\ d.payloadLen = c.payloadLen
               /\ d.width = c.width /\ d.probe = c.probe
               /\ d.runLen = c.runLen
               /\ AtLineEnd(c) => /\ d.offset = c.offset + Len(c.term)
                                  /\ d.linesDone = c.linesDone + 1
                                  /\ d.line = 0
               /\ ~ AtLineEnd(c) => d = c
<1>1. CASE ~ AtLineEnd(c)
    BY <1>1 DEF AfterBreak
<1>2. CASE AtLineEnd(c)
    <2> DEFINE off   == c.offset + Len(c.term)
               lines == c.linesDone + 1
    <2>1. off \in Nat /\ lines \in Nat
        BY DEF Cores, Terminator, Unwrapped, LF, CRLF
    <2>2. AfterBreak(c) = [c EXCEPT !.offset = off, !.linesDone = lines,
                                    !.line = 0]
        BY <1>2 DEF AfterBreak
    <2> HIDE DEF off, lines
    <2>3. [c EXCEPT !.offset = off, !.linesDone = lines, !.line = 0] \in Cores
        BY <2>1, Zenon DEF Cores
    <2>4. /\ AfterBreak(c).phase = c.phase /\ AfterBreak(c).term = c.term
          /\ AfterBreak(c).carry = c.carry
          /\ AfterBreak(c).payloadLen = c.payloadLen
          /\ AfterBreak(c).width = c.width /\ AfterBreak(c).probe = c.probe
          /\ AfterBreak(c).runLen = c.runLen
          /\ AfterBreak(c).offset = off /\ AfterBreak(c).linesDone = lines
          /\ AfterBreak(c).line = 0
        BY <2>1, <2>2 DEF Cores
    <2>q. QED BY <1>2, <2>2, <2>3, <2>4 DEF off, lines
<1>q. QED BY <1>1, <1>2

\* run_error always is an error.
LEMMA RunErrorType ==
    ASSUME NEW text, NEW n \in Nat
    PROVE  RunError(text, n) \in Errors /\ RunError(text, n) # NoError
BY DEF RunError, Error, Errors, ErrorKinds, NoError

\* judge_run and the rules of slow report an error or none; without one, a
\* byte that is not whitespace is a character of the alphabet.
LEMMA SlowFaultType ==
    ASSUME NEW c \in Cores, NEW b \in Byte
    PROVE  /\ SlowFault(c, b) \in Errors
           /\ b \in Whitespace => SlowFault(c, b) = NoError
           /\ b \notin Whitespace /\ SlowFault(c, b) = NoError =>
                 b \in Alphabet /\ RunFault(c) = NoError /\ ~ LayoutBroken(c)
<1>1. RunFault(c) \in Errors
    <2>1. Len(c.term) \in Nat
        BY DEF Cores, Terminator, Unwrapped, LF, CRLF
    <2>2. NoError \in Errors
        BY DEF NoError, Error, Errors, ErrorKinds
    <2>3. \A first \in Nat : c.runStart + first \in Nat
        BY DEF Cores
    <2>q. QED BY <2>1, <2>2, <2>3, RunErrorType DEF RunFault
<1>2. ContentFault(c, b) \in Errors
    BY DEF ContentFault, Error, NoError, Errors, ErrorKinds, Cores
<1>3. Error("InvalidLayout", c.offset) \in Errors \ {NoError}
    BY DEF Error, NoError, Errors, ErrorKinds, Cores
<1>4. NoError \in Errors
    BY DEF NoError, Error, Errors, ErrorKinds
<1>5. b \notin Alphabet => ContentFault(c, b) # NoError
    BY DEF ContentFault, Error, NoError
<1>q. QED BY <1>1, <1>2, <1>3, <1>4, <1>5 DEF SlowFault

----------------------------------------------------------------------------
\* Batches stay in the chunk, in the line and in whole blocks.

\* The current line, when its width is known and it is not full.
LineOpen(c) == WidthKnown(c) => /\ c.width > 0 /\ c.width % WidthUnit = 0
                                /\ c.line < c.width

\* A terminator has a length, and a wrapped stream has a terminator.
LEMMA TermLen ==
    ASSUME NEW c \in Cores
    PROVE  /\ Len(c.term) \in Nat
           /\ c.term # Unwrapped => Len(c.term) > 0
BY DEF Cores, Terminator, Unwrapped, LF, CRLF

\* A batch of whole lines (fast) lies in the chunk, and its output is no
\* longer than the text it reads.
LEMMA LinesBatch ==
    ASSUME NEW c \in Cores, LineOpen(c), NEW p \in Nat, end \in Nat, p <= end,
           WidthKnown(c), c.line = 0
    PROVE  LET b == BatchAt(c, p)
           IN  /\ b.n \in Nat /\ b.lines \in Nat /\ b.stride \in Nat
               /\ BlockChars * b.n = c.width
               /\ b.lines > 0 =>
                     /\ Span(b) \in Nat /\ p + Span(b) <= end
                     /\ Blocks(b) \in Nat
                     /\ BlockChars * Blocks(b) <= Span(b)
                     /\ BlockChars * Blocks(b) = c.width * b.lines
<1> DEFINE b == BatchAt(c, p)
           width == c.width
           avail == end - p
           stride == width + Len(c.term)
           n == width \div BlockChars
           fit == ((avail - width) \div stride) + 1
           present == IF avail >= width THEN fit ELSE 0
           limit == GreaterOf(LineBatch \div n, 1)
           lines == LesserOf(present, limit)
<1>1. /\ BlockChars \in Nat \ {0} /\ WidthUnit \in Nat \ {0}
      /\ WidthUnit % BlockChars = 0 /\ LineBatch \in Nat \ {0}
    BY FormatAssumption, DecoderAssumption DEF FormatAssumption, DecoderAssumption
<1>2. width \in Nat \ {0} /\ width % WidthUnit = 0
    BY DEF LineOpen, Cores
<1>3. Len(c.term) \in Nat
    BY TermLen
<1>4. b = [n |-> n, stride |-> stride, lines |-> lines]
    BY DEF BatchAt
<1>5. b.n = n /\ b.stride = stride /\ b.lines = lines
    BY <1>4
<1>6. avail \in Nat
    OBVIOUS
<1>7. Span(b) = stride * (lines - 1) + BlockChars * n /\ Blocks(b) = n * lines
    BY <1>5 DEF Span, Blocks
<1> HIDE DEF width, avail, b
<1>8. width % BlockChars = 0
    BY <1>1, <1>2, Arith!MultipleOfMultiple
<1>9. n \in Nat \ {0} /\ BlockChars * n = width
    BY <1>1, <1>2, <1>8, Arith!ExactBlocks
<1>10. stride \in Nat \ {0} /\ width <= stride
    BY <1>2, <1>3
<1> HIDE DEF n, stride
<1>11. limit \in Nat
    <2>1. LineBatch \div n \in Nat
        BY <1>1, <1>9, Arith!Division
    <2>q. QED BY <2>1 DEF GreaterOf
<1> HIDE DEF limit
<1>12. present \in Nat
    <2>1. CASE width <= avail
        <3>1. avail - width \in Nat
            BY <2>1, <1>2, <1>6
        <3>2. (avail - width) \div stride \in Nat
            BY <3>1, <1>10, Arith!Division
        <3>q. QED BY <2>1, <3>2, <1>2, <1>6
    <2>2. CASE ~ (width <= avail)
        BY <2>2, <1>2, <1>6
    <2>q. QED BY <2>1, <2>2
<1>13. lines \in Nat /\ lines <= present
    <2> HIDE DEF present
    <2>q. QED BY <1>11, <1>12 DEF LesserOf
<1> HIDE DEF lines
<1>14. ASSUME lines > 0
       PROVE  /\ Span(b) \in Nat /\ p + Span(b) <= end
              /\ Blocks(b) \in Nat
              /\ BlockChars * Blocks(b) <= Span(b)
              /\ BlockChars * Blocks(b) = width * lines
    <2>1. width <= avail /\ lines <= fit /\ lines \in Nat \ {0}
        BY <1>2, <1>6, <1>12, <1>13, <1>14
    <2> HIDE DEF fit
    <2>2. /\ stride * (lines - 1) + width \in Nat
          /\ stride * (lines - 1) + width <= avail
          /\ width * lines <= stride * (lines - 1) + width
        BY <1>2, <1>6, <1>10, <2>1, Arith!LinesFit DEF fit
    <2>3. Blocks(b) \in Nat /\ BlockChars * Blocks(b) = width * lines
        BY <1>1, <1>7, <1>9, <2>1
    <2>4. Span(b) = stride * (lines - 1) + width
        BY <1>7, <1>9
    <2>5. p + Span(b) <= end
        BY <2>2, <2>4 DEF avail
    <2>q. QED BY <2>2, <2>3, <2>4, <2>5
<1>q. QED BY <1>5, <1>9, <1>10, <1>13, <1>14 DEF b, width

\* A batch of blocks in a row (fast) lies in the chunk and in its line.
LEMMA RowBatch ==
    ASSUME NEW c \in Cores, LineOpen(c), NEW p \in Nat, end \in Nat, p <= end,
           ~ (WidthKnown(c) /\ c.line = 0)
    PROVE  LET b == BatchAt(c, p)
           IN  /\ b.n \in Nat /\ b.lines = 1 /\ b.stride = 0
               /\ Blocks(b) = b.n
               /\ Span(b) = BlockChars * b.n /\ Span(b) \in Nat
               /\ p + Span(b) <= end
               /\ WidthKnown(c) => c.line + BlockChars * b.n <= c.width
<1> DEFINE b     == BatchAt(c, p)
           avail == end - p
           open  == c.width - c.line
           a     == avail \div BlockChars
           left  == open \div BlockChars
           room  == IF WidthKnown(c) THEN left
                    ELSE IF c.term # Unwrapped THEN c.probe ELSE Batch
           n     == LesserOf(LesserOf(a, room), Batch)
<1>1. BlockChars \in Nat \ {0} /\ Batch \in Nat \ {0}
    BY FormatAssumption, DecoderAssumption DEF FormatAssumption, DecoderAssumption
<1>2. avail \in Nat /\ (WidthKnown(c) => open \in Nat)
    BY DEF LineOpen, Cores
<1>3. c.width \in Nat /\ c.line \in Nat /\ c.probe \in Nat
    BY <1>1 DEF Cores
<1>4. b = [n |-> n, lines |-> 1, stride |-> 0]
    BY DEF BatchAt
<1>5. b.n = n /\ b.lines = 1 /\ b.stride = 0
    BY <1>4
<1> HIDE DEF avail, open, b
<1>6. a \in Nat
    BY <1>1, <1>2, Arith!Division
<1>7. WidthKnown(c) => left \in Nat
    BY <1>1, <1>2, Arith!Division
<1> HIDE DEF a, left
<1>8. n \in Nat /\ n <= a /\ (WidthKnown(c) => n <= left)
    BY <1>1, <1>3, <1>6, <1>7 DEF LesserOf
<1> HIDE DEF n
<1>9. BlockChars * n \in Nat /\ BlockChars * n <= avail
    BY <1>1, <1>2, <1>8, Arith!FloorFits DEF a
<1>10. WidthKnown(c) => BlockChars * n <= open
    BY <1>1, <1>2, <1>8, Arith!FloorFits DEF left
<1>11. Blocks(b) = n /\ Span(b) = BlockChars * n
    BY <1>5, <1>8, <1>9 DEF Blocks, Span
<1>12. p + BlockChars * n <= end
    BY <1>9 DEF avail
<1>13. WidthKnown(c) => c.line + BlockChars * n <= c.width
    <2> DEFINE x == BlockChars * n
    <2>1. x \in Nat /\ (WidthKnown(c) => x <= open)
        BY <1>9, <1>10
    <2> HIDE DEF x
    <2>2. WidthKnown(c) => c.line + x <= c.width
        BY <1>3, <2>1 DEF open
    <2>q. QED BY <2>2 DEF x
<1>q. QED BY <1>5, <1>8, <1>9, <1>11, <1>12, <1>13 DEF b

\* A batch that was accepted is counted in the payload, the line counters
\* and the offset.
LEMMA AfterBatchType ==
    ASSUME NEW c \in Cores, NEW b, b.n \in Nat, b.lines \in Nat \ {0},
           Span(b) \in Nat, Blocks(b) \in Nat
    PROVE  LET d == AfterBatch(c, b)
           IN  /\ d \in Cores
               /\ d.phase = c.phase /\ d.term = c.term /\ d.carry = c.carry
               /\ d.runLen = c.runLen /\ d.width = c.width
               /\ d.offset = c.offset + Span(b)
               /\ d.payloadLen = c.payloadLen + BlockChars * Blocks(b)
               /\ d.linesDone = c.linesDone + (b.lines - 1)
               /\ d.line = IF b.lines > 1 THEN BlockChars * b.n
                           ELSE c.line + BlockChars * b.n
<1> DEFINE probe == IF WidthKnown(c) THEN c.probe
                    ELSE LesserOf(2 * c.probe, Batch)
           off   == c.offset + Span(b)
           count == c.payloadLen + BlockChars * Blocks(b)
           done  == c.linesDone + b.lines - 1
           line  == IF b.lines > 1 THEN BlockChars * b.n
                    ELSE c.line + BlockChars * b.n
<1>1. BlockChars \in Nat \ {0} /\ Batch \in Nat \ {0}
    BY FormatAssumption, DecoderAssumption DEF FormatAssumption, DecoderAssumption
<1>2. /\ c.offset \in Nat /\ c.payloadLen \in Nat /\ c.linesDone \in Nat
      /\ c.line \in Nat /\ c.probe \in 1 .. Batch
    BY DEF Cores
<1>3. probe \in 1 .. Batch
    BY <1>1, <1>2 DEF LesserOf
<1>4. off \in Nat /\ count \in Nat /\ done \in Nat
    <2>1. off \in Nat
        BY <1>2
    <2>2. BlockChars * Blocks(b) \in Nat
        BY <1>1
    <2>3. count \in Nat
        BY <1>2, <2>2
    <2>4. done \in Nat
        BY <1>2
    <2>q. QED BY <2>1, <2>3, <2>4
<1>5. line \in Nat
    BY <1>1, <1>2
<1>6. AfterBatch(c, b) = [c EXCEPT !.probe = probe, !.offset = off,
                                   !.payloadLen = count, !.linesDone = done,
                                   !.line = line]
    BY DEF AfterBatch
<1>7. done = c.linesDone + (b.lines - 1)
    BY <1>2
<1> HIDE DEF probe, off, count, done, line
<1>8. [c EXCEPT !.probe = probe, !.offset = off, !.payloadLen = count,
                !.linesDone = done, !.line = line] \in Cores
    BY <1>3, <1>4, <1>5, Zenon DEF Cores
<1>9. LET d == AfterBatch(c, b)
      IN  /\ d.phase = c.phase /\ d.term = c.term /\ d.carry = c.carry
          /\ d.runLen = c.runLen /\ d.width = c.width /\ d.offset = off
          /\ d.payloadLen = count /\ d.linesDone = done /\ d.line = line
    BY <1>3, <1>4, <1>5, <1>6 DEF Cores
<1>q. QED BY <1>6, <1>7, <1>8, <1>9 DEF off, count, line

\* The characters of a batch that the kernel accepts are a sequence of
\* alphabet characters, as many as the batch has.
LEMMA BatchCharsType ==
    ASSUME NEW b, NEW p, BlockChars * b.n * b.lines \in Nat,
           CharsValid(BatchChars(b, p))
    PROVE  /\ BatchChars(b, p) \in Seq(Alphabet)
           /\ Len(BatchChars(b, p)) = BlockChars * b.n * b.lines
<1> DEFINE s == BatchChars(b, p)
           N == BlockChars * b.n * b.lines
           V == {s[k] : k \in 1 .. N}
<1>1. N \in Nat /\ DOMAIN s = 1 .. N /\ s = [k \in 1 .. N |-> s[k]]
    BY DEF BatchChars
<1> HIDE DEF s, N
<1>2. s \in [1 .. N -> V]
    BY <1>1
<1>3. s \in Seq(V)
    BY <1>1, <1>2, SeqDef
<1>4. Len(s) \in Nat /\ DOMAIN s = 1 .. Len(s)
    BY <1>3, LenProperties
<1>5. Len(s) = N
    <2>1. 1 .. N = 1 .. Len(s)
        BY <1>1, <1>4
    <2>q. QED BY <1>1, <1>4, <2>1
<1>6. \A k \in 1 .. N : s[k] \in Alphabet
    BY <1>5 DEF s, CharsValid
<1>7. s \in [1 .. N -> Alphabet]
    BY <1>1, <1>6
<1>8. s \in Seq(Alphabet)
    BY <1>1, <1>7, SeqDef
<1>q. QED BY <1>5, <1>8 DEF s, N

\* The constants, as the proofs use them.
LEMMA Constants ==
    /\ BlockChars \in Nat \ {0} /\ WidthUnit \in Nat \ {0}
    /\ WidthUnit % BlockChars = 0
    /\ Batch \in Nat \ {0} /\ LineBatch \in Nat \ {0}
    /\ Streams \subseteq Seq(Byte) /\ LaterStreams \subseteq Seq(Byte)
    /\ NoError \in Errors
BY FormatAssumption, DecoderAssumption
   DEF FormatAssumption, DecoderAssumption, NoError, Error, Errors, ErrorKinds

\* Whole blocks leave a position in its block.
LEMMA WholeBlocks ==
    \A a \in Nat, n \in Nat : (a + BlockChars * n) % BlockChars = a % BlockChars
<1> TAKE a \in Nat, n \in Nat
<1>1. BlockChars \in Nat \ {0}
    BY Constants
<1>q. QED BY <1>1, Arith!AddBlocks, Zenon

\* A fresh core has read nothing.
LEMMA NewCoreFresh ==
    ASSUME NEW n \in Nat
    PROVE  /\ NewCore(n) \in Cores /\ NewCore(n).phase = "header"
           /\ NewCore(n).offset = n /\ NewCore(n).term = Unwrapped
           /\ NewCore(n).linesDone = 0 /\ NewCore(n).line = 0
           /\ NewCore(n).runLen = 0 /\ NewCore(n).carry = << >>
           /\ NewCore(n).payloadLen = 0
BY NewCoreType DEF NewCore

\* A decoder just created satisfies the invariant.
LEMMA InitInvariant == Init => IInv
<1> SUFFICES ASSUME Init PROVE IInv
    OBVIOUS
<1>1. stream \in Seq(Byte) /\ Len(stream) \in Nat
    BY Constants DEF Init
<1>2. core = NewCore(0) /\ core \in Cores /\ core.offset = 0
    BY NewCoreFresh DEF Init
<1>3. TypeOK
    BY <1>1, <1>2, Constants DEF Init, TypeOK, Answer
<1>4. CallShape /\ OffsetIsPosition /\ RoomLeft /\ WritesInBounds
    BY <1>2 DEF Init, CallShape, OffsetIsPosition, RoomLeft, WritesInBounds,
                Running
<1>5. HeaderIsFresh /\ CarryIsPayloadTail /\ LinesDescribePayload
    BY DEF Init, HeaderIsFresh, CarryIsPayloadTail, LinesDescribePayload
<1>q. QED BY <1>3, <1>4, <1>5 DEF IInv

----------------------------------------------------------------------------
\* Calls.

\* An answer that changes nothing else: a call with no bytes, or with too
\* small a buffer.
LEMMA RefusalInvariant ==
    ASSUME IInv, DecodeNothing \/ DecodeTooSmall \/ FinishTooSmall
    PROVE  IInv'
<1>1. /\ UNCHANGED <<stream, fed, end, pos, mode, core, pc, mark, w, cap>>
      /\ UNCHANGED <<wrote, out>>
    BY DEF DecodeNothing, DecodeTooSmall, FinishTooSmall, callVars
<1>2. ret' \in [op : {"none", "decode", "empty", "finish"},
                err : Errors \cup {BufferTooSmall}]
    BY Constants DEF DecodeNothing, DecodeTooSmall, FinishTooSmall, Answer
<1>3. TypeOK'
    BY <1>1, <1>2 DEF IInv, TypeOK
<1>4. CallShape' /\ OffsetIsPosition' /\ RoomLeft' /\ WritesInBounds'
    BY <1>1 DEF IInv, CallShape, OffsetIsPosition, RoomLeft, WritesInBounds,
                Running
<1>5. HeaderIsFresh' /\ CarryIsPayloadTail' /\ LinesDescribePayload'
    BY <1>1 DEF IInv, HeaderIsFresh, CarryIsPayloadTail, LinesDescribePayload
<1>q. QED BY <1>3, <1>4, <1>5 DEF IInv

\* finish: an error leaves the decoder alone, a success resets it.
LEMMA FinishInvariant ==
    ASSUME IInv, Finish
    PROVE  IInv'
<1>1. /\ pc = "idle" /\ UNCHANGED <<stream, fed, end, pos, mark, w, cap, wrote>>
    BY DEF Finish, callVars
<1>2. ret' \in [op : {"none", "decode", "empty", "finish"},
                err : Errors \cup {BufferTooSmall}]
    <2>1. FinishError \in Errors
        BY Constants DEF FinishError, IInv, TypeOK, Cores, InvalidLength, Error,
                         Errors, ErrorKinds
    <2>q. QED BY <2>1 DEF Finish, Answer
<1>3. CASE FinishError # NoError
    <2>1. UNCHANGED <<mode, core, pc, out>>
        BY <1>3 DEF Finish
    <2>2. TypeOK'
        BY <1>1, <1>2, <2>1 DEF IInv, TypeOK
    <2>3. CallShape' /\ OffsetIsPosition' /\ RoomLeft' /\ WritesInBounds'
        BY <1>1, <2>1 DEF IInv, CallShape, OffsetIsPosition, RoomLeft,
                          WritesInBounds, Running
    <2>4. HeaderIsFresh' /\ CarryIsPayloadTail' /\ LinesDescribePayload'
        BY <1>1, <2>1 DEF IInv, HeaderIsFresh, CarryIsPayloadTail,
                          LinesDescribePayload
    <2>q. QED BY <2>2, <2>3, <2>4 DEF IInv
<1>4. CASE FinishError = NoError
    <2>1. /\ mode' = "undecided" /\ core' = NewCore(0) /\ pc' = "ended"
          /\ out' = IF mode = "simd" /\ core.phase = "body"
                    THEN out \o core.carry ELSE out
        BY <1>4 DEF Finish
    <2>2. core' \in Cores
        BY <2>1, NewCoreType
    <2>3. out' \in Seq(Alphabet)
        <3>1. out \in Seq(Alphabet) /\ core.carry \in Seq(Alphabet)
            BY DEF IInv, TypeOK, Cores
        <3>2. out \o core.carry \in Seq(Alphabet)
            BY <3>1, ConcatProperties
        <3>q. QED BY <2>1, <3>1, <3>2
    <2>4. TypeOK'
        BY <1>1, <1>2, <2>1, <2>2, <2>3 DEF IInv, TypeOK
    <2>5. CallShape' /\ OffsetIsPosition' /\ RoomLeft' /\ WritesInBounds'
        BY <1>1, <2>1, NewCoreFresh
           DEF IInv, CallShape, OffsetIsPosition, RoomLeft, WritesInBounds,
               Running
    <2>6. HeaderIsFresh' /\ CarryIsPayloadTail' /\ LinesDescribePayload'
        BY <2>1 DEF HeaderIsFresh, CarryIsPayloadTail, LinesDescribePayload
    <2>q. QED BY <2>4, <2>5, <2>6 DEF IInv
<1>q. QED BY <1>3, <1>4

\* Another stream starts where finish reset the decoder.
LEMMA BeginInvariant ==
    ASSUME IInv, Begin
    PROVE  IInv'
<1>1. /\ pc = "ended" /\ stream' \in Seq(Byte)
      /\ fed' = 0 /\ end' = 0 /\ pos' = 0 /\ pc' = "idle"
      /\ out' = << >> /\ ret' = Answer("none", NoError)
      /\ UNCHANGED <<mode, core, mark, w, cap, wrote>>
    BY Constants DEF Begin, callVars
<1>2. mode = "undecided" /\ mark = 0 /\ w = << >> /\ core.offset = 0
    BY <1>1 DEF IInv, CallShape, OffsetIsPosition
<1>3. Len(stream') \in Nat
    BY <1>1
<1>4. TypeOK'
    BY <1>1, <1>2, <1>3, Constants DEF IInv, TypeOK, Answer
<1>5. CallShape' /\ OffsetIsPosition' /\ RoomLeft' /\ WritesInBounds'
    BY <1>1, <1>2 DEF IInv, CallShape, OffsetIsPosition, RoomLeft,
                      WritesInBounds, Running
<1>6. HeaderIsFresh' /\ CarryIsPayloadTail' /\ LinesDescribePayload'
    BY <1>1, <1>2 DEF HeaderIsFresh, CarryIsPayloadTail, LinesDescribePayload
<1>q. QED BY <1>4, <1>5, <1>6 DEF IInv

\* decode: the buffer is at least what the carried characters and the chunk
\* can complete.
LEMMA DecodeInvariant ==
    ASSUME IInv, NEW n \in Chunks, Decode(n)
    PROVE  IInv'
<1> DEFINE first == CHOOSE i \in NonBlankIn(n) : \A j \in NonBlankIn(n) : i <= j
           off   == core.offset + (first - pos) + 1
<1>1. /\ pc = "idle" /\ end' = pos + n /\ cap' = Needed(n)
      /\ UNCHANGED <<stream, fed, mark, w, wrote, out, ret>>
    BY DEF Decode
<1>2. /\ TypeOK /\ fed = end /\ pos = end /\ w = << >> /\ wrote = 0 /\ mark = 0
    BY <1>1 DEF IInv, TypeOK, CallShape
<1>3. /\ pos \in Nat /\ n \in Nat \ {0} /\ pos + n <= Len(stream)
      /\ Len(stream) \in Nat
    BY DEF IInv, TypeOK, Chunks
<1>4. Len(core.carry) \in Nat /\ core \in Cores /\ core.offset \in Nat
    BY <1>2 DEF TypeOK, Cores
<1>5. cap' \in Nat
    <2>1. Len(core.carry) + n \in Nat
        BY <1>3, <1>4
    <2>2. (Len(core.carry) + n) \div BlockChars \in Nat
        BY <2>1, Constants, Arith!Division
    <2>3. n \div BlockChars \in Nat
        BY <1>3, Constants, Arith!Division
    <2>q. QED BY <1>1, <2>2, <2>3 DEF Needed, DecodeLen
<1>6. NonBlankIn(n) # {} =>
         first \in Nat /\ pos <= first /\ first + 1 <= pos + n
    <2>1. NonBlankIn(n) \subseteq pos .. pos + n - 1
        BY DEF NonBlankIn
    <2>2. NonBlankIn(n) \subseteq Nat
        BY <2>1, <1>3
    <2>3. NonBlankIn(n) # {} => first \in NonBlankIn(n)
        BY <2>2, Arith!LeastNatural
    <2>4. ASSUME NonBlankIn(n) # {} PROVE first \in pos .. pos + n - 1
        BY <2>1, <2>3, <2>4, Zenon
    <2> HIDE DEF first
    <2>5. pos \in Nat /\ n \in Nat
        BY <1>3
    <2>6. first \in pos .. pos + n - 1 =>
             first \in Nat /\ pos <= first /\ first + 1 <= pos + n
        BY ONLY <2>5
    <2>q. QED BY <2>4, <2>6, Zenon
<1>7. mode \in {"undecided", "simd", "henke"}
    BY <1>2 DEF TypeOK
<1> HIDE DEF first
<1>8. ret' = ret /\ stream' = stream /\ fed' = fed /\ mark' = mark
      /\ w' = w /\ wrote' = wrote /\ out' = out
    BY <1>1
<1>9. CASE mode = "simd"
    <2>1. /\ mode' = "simd" /\ pos' = pos /\ core' = core /\ pc' = "loop"
        BY <1>9 DEF Decode
    <2>2. TypeOK' /\ CallShape'
        BY <1>1, <1>2, <1>3, <1>5, <1>8, <2>1 DEF TypeOK, CallShape, Running
    <2>3. OffsetIsPosition' /\ HeaderIsFresh' /\ CarryIsPayloadTail'
          /\ LinesDescribePayload'
        BY <1>1, <1>9, <2>1 DEF IInv, OffsetIsPosition, HeaderIsFresh,
                                CarryIsPayloadTail, LinesDescribePayload
    <2>4. cap' = (Len(core.carry) + n) \div BlockChars
        BY <1>1, <1>9 DEF Needed, DecodeLen
    <2>5. end' - pos' = n /\ Len(w') = 0 /\ core'.carry = core.carry
        BY <1>1, <1>2, <1>3, <1>8, <2>1
    <2>6. RoomLeft' /\ WritesInBounds'
        BY <1>2, <1>4, <1>5, <1>8, <2>4, <2>5, Constants
           DEF RoomLeft, WritesInBounds
    <2>q. QED BY <2>2, <2>3, <2>6 DEF IInv
<1>10. ASSUME mode' # "simd", pc' = "return", pos' \in pos .. pos + n,
              mode' = "undecided" => core'.offset = pos' /\ pos' = pos + n,
              mode' \in {"undecided", "henke"}, core' \in Cores
       PROVE  IInv'
    <2>1. TypeOK' /\ CallShape'
        BY <1>1, <1>2, <1>3, <1>5, <1>8, <1>10 DEF TypeOK, CallShape, Running
    <2>2. OffsetIsPosition' /\ HeaderIsFresh' /\ CarryIsPayloadTail'
          /\ LinesDescribePayload'
        BY <1>10 DEF OffsetIsPosition, HeaderIsFresh, CarryIsPayloadTail,
                     LinesDescribePayload
    <2>3. RoomLeft' /\ WritesInBounds'
        BY <1>2, <1>5, <1>8, <1>10 DEF RoomLeft, WritesInBounds, Running
    <2>q. QED BY <2>1, <2>2, <2>3 DEF IInv
<1>11. CASE mode = "henke"
    <2>1. /\ mode' = "henke" /\ pos' = pos /\ core' = core /\ pc' = "return"
        BY <1>11 DEF Decode
    <2>q. QED BY <1>3, <1>4, <1>10, <2>1
<1>12. mode = "undecided" => core.offset = pos
    BY <1>1 DEF IInv, OffsetIsPosition
<1>13. CASE mode = "undecided" /\ NonBlankIn(n) = {}
    <2> DEFINE skip == core.offset + n
    <2>1. /\ mode' = "undecided" /\ pos' = pos + n /\ pc' = "return"
          /\ core' = [core EXCEPT !.offset = skip]
        BY <1>13 DEF Decode
    <2>2. skip \in Nat /\ skip = pos + n
        BY <1>3, <1>4, <1>12, <1>13
    <2> HIDE DEF skip
    <2>3. core' \in Cores /\ core'.offset = skip
        BY <1>4, <2>1, <2>2 DEF Cores
    <2>q. QED BY <1>3, <1>10, <2>1, <2>2, <2>3
<1>14. CASE mode = "undecided" /\ NonBlankIn(n) # {} /\ stream[first + 1] # "dash"
    <2>1. /\ mode' = "henke" /\ pos' = first /\ core' = core /\ pc' = "return"
        BY <1>14 DEF Decode, first
    <2>q. QED BY <1>3, <1>4, <1>6, <1>10, <1>14, <2>1
<1>15. CASE mode = "undecided" /\ NonBlankIn(n) # {} /\ stream[first + 1] = "dash"
    <2>1. /\ mode' = "simd" /\ pos' = first + 1 /\ core' = NewCore(off)
          /\ pc' = "loop"
        BY <1>15 DEF Decode, first
    <2>2. off \in Nat /\ off = first + 1 /\ off > 0
        BY <1>3, <1>4, <1>6, <1>12, <1>15
    <2> HIDE DEF off
    <2>3. /\ core' \in Cores /\ core'.phase = "header" /\ core'.offset = off
          /\ core'.term = Unwrapped /\ core'.linesDone = 0 /\ core'.line = 0
          /\ core'.runLen = 0 /\ core'.carry = << >> /\ core'.payloadLen = 0
        BY <2>1, <2>2, NewCoreFresh
    <2>4. TypeOK' /\ CallShape'
        BY <1>1, <1>2, <1>3, <1>5, <1>6, <1>8, <1>15, <2>1, <2>3
           DEF TypeOK, CallShape, Running
    <2>5. OffsetIsPosition' /\ HeaderIsFresh' /\ LinesDescribePayload'
        BY <2>1, <2>2, <2>3 DEF OffsetIsPosition, HeaderIsFresh,
                                LinesDescribePayload
    <2>6. CarryIsPayloadTail'
        BY <2>3, Constants DEF CarryIsPayloadTail
    <2>7. RoomLeft' /\ WritesInBounds'
        <3>1. cap' = n \div BlockChars
            BY <1>1, <1>15 DEF Needed
        <3>2. Len(w') + Len(core'.carry) + (end' - pos') \in Nat
              /\ Len(w') + Len(core'.carry) + (end' - pos') <= n
            BY <1>1, <1>2, <1>3, <1>6, <1>8, <1>15, <2>1, <2>3
        <3>3. Len(w') = 0 /\ 0 % BlockChars = 0
            BY <1>2, <1>8, Constants
        <3>4. (Len(w') + Len(core'.carry) + (end' - pos')) \div BlockChars
                <= n \div BlockChars
            BY <1>3, <3>2, Constants, Arith!DivMonotone
        <3>q. QED BY <1>2, <1>5, <1>8, <3>1, <3>3, <3>4
                 DEF RoomLeft, WritesInBounds
    <2>q. QED BY <2>4, <2>5, <2>6, <2>7 DEF IInv
<1>q. QED BY <1>7, <1>9, <1>11, <1>13, <1>14, <1>15

----------------------------------------------------------------------------
\* Turns of the loop of decode.

\* A call that returns leaves the core as it is, or failed.
LEMMA ReturnInvariant ==
    ASSUME IInv, pc \in {"loop", "slow", "reread"},
           NEW err \in Errors, Return(err), mode' = mode,
           out' \in Seq(Alphabet), core' \in Cores,
           core'.carry = core.carry, core'.payloadLen = core.payloadLen,
           core'.offset = core.offset,
           core' = core \/ core'.phase = "failed",
           core'.phase = "failed" \/ pos = end
    PROVE  IInv'
<1>1. /\ ret' = Answer("decode", err) /\ pc' = "idle" /\ fed' = end
      /\ pos' = end /\ stream' = stream /\ end' = end
      /\ mark' = 0 /\ w' = << >> /\ cap' = 0 /\ wrote' = 0
    BY DEF Return
<1>2. TypeOK /\ end \in Nat /\ end <= Len(stream)
    BY DEF IInv, TypeOK
<1>3. TypeOK'
    BY <1>1, <1>2 DEF TypeOK, Answer
<1>4. CallShape' /\ RoomLeft' /\ WritesInBounds'
    BY <1>1 DEF CallShape, RoomLeft, WritesInBounds, Running
<1>5. OffsetIsPosition'
    <2>1. /\ mode = "simd" => core.offset > 0
          /\ mode = "simd" /\ core.phase # "failed" => core.offset = pos
          /\ mode = "undecided" => core.offset = pos /\ pos = end
        BY DEF IInv, OffsetIsPosition, CallShape, Running
    <2>q. QED BY <1>1, <2>1 DEF OffsetIsPosition
<1>6. HeaderIsFresh' /\ CarryIsPayloadTail' /\ LinesDescribePayload'
    BY DEF IInv, HeaderIsFresh, CarryIsPayloadTail, LinesDescribePayload
<1>q. QED BY <1>3, <1>4, <1>5, <1>6 DEF IInv

\* The chunk is exhausted: what the call decoded is delivered.
LEMMA ReturnOkInvariant ==
    ASSUME IInv, ReturnOk
    PROVE  IInv'
<1>1. out \in Seq(Alphabet) /\ w \in Seq(Alphabet) /\ core \in Cores
    BY DEF IInv, TypeOK
<1>2. out' \in Seq(Alphabet)
    BY <1>1, ConcatProperties DEF ReturnOk
<1>3. CASE pc = "loop" /\ pos = end
    BY <1>1, <1>2, <1>3, ReturnInvariant, Constants DEF ReturnOk
<1>4. CASE pc = "return"
    <2>1. /\ ret' = Answer("decode", NoError) /\ pc' = "idle" /\ fed' = end
          /\ pos' = end /\ stream' = stream /\ end' = end /\ mode' = mode
          /\ mark' = 0 /\ w' = << >> /\ cap' = 0 /\ wrote' = 0 /\ core' = core
        BY DEF ReturnOk, Return
    <2>2. /\ mode # "simd" /\ TypeOK
          /\ mode = "undecided" => pos = end /\ core.offset = pos
        BY <1>4 DEF IInv, CallShape, OffsetIsPosition
    <2>3. TypeOK'
        BY <1>2, <2>1, <2>2, Constants DEF TypeOK, Answer
    <2>4. CallShape' /\ OffsetIsPosition' /\ RoomLeft' /\ WritesInBounds'
        BY <2>1, <2>2 DEF CallShape, OffsetIsPosition, RoomLeft,
                          WritesInBounds, Running
    <2>5. HeaderIsFresh' /\ CarryIsPayloadTail' /\ LinesDescribePayload'
        BY <2>1, <2>2 DEF HeaderIsFresh, CarryIsPayloadTail,
                          LinesDescribePayload
    <2>q. QED BY <2>3, <2>4, <2>5 DEF IInv
<1>q. QED BY <1>3, <1>4 DEF ReturnOk

\* A failed decoder answers its error.
LEMMA ReturnFailedInvariant ==
    ASSUME IInv, ReturnFailed
    PROVE  IInv'
<1>1. core \in Cores /\ core.err \in Errors /\ out \in Seq(Alphabet)
    BY DEF IInv, TypeOK, Cores
<1>q. QED BY <1>1, ReturnInvariant DEF ReturnFailed

\* The next byte of a call in progress.
LEMMA NextByte ==
    ASSUME IInv, Running, pos < end
    PROVE  /\ pos \in Nat /\ end \in Nat /\ pos + 1 \in Nat /\ pos + 1 <= end
           /\ stream[pos + 1] \in Byte
           /\ core \in Cores /\ mode = "simd"
<1>1. pos \in Nat /\ end \in Nat /\ end <= Len(stream) /\ stream \in Seq(Byte)
    BY DEF IInv, TypeOK
<1>2. pos + 1 \in 1 .. Len(stream)
    BY <1>1, LenProperties
<1>3. stream[pos + 1] \in Byte
    BY <1>1, <1>2, ElementOfSeq
<1>q. QED BY <1>1, <1>3 DEF IInv, TypeOK, CallShape

\* The header is read: the counters are still at zero, and the position and
\* the offset move together.
LEMMA HeaderTurnInvariant ==
    ASSUME IInv, pc = "loop", pos < end, core.phase \in {"header", "headerCr"},
           UNCHANGED <<stream, fed, end, mode, pc, callVars, out, ret>>,
           core' \in Cores, core'.phase \in {"headerCr", "body"},
           core'.carry = core.carry, core'.payloadLen = core.payloadLen,
           core'.line = core.line, core'.linesDone = core.linesDone,
           core'.width = core.width,
           core'.phase = "headerCr" =>
              core'.term = core.term /\ core'.runLen = core.runLen,
           \/ pos' = pos /\ core'.offset = core.offset
           \/ pos' = pos + 1 /\ core'.offset = core.offset + 1
    PROVE  IInv'
<1>1. /\ stream' = stream /\ fed' = fed /\ end' = end /\ mode' = mode
      /\ pc' = pc /\ mark' = mark /\ w' = w /\ cap' = cap /\ wrote' = wrote
      /\ out' = out /\ ret' = ret
    BY DEF callVars
<1>2. /\ pos + 1 \in Nat /\ pos + 1 <= end /\ mode = "simd" /\ pos \in Nat
      /\ end \in Nat
    BY NextByte DEF Running
<1>3. /\ core.term = Unwrapped /\ core.linesDone = 0 /\ core.line = 0
      /\ core.runLen = 0 /\ core.carry = << >> /\ core.payloadLen = 0
      /\ core.offset = pos /\ core.offset > 0
    BY <1>2 DEF IInv, HeaderIsFresh, OffsetIsPosition
<1>4. TypeOK'
    BY <1>1, <1>2 DEF IInv, TypeOK
<1>5. CallShape' /\ WritesInBounds'
    BY <1>1 DEF IInv, CallShape, WritesInBounds, Running
<1>6. OffsetIsPosition' /\ HeaderIsFresh'
    BY <1>1, <1>2, <1>3 DEF OffsetIsPosition, HeaderIsFresh
<1>7. CarryIsPayloadTail'
    BY <1>1 DEF IInv, CarryIsPayloadTail
<1>8. LinesDescribePayload'
    <2>1. core.width \in Nat
        BY DEF IInv, TypeOK, Cores
    <2>q. QED BY <1>3, <2>1 DEF LinesDescribePayload
<1>9. RoomLeft'
    <2>1. /\ Len(w) \in Nat /\ Len(w) % BlockChars = 0 /\ cap \in Nat
          /\ (Len(w) + Len(core.carry) + (end - pos)) \div BlockChars <= cap
        BY DEF IInv, TypeOK, RoomLeft, Running
    <2>2. Len(core.carry) = 0
        BY <1>3
    <2> DEFINE a == Len(w) + 0 + (end - pos)
               b == Len(w) + 0 + (end - pos')
    <2>3. a \in Nat /\ b \in Nat /\ b <= a
        BY <1>2, <2>1
    <2> HIDE DEF a, b
    <2>4. /\ b \div BlockChars <= a \div BlockChars
          /\ a \div BlockChars \in Nat /\ b \div BlockChars \in Nat
        BY <2>3, Constants, Arith!DivMonotone, Arith!Division
    <2>5. b \div BlockChars <= cap
        BY <2>1, <2>2, <2>4 DEF a
    <2>q. QED BY <1>1, <2>1, <2>2, <2>5 DEF b, RoomLeft
<1>q. QED BY <1>4, <1>5, <1>6, <1>7, <1>8, <1>9 DEF IInv

\* Right after the '-'.
LEMMA HeaderInvariant ==
    ASSUME IInv, Header
    PROVE  IInv'
<1> DEFINE off == core.offset + 1
<1>1. core \in Cores /\ off \in Nat
    BY DEF IInv, TypeOK, Cores
<1>2. /\ pc = "loop" /\ pos < end /\ core.phase = "header"
      /\ UNCHANGED <<stream, fed, end, mode, pc, callVars, out, ret>>
    BY DEF Header
<1>3. CASE stream[pos + 1] = "lf"
    <2>1. core' = [core EXCEPT !.term = LF, !.phase = "body", !.offset = off]
          /\ pos' = pos + 1
        BY <1>3 DEF Header
    <2> HIDE DEF off
    <2>2. core' \in Cores /\ core'.phase = "body"
          /\ core'.carry = core.carry /\ core'.payloadLen = core.payloadLen
          /\ core'.line = core.line /\ core'.linesDone = core.linesDone
          /\ core'.width = core.width /\ core'.offset = off
        BY <1>1, <2>1 DEF Cores, Terminator
    <2>q. QED BY <1>2, <2>1, <2>2, HeaderTurnInvariant DEF off
<1>4. CASE stream[pos + 1] = "cr"
    <2>1. core' = [core EXCEPT !.phase = "headerCr", !.offset = off]
          /\ pos' = pos + 1
        BY <1>4 DEF Header
    <2> HIDE DEF off
    <2>2. core' \in Cores /\ core'.phase = "headerCr"
          /\ core'.carry = core.carry /\ core'.payloadLen = core.payloadLen
          /\ core'.line = core.line /\ core'.linesDone = core.linesDone
          /\ core'.width = core.width /\ core'.offset = off
          /\ core'.term = core.term /\ core'.runLen = core.runLen
        BY <1>1, <2>1 DEF Cores
    <2>q. QED BY <1>2, <2>1, <2>2, HeaderTurnInvariant DEF off
<1>5. CASE stream[pos + 1] \notin {"lf", "cr"}
    <2>1. core' = [core EXCEPT !.phase = "body"] /\ pos' = pos
        BY <1>5 DEF Header
    <2>2. core' \in Cores /\ core'.phase = "body"
          /\ core'.carry = core.carry /\ core'.payloadLen = core.payloadLen
          /\ core'.line = core.line /\ core'.linesDone = core.linesDone
          /\ core'.width = core.width /\ core'.offset = core.offset
        BY <1>1, <2>1 DEF Cores
    <2>q. QED BY <1>2, <2>1, <2>2, HeaderTurnInvariant
<1>q. QED BY <1>3, <1>4, <1>5

\* After '-' CR: a terminator, or the first byte of a run.
LEMMA HeaderCrInvariant ==
    ASSUME IInv, HeaderCr
    PROVE  IInv'
<1> DEFINE off   == core.offset + 1
           start == core.offset - 1
           head  == <<"cr">>
<1>1. core \in Cores /\ off \in Nat /\ start \in Nat /\ head \in Seq(Whitespace)
    <2>1. mode = "simd"
        BY NextByte DEF HeaderCr, Running
    <2>2. core \in Cores /\ core.offset > 0
        BY <2>1, Zenon DEF IInv, TypeOK, OffsetIsPosition
    <2>3. core.offset \in Nat
        BY <2>2 DEF Cores
    <2>4. off \in Nat /\ start \in Nat
        BY ONLY <2>2, <2>3
    <2>q. QED BY <2>2, <2>4 DEF Whitespace
<1>2. /\ pc = "loop" /\ pos < end /\ core.phase = "headerCr"
      /\ UNCHANGED <<stream, fed, end, mode, pc, callVars, out, ret>>
    BY DEF HeaderCr
<1>3. CASE stream[pos + 1] = "lf"
    <2>1. core' = [core EXCEPT !.term = CRLF, !.phase = "body", !.offset = off]
          /\ pos' = pos + 1
        BY <1>3 DEF HeaderCr
    <2> HIDE DEF off
    <2>2. core' \in Cores /\ core'.phase = "body"
          /\ core'.carry = core.carry /\ core'.payloadLen = core.payloadLen
          /\ core'.line = core.line /\ core'.linesDone = core.linesDone
          /\ core'.width = core.width /\ core'.offset = off
        BY <1>1, <2>1 DEF Cores, Terminator
    <2>q. QED BY <1>2, <2>1, <2>2, HeaderTurnInvariant DEF off
<1>4. CASE stream[pos + 1] # "lf"
    <2>1. core' = [core EXCEPT !.phase = "body", !.runStart = start,
                               !.runLen = 1, !.runHead = head]
          /\ pos' = pos
        BY <1>4 DEF HeaderCr
    <2> HIDE DEF start, head
    <2>2. core' \in Cores
        BY <1>1, <2>1, Zenon, 1 \in Nat DEF Cores
    <2>3. core'.phase = "body"
          /\ core'.carry = core.carry /\ core'.payloadLen = core.payloadLen
          /\ core'.line = core.line /\ core'.linesDone = core.linesDone
          /\ core'.width = core.width /\ core'.offset = core.offset
        BY <1>1, <2>1 DEF Cores
    <2>q. QED BY <1>2, <2>1, <2>2, <2>3, HeaderTurnInvariant
<1>q. QED BY <1>3, <1>4

\* The body goes on by a path that may rely on what Body checked.
LEMMA BodyInvariant ==
    ASSUME IInv, Body
    PROVE  IInv'
<1>1. /\ pc = "loop" /\ pos < end /\ core.phase = "body"
      /\ UNCHANGED <<stream, fed, end, pos, mode, core, w, cap, wrote, out, ret>>
      /\ \/ core.runLen = 0 /\ core.carry = << >> /\ pc' = "fast" /\ mark' = pos
         \/ pc' = "slow" /\ mark' = 0
    BY DEF Body
<1>2. TypeOK'
    BY <1>1 DEF IInv, TypeOK
<1>3. CallShape' /\ OffsetIsPosition' /\ RoomLeft' /\ WritesInBounds'
    BY <1>1 DEF IInv, TypeOK, CallShape, OffsetIsPosition, RoomLeft,
                WritesInBounds, Running
<1>4. HeaderIsFresh' /\ CarryIsPayloadTail' /\ LinesDescribePayload'
    BY <1>1 DEF IInv, HeaderIsFresh, CarryIsPayloadTail, LinesDescribePayload
<1>q. QED BY <1>2, <1>3, <1>4 DEF IInv

----------------------------------------------------------------------------
\* Turns of the fast path.

\* The line counters of a core describe its payload.
LinesDescribe(c) ==
    c.term # Unwrapped =>
        /\ c.payloadLen = c.linesDone * c.width + c.line
        /\ c.linesDone > 0 =>
              c.width > 0 /\ c.width % WidthUnit = 0 /\ c.line <= c.width

\* What holds of the core on the fast path.
LEMMA FastCore ==
    ASSUME IInv, pc = "fast"
    PROVE  /\ core \in Cores /\ mode = "simd" /\ core.phase = "body"
           /\ core.runLen = 0 /\ core.carry = << >> /\ Len(core.carry) = 0
           /\ core.offset = pos /\ pos \in Nat /\ pos > 0
           /\ end \in Nat /\ pos <= end
           /\ mark \in Nat /\ mark < end /\ mark <= pos
           /\ LinesDescribe(core)
<1>1. mode = "simd" /\ core.phase = "body"
    BY DEF IInv, CallShape, Running
<1>2. Len(<< >>) = 0
    OBVIOUS
<1>q. QED BY <1>1, <1>2 DEF IInv, TypeOK, CallShape, OffsetIsPosition,
             LinesDescribePayload, LinesDescribe

\* A turn starts in an open line, with the offset, the count and the line
\* counters of where it starts: a break that was taken ended a full line.
LEMMA TurnStart ==
    ASSUME IInv, pc = "fast", ~ BreakMissing
    PROVE  /\ TurnCore \in Cores /\ TurnCore.phase = "body"
           /\ TurnCore.term = core.term
           /\ TurnCore.runLen = 0 /\ TurnCore.carry = << >>
           /\ TurnCore.payloadLen = core.payloadLen
           /\ TurnPos \in Nat /\ pos <= TurnPos /\ TurnPos <= end
           /\ TurnCore.offset = TurnPos
           /\ LinesDescribe(TurnCore) /\ LineOpen(TurnCore)
<1>1. /\ core \in Cores /\ core.phase = "body" /\ core.runLen = 0
      /\ core.carry = << >> /\ core.offset = pos
      /\ pos \in Nat /\ end \in Nat /\ pos <= end /\ LinesDescribe(core)
    BY FastCore
<1>2. /\ core.width \in Nat /\ core.line \in Nat /\ core.linesDone \in Nat
      /\ Len(core.term) \in Nat
    BY <1>1, TermLen DEF Cores
<1>3. CASE ~ AtLineEnd(core)
    <2>1. TurnCore = core /\ TurnPos = pos
        BY <1>3 DEF TurnCore, TurnPos, AfterBreak
    <2>2. LineOpen(core)
        BY <1>1, <1>2, <1>3 DEF LineOpen, LinesDescribe, AtLineEnd, WidthKnown
    <2>q. QED BY <1>1, <2>1, <2>2
<1>4. CASE AtLineEnd(core)
    <2> DEFINE d == TurnCore
    <2>1. /\ d \in Cores /\ d.phase = core.phase /\ d.term = core.term
          /\ d.carry = core.carry /\ d.payloadLen = core.payloadLen
          /\ d.width = core.width /\ d.runLen = core.runLen
          /\ d.offset = core.offset + Len(core.term)
          /\ d.linesDone = core.linesDone + 1 /\ d.line = 0
        BY <1>1, <1>4, AfterBreakType DEF TurnCore
    <2>2. TurnPos = pos + Len(core.term) /\ TurnPos < end
        BY <1>4 DEF BreakMissing, BreakVisible, TurnPos
    <2> HIDE DEF d
    <2>3. core.term # Unwrapped /\ core.linesDone > 0 /\ core.line = core.width
        BY <1>4 DEF AtLineEnd, WidthKnown
    <2>4. /\ core.payloadLen = core.linesDone * core.width + core.width
          /\ core.width > 0 /\ core.width % WidthUnit = 0
        BY <1>1, <2>3 DEF LinesDescribe
    <2>5. core.payloadLen = (core.linesDone + 1) * core.width + 0
        <3>1. 1 \in Nat /\ 1 * core.width = core.width
            BY <1>2
        <3>2. (core.linesDone + 1) * core.width
                 = core.linesDone * core.width + 1 * core.width
            BY <1>2, <3>1, Arith!AddRows
        <3> DEFINE rows == core.linesDone * core.width
        <3>3. rows \in Nat
            BY <1>2, Arith!AddRows
        <3> HIDE DEF rows
        <3>q. QED BY <1>2, <2>4, <3>1, <3>2, <3>3 DEF rows
    <2>6. LinesDescribe(d) /\ LineOpen(d)
        BY <1>2, <2>1, <2>4, <2>5 DEF LinesDescribe, LineOpen
    <2>q. QED BY <1>1, <1>2, <2>1, <2>2, <2>6 DEF d
<1>q. QED BY <1>3, <1>4

\* What is left in the buffer is enough for the rest of the chunk.
LEMMA RoomKept ==
    ASSUME NEW a \in Nat, NEW b \in Nat, b <= a, NEW k \in Nat \ {0},
           NEW room \in Nat, a \div k <= room
    PROVE  b \div k <= room
<1>1. b \div k <= a \div k /\ a \div k \in Nat /\ b \div k \in Nat
    BY Arith!DivMonotone, Arith!Division
<1>q. QED BY <1>1

\* The fast path is left where its last turn ends.
LEMMA FastReturnInvariant ==
    ASSUME IInv, FastReturn
    PROVE  IInv'
<1>1. /\ pc = "fast" /\ mark' = 0
      /\ UNCHANGED <<stream, fed, end, mode, w, cap, wrote, out, ret>>
      /\ core' = IF BreakMissing THEN core ELSE TurnCore
      /\ pos' = IF BreakMissing THEN pos ELSE TurnPos
      /\ pc' = IF pos' = mark THEN "slow" ELSE "loop"
    BY DEF FastReturn
<1>2. /\ core \in Cores /\ mode = "simd" /\ core.phase = "body"
      /\ core.carry = << >> /\ core.offset = pos /\ pos \in Nat /\ pos > 0
      /\ end \in Nat /\ pos <= end /\ mark \in Nat /\ mark < end
      /\ LinesDescribe(core)
    BY <1>1, FastCore
<1>3. /\ core' \in Cores /\ core'.phase = "body" /\ core'.carry = << >>
      /\ core'.payloadLen = core.payloadLen
      /\ pos' \in Nat /\ pos <= pos' /\ pos' <= end /\ core'.offset = pos'
      /\ LinesDescribe(core')
    BY <1>1, <1>2, TurnStart
<1>4. TypeOK'
    BY <1>1, <1>2, <1>3 DEF IInv, TypeOK
<1>5. CallShape'
    BY <1>1, <1>2, <1>3 DEF IInv, CallShape, Running
<1>6. OffsetIsPosition' /\ HeaderIsFresh'
    BY <1>1, <1>2, <1>3 DEF OffsetIsPosition, HeaderIsFresh
<1>7. CarryIsPayloadTail' /\ LinesDescribePayload'
    BY <1>1, <1>2, <1>3 DEF IInv, CarryIsPayloadTail, LinesDescribePayload,
                            LinesDescribe
<1>8. RoomLeft' /\ WritesInBounds'
    <2>1. /\ Len(w) \in Nat /\ Len(w) % BlockChars = 0 /\ cap \in Nat
          /\ (Len(w) + Len(core.carry) + (end - pos)) \div BlockChars <= cap
        BY <1>1 DEF IInv, TypeOK, RoomLeft, Running
    <2>2. Len(core.carry) = 0
        BY <1>2
    <2> DEFINE a == Len(w) + 0 + (end - pos)
               b == Len(w) + 0 + (end - pos')
    <2>3. a \in Nat /\ b \in Nat /\ b <= a
        BY <1>2, <1>3, <2>1
    <2>4. a \div BlockChars <= cap
        BY <2>1, <2>2
    <2> HIDE DEF a, b
    <2>5. b \div BlockChars <= cap
        BY <2>1, <2>3, <2>4, Constants, RoomKept
    <2>q. QED BY <1>1, <1>2, <1>3, <2>1, <2>2, <2>5
             DEF b, RoomLeft, WritesInBounds, IInv
<1>q. QED BY <1>4, <1>5, <1>6, <1>7, <1>8 DEF IInv

\* A turn's batch lies in the chunk, and writes no more than it reads.
LEMMA TurnBatchShape ==
    ASSUME IInv, pc = "fast", ~ BreakMissing, Blocks(TurnBatch) > 0
    PROVE  /\ TurnBatch.n \in Nat /\ TurnBatch.lines \in Nat \ {0}
           /\ Blocks(TurnBatch) \in Nat \ {0}
           /\ Span(TurnBatch) \in Nat \ {0}
           /\ TurnPos + Span(TurnBatch) <= end
           /\ BlockChars * Blocks(TurnBatch) \in Nat
           /\ BlockChars * Blocks(TurnBatch) <= Span(TurnBatch)
<1>1. /\ TurnCore \in Cores /\ LineOpen(TurnCore)
      /\ TurnPos \in Nat /\ end \in Nat /\ TurnPos <= end
    BY TurnStart, FastCore
<1>2. BlockChars \in Nat \ {0}
    BY Constants
<1>3. CASE WidthKnown(TurnCore) /\ TurnCore.line = 0
    <2>1. /\ TurnBatch.n \in Nat /\ TurnBatch.lines \in Nat
          /\ TurnBatch.lines > 0 =>
                /\ Span(TurnBatch) \in Nat /\ TurnPos + Span(TurnBatch) <= end
                /\ Blocks(TurnBatch) \in Nat
                /\ BlockChars * Blocks(TurnBatch) <= Span(TurnBatch)
        BY <1>1, <1>3, LinesBatch DEF TurnBatch
    <2>2. TurnBatch.lines # 0
        BY <2>1 DEF Blocks
    <2>3. Blocks(TurnBatch) \in Nat \ {0}
        BY <2>1, <2>2
    <2>4. BlockChars * Blocks(TurnBatch) \in Nat \ {0}
        BY <1>2, <2>3
    <2>5. Span(TurnBatch) # 0
        BY <2>1, <2>2, <2>4
    <2>q. QED BY <2>1, <2>2, <2>3, <2>4, <2>5
<1>4. CASE ~ (WidthKnown(TurnCore) /\ TurnCore.line = 0)
    <2>1. /\ TurnBatch.n \in Nat /\ TurnBatch.lines = 1
          /\ Blocks(TurnBatch) = TurnBatch.n
          /\ Span(TurnBatch) = BlockChars * TurnBatch.n
          /\ Span(TurnBatch) \in Nat /\ TurnPos + Span(TurnBatch) <= end
        BY <1>1, <1>4, RowBatch DEF TurnBatch
    <2>2. TurnBatch.n \in Nat \ {0}
        BY <2>1
    <2>3. Span(TurnBatch) # 0
        BY <1>2, <2>1, <2>2
    <2>q. QED BY <2>1, <2>2, <2>3
<1>q. QED BY <1>3, <1>4

\* The blocks that a batch writes fit in the buffer, rejected or not.
LEMMA TurnBatchRoom ==
    ASSUME IInv, pc = "fast", ~ BreakMissing, Blocks(TurnBatch) > 0
    PROVE  WroteBlocks(TurnBatch) \in Nat /\ WroteBlocks(TurnBatch) <= cap
<1> DEFINE m == Blocks(TurnBatch)
           x == BlockChars * m
           a == Len(w) + 0 + (end - pos)
           l == Len(w)
<1>1. /\ m \in Nat /\ x \in Nat /\ x <= Span(TurnBatch)
      /\ Span(TurnBatch) \in Nat /\ TurnPos + Span(TurnBatch) <= end
    BY TurnBatchShape
<1>2. /\ pos \in Nat /\ end \in Nat /\ TurnPos \in Nat /\ pos <= TurnPos
      /\ Len(core.carry) = 0
    BY TurnStart, FastCore
<1>3. /\ l \in Nat /\ cap \in Nat /\ wrote \in Nat /\ wrote <= cap
      /\ (Len(w) + Len(core.carry) + (end - pos)) \div BlockChars <= cap
    BY DEF IInv, TypeOK, RoomLeft, Running, WritesInBounds
<1>4. a \div BlockChars <= cap
    BY <1>2, <1>3
<1> HIDE DEF m
<1>5. (l + x) \div BlockChars = (l \div BlockChars) + m
    <2> HIDE DEF l, x
    <2>1. l \in Nat /\ m \in Nat /\ BlockChars \in Nat \ {0}
        BY <1>1, <1>3, Constants
    <2>2. (l + BlockChars * m) \div BlockChars = (l \div BlockChars) + m
        BY <2>1, Arith!AddBlocks
    <2>q. QED BY <2>2 DEF x
<1>6. l + x \in Nat /\ a \in Nat /\ l + x <= a
    <2> HIDE DEF x
    <2>q. QED BY <1>1, <1>2, <1>3
<1> HIDE DEF a, l
<1>7. (l + x) \div BlockChars <= cap
    <2> HIDE DEF x
    <2>q. QED BY <1>3, <1>4, <1>6, Constants, RoomKept
<1>8. l \div BlockChars \in Nat
    BY <1>3, Constants, Arith!Division
<1>9. WroteBlocks(TurnBatch) = GreaterOf(wrote, (l \div BlockChars) + m)
    BY DEF WroteBlocks, l, m
<1>q. QED BY <1>1, <1>3, <1>5, <1>7, <1>8, <1>9 DEF GreaterOf

\* A batch that was accepted leaves the line counters describing the payload:
\* of several lines, all but the last are complete.
LEMMA BatchCounted ==
    ASSUME NEW c \in Cores, LinesDescribe(c), LineOpen(c), NEW p \in Nat,
           end \in Nat, p <= end, Blocks(BatchAt(c, p)) \in Nat,
           Span(BatchAt(c, p)) \in Nat, BatchAt(c, p).lines \in Nat \ {0}
    PROVE  LinesDescribe(AfterBatch(c, BatchAt(c, p)))
<1> DEFINE b == BatchAt(c, p)
           d == AfterBatch(c, b)
           m == b.lines - 1
<1>1. BlockChars \in Nat \ {0}
    BY Constants
<1>2. c.linesDone \in Nat /\ c.width \in Nat /\ c.line \in Nat /\ c.payloadLen \in Nat
    BY DEF Cores
<1>3. CASE c.term = Unwrapped
    <2>1. b.n \in Nat
        BY <1>3, RowBatch DEF WidthKnown
    <2>2. d.term = c.term
        BY <2>1, AfterBatchType
    <2>q. QED BY <1>3, <2>2 DEF LinesDescribe
<1>4. CASE WidthKnown(c) /\ c.line = 0
    <2>1. /\ b.n \in Nat /\ BlockChars * b.n = c.width
          /\ BlockChars * Blocks(b) = c.width * b.lines
        BY <1>4, LinesBatch
    <2>2. /\ d.term = c.term /\ d.width = c.width
          /\ d.payloadLen = c.payloadLen + c.width * b.lines
          /\ d.linesDone = c.linesDone + (b.lines - 1)
          /\ d.line = IF b.lines > 1 THEN c.width ELSE c.line + c.width
        BY <2>1, AfterBatchType
    <2>3. /\ c.payloadLen = c.linesDone * c.width + 0
          /\ c.width > 0 /\ c.width % WidthUnit = 0
        BY <1>4 DEF LinesDescribe, WidthKnown
    <2>4. m \in Nat /\ b.lines = m + 1
        OBVIOUS
    <2>5. d.line = c.width
        BY <1>2, <1>4, <2>2
    <2> HIDE DEF d, b, m
    <2>6. c.width * b.lines = m * c.width + c.width
        <3> DEFINE y == c.width
        <3>1. m \in Nat /\ y \in Nat
            BY <1>2, <2>4, Zenon
        <3> HIDE DEF y
        <3>2. y * (m + 1) = m * y + y
            BY ONLY <3>1
        <3>q. QED BY <2>4, <3>2, Zenon DEF y
    <2>7. (c.linesDone + m) * c.width = c.linesDone * c.width + m * c.width
        BY <1>2, <2>4, Arith!AddRows
    <2> DEFINE x == c.linesDone * c.width
               y == m * c.width
    <2>8. x \in Nat /\ y \in Nat
        BY <1>2, <2>4, Arith!AddRows
    <2>9. d.linesDone * d.width = x + y
        BY <2>2, <2>4, <2>7 DEF m
    <2>10. d.payloadLen = (x + 0) + (y + c.width)
        BY <2>2, <2>3, <2>6
    <2> HIDE DEF x, y
    <2>11. d.payloadLen = d.linesDone * d.width + d.line
        BY <1>2, <2>5, <2>8, <2>9, <2>10
    <2>q. QED BY <1>2, <2>2, <2>3, <2>5, <2>11 DEF LinesDescribe, b, d
<1>5. CASE c.term # Unwrapped /\ ~ (WidthKnown(c) /\ c.line = 0)
    <2>1. /\ b.n \in Nat /\ b.lines = 1 /\ Blocks(b) = b.n
          /\ WidthKnown(c) => c.line + BlockChars * b.n <= c.width
        BY <1>5, RowBatch
    <2>2. /\ d.term = c.term /\ d.width = c.width
          /\ d.payloadLen = c.payloadLen + BlockChars * b.n
          /\ d.linesDone = c.linesDone + (b.lines - 1)
          /\ d.line = IF b.lines > 1 THEN BlockChars * b.n
                      ELSE c.line + BlockChars * b.n
        BY <2>1, AfterBatchType
    <2>3. c.payloadLen = c.linesDone * c.width + c.line
        BY <1>5 DEF LinesDescribe
    <2>4. d.linesDone = c.linesDone
        BY <1>2, <2>1, <2>2
    <2> DEFINE x == BlockChars * b.n
               y == c.linesDone * c.width
    <2>5. x \in Nat /\ y \in Nat
        BY <1>1, <1>2, <2>1
    <2>6. /\ d.line = c.line + x /\ d.payloadLen = c.payloadLen + x
          /\ d.linesDone * d.width = y
        BY <2>1, <2>2, <2>4
    <2>7. c.payloadLen = y + c.line
        BY <2>3
    <2>8. d.linesDone > 0 => d.line <= d.width
        BY <1>5, <2>1, <2>2, <2>4 DEF WidthKnown
    <2>9. d.linesDone > 0 => d.width > 0 /\ d.width % WidthUnit = 0
        BY <1>5, <2>2, <2>4 DEF LinesDescribe
    <2> HIDE DEF x, y, b, d
    <2>10. d.payloadLen = d.linesDone * d.width + d.line
        BY <1>2, <2>5, <2>6, <2>7
    <2>q. QED BY <2>8, <2>9, <2>10 DEF LinesDescribe, b, d
<1>q. QED BY <1>3, <1>4, <1>5

\* An accepted batch.
LEMMA FastBatchInvariant ==
    ASSUME IInv, FastBatch
    PROVE  IInv'
<1> DEFINE b == TurnBatch
           m == Blocks(b)
           x == BlockChars * m
           s == BatchChars(b, TurnPos)
<1>1. /\ pc = "fast" /\ ~ BreakMissing /\ m > 0 /\ CharsValid(s)
      /\ core' = AfterBatch(TurnCore, b) /\ pos' = TurnPos + Span(b)
      /\ w' = w \o s /\ wrote' = WroteBlocks(b)
      /\ UNCHANGED <<stream, fed, end, mode, pc, mark, cap, out, ret>>
    BY DEF FastBatch, BatchValid
<1>2. /\ b.n \in Nat /\ b.lines \in Nat \ {0} /\ m \in Nat \ {0}
      /\ Span(b) \in Nat \ {0} /\ TurnPos + Span(b) <= end
      /\ x \in Nat /\ x <= Span(b)
    BY <1>1, TurnBatchShape
<1>3. /\ TurnCore \in Cores /\ TurnCore.phase = "body"
      /\ TurnCore.runLen = 0 /\ TurnCore.carry = << >>
      /\ TurnCore.payloadLen = core.payloadLen
      /\ TurnPos \in Nat /\ pos <= TurnPos /\ TurnPos <= end
      /\ TurnCore.offset = TurnPos
      /\ LinesDescribe(TurnCore) /\ LineOpen(TurnCore)
    BY <1>1, TurnStart
<1>4. /\ core \in Cores /\ mode = "simd" /\ core.carry = << >>
      /\ Len(core.carry) = 0 /\ pos \in Nat /\ pos > 0 /\ end \in Nat
      /\ mark \in Nat /\ mark < end /\ mark <= pos
    BY <1>1, FastCore
<1>5. /\ core' \in Cores /\ core'.phase = "body" /\ core'.runLen = 0
      /\ core'.carry = << >> /\ core'.offset = TurnPos + Span(b)
      /\ core'.payloadLen = core.payloadLen + x
    <2> DEFINE t == TurnCore
               d == AfterBatch(t, b)
    <2>1. t \in Cores /\ Blocks(b) \in Nat /\ Span(b) \in Nat
        BY <1>2, <1>3
    <2> HIDE DEF t
    <2>2. /\ d \in Cores
          /\ d.phase = t.phase /\ d.carry = t.carry /\ d.runLen = t.runLen
          /\ d.offset = t.offset + Span(b)
          /\ d.payloadLen = t.payloadLen + BlockChars * Blocks(b)
        BY <1>2, <2>1, AfterBatchType
    <2>q. QED BY <1>1, <1>3, <2>2, Zenon DEF t
<1>6. LinesDescribe(core')
    BY <1>1, <1>2, <1>3, <1>4, BatchCounted DEF TurnBatch
<1>7. s \in Seq(Alphabet) /\ Len(s) = x
    <2>1. BlockChars * b.n * b.lines = BlockChars * (b.n * b.lines)
        BY <1>2, Constants
    <2>2. BlockChars * b.n * b.lines = x
        BY <2>1 DEF Blocks
    <2>3. BlockChars * b.n * b.lines \in Nat
        BY <1>2, <2>2
    <2>4. s \in Seq(Alphabet) /\ Len(s) = BlockChars * b.n * b.lines
        BY <1>1, <2>3, BatchCharsType
    <2>q. QED BY <2>2, <2>4
<1>8. WroteBlocks(b) \in Nat /\ WroteBlocks(b) <= cap
    BY <1>1, TurnBatchRoom
<1> HIDE DEF m, x, s, b
<1>9. pos' \in Nat /\ pos <= pos' /\ pos' <= end
    BY <1>1, <1>2, <1>3, <1>4
<1>10. w' \in Seq(Alphabet) /\ Len(w') = Len(w) + x /\ Len(w) \in Nat
    <2>1. w \in Seq(Alphabet)
        BY DEF IInv, TypeOK
    <2>2. w \o s \in Seq(Alphabet) /\ Len(w \o s) = Len(w) + Len(s)
        BY <1>7, <2>1, ConcatProperties
    <2>3. Len(w) \in Nat
        BY <2>1, LenProperties
    <2>q. QED BY <1>1, <1>7, <2>2, <2>3
<1>11. TypeOK'
    BY <1>1, <1>5, <1>8, <1>9, <1>10 DEF IInv, TypeOK
<1>12. CallShape'
    BY <1>1, <1>4, <1>5, <1>9 DEF CallShape, Running
<1>13. OffsetIsPosition' /\ HeaderIsFresh'
    BY <1>1, <1>4, <1>5, <1>9 DEF OffsetIsPosition, HeaderIsFresh
<1>14. LinesDescribePayload'
    BY <1>6 DEF LinesDescribe, LinesDescribePayload
<1>15. CarryIsPayloadTail'
    <2>1. core.payloadLen \in Nat /\ core.payloadLen % BlockChars = 0
        BY <1>4 DEF IInv, CarryIsPayloadTail, Cores
    <2>2. (core.payloadLen + x) % BlockChars = core.payloadLen % BlockChars
        BY <1>2, <2>1, WholeBlocks, Zenon DEF x
    <2>q. QED BY <1>4, <1>5, <2>1, <2>2 DEF CarryIsPayloadTail
<1>16. RoomLeft' /\ WritesInBounds'
    <2>1. /\ Len(w) % BlockChars = 0 /\ cap \in Nat
          /\ (Len(w) + Len(core.carry) + (end - pos)) \div BlockChars <= cap
        BY <1>1 DEF IInv, TypeOK, RoomLeft, Running
    <2> DEFINE a == Len(w) + 0 + (end - pos)
               c == Len(w') + 0 + (end - pos')
    <2>2. a \in Nat /\ c \in Nat /\ c <= a
        <3> DEFINE l == Len(w)
                   ll == Len(w')
                   sp == Span(b)
        <3>1. l \in Nat /\ ll = l + x /\ x \in Nat /\ sp \in Nat /\ x <= sp
            BY <1>2, <1>10
        <3>2. /\ pos' = TurnPos + sp /\ pos \in Nat /\ TurnPos \in Nat
              /\ pos <= TurnPos /\ end \in Nat /\ pos' <= end
            BY <1>1, <1>3, <1>4, <1>9
        <3>3. end' = end
            BY <1>1
        <3> HIDE DEF l, ll, sp
        <3>4. l + 0 + (end - pos) \in Nat /\ ll + 0 + (end - pos') \in Nat
              /\ ll + 0 + (end - pos') <= l + 0 + (end - pos)
            BY <3>1, <3>2
        <3>q. QED BY <3>3, <3>4 DEF l, ll
    <2>3. a \div BlockChars <= cap
        BY <1>4, <2>1
    <2> HIDE DEF a, c
    <2>4. c \div BlockChars <= cap
        BY <2>1, <2>2, <2>3, Constants, RoomKept
    <2> DEFINE l == Len(w)
    <2>5. l \in Nat /\ l % BlockChars = 0
        BY <1>10, <2>1
    <2> HIDE DEF l
    <2>6. (l + x) % BlockChars = 0
        <3>1. (l + x) % BlockChars = l % BlockChars
            BY <1>2, <2>5, WholeBlocks, Zenon DEF x
        <3>q. QED BY <2>5, <3>1, Zenon
    <2>7. Len(w') % BlockChars = 0
        BY <1>10, <2>6 DEF l
    <2>8. Len(core'.carry) = 0
        BY <1>4, <1>5
    <2>q. QED BY <1>1, <1>8, <2>4, <2>7, <2>8 DEF c, RoomLeft, WritesInBounds
<1>q. QED BY <1>11, <1>12, <1>13, <1>14, <1>15, <1>16 DEF IInv

\* A rejected batch: the slow path starts where the batch did.
LEMMA FastRejectInvariant ==
    ASSUME IInv, FastReject
    PROVE  IInv'
<1> DEFINE b == TurnBatch
<1>1. /\ pc = "fast" /\ ~ BreakMissing /\ Blocks(b) > 0
      /\ core' = TurnCore /\ pos' = TurnPos /\ pc' = "reread"
      /\ mark' = TurnPos + Span(b) /\ wrote' = WroteBlocks(b)
      /\ UNCHANGED <<stream, fed, end, mode, w, cap, out, ret>>
    BY DEF FastReject
<1>2. Span(b) \in Nat \ {0} /\ TurnPos + Span(b) <= end
    BY <1>1, TurnBatchShape
<1>3. /\ TurnCore \in Cores /\ TurnCore.phase = "body"
      /\ TurnCore.carry = << >> /\ TurnCore.payloadLen = core.payloadLen
      /\ TurnPos \in Nat /\ pos <= TurnPos /\ TurnPos <= end
      /\ TurnCore.offset = TurnPos /\ LinesDescribe(TurnCore)
    BY <1>1, TurnStart
<1>4. /\ mode = "simd" /\ core.carry = << >> /\ Len(core.carry) = 0
      /\ pos \in Nat /\ pos > 0 /\ end \in Nat
    BY <1>1, FastCore
<1>5. WroteBlocks(b) \in Nat /\ WroteBlocks(b) <= cap
    BY <1>1, TurnBatchRoom
<1> HIDE DEF b
<1>6. TypeOK'
    BY <1>1, <1>2, <1>3, <1>4, <1>5 DEF IInv, TypeOK
<1>7. CallShape'
    BY <1>1, <1>2, <1>3, <1>4 DEF CallShape, Running
<1>8. OffsetIsPosition' /\ HeaderIsFresh'
    BY <1>1, <1>3, <1>4 DEF OffsetIsPosition, HeaderIsFresh
<1>9. CarryIsPayloadTail' /\ LinesDescribePayload'
    BY <1>1, <1>3, <1>4 DEF IInv, CarryIsPayloadTail, LinesDescribePayload,
                            LinesDescribe
<1>10. RoomLeft' /\ WritesInBounds'
    <2>1. /\ Len(w) \in Nat /\ Len(w) % BlockChars = 0 /\ cap \in Nat
          /\ (Len(w) + Len(core.carry) + (end - pos)) \div BlockChars <= cap
        BY <1>1 DEF IInv, TypeOK, RoomLeft, Running
    <2> DEFINE a == Len(w) + 0 + (end - pos)
               c == Len(w) + 0 + (end - pos')
    <2>2. a \in Nat /\ c \in Nat /\ c <= a
        BY <1>1, <1>3, <1>4, <2>1
    <2>3. a \div BlockChars <= cap
        BY <1>4, <2>1
    <2> HIDE DEF a, c
    <2>4. c \div BlockChars <= cap
        BY <2>1, <2>2, <2>3, Constants, RoomKept
    <2>5. core'.carry = core.carry
        BY <1>1, <1>3, <1>4
    <2>q. QED BY <1>1, <1>4, <1>5, <2>1, <2>4, <2>5
             DEF c, RoomLeft, WritesInBounds
<1>q. QED BY <1>6, <1>7, <1>8, <1>9, <1>10 DEF IInv

----------------------------------------------------------------------------
\* The slow path.

\* A payload character that breaks no rule leaves the line counters describing
\* the payload: a break before it ended a full line, or set the width.
LEMMA PayloadCounted ==
    ASSUME NEW c \in Cores, NEW b \in Alphabet, LinesDescribe(c),
           ~ LayoutBroken(c)
    PROVE  LinesDescribe(InPayload(c, b))
<1> DEFINE d == AfterRun(c)
           e == InPayload(c, b)
<1>1. /\ d \in Cores /\ d.term = c.term /\ d.payloadLen = c.payloadLen
      /\ d.width = IF c.runLen > 0 /\ c.linesDone = 0 THEN c.line ELSE c.width
      /\ d.linesDone = IF c.runLen > 0 THEN c.linesDone + 1 ELSE c.linesDone
      /\ d.line = IF c.runLen > 0 THEN 0 ELSE c.line
    BY AfterRunType
<1>2. /\ e.term = c.term /\ e.payloadLen = c.payloadLen + 1
      /\ e.width = d.width /\ e.linesDone = d.linesDone
      /\ e.line = IF c.term = Unwrapped THEN d.line ELSE d.line + 1
    BY InPayloadType
<1>3. /\ c.payloadLen \in Nat /\ c.linesDone \in Nat /\ c.width \in Nat
      /\ c.line \in Nat /\ c.runLen \in Nat
    BY DEF Cores
<1>4. SUFFICES ASSUME c.term # Unwrapped
               PROVE  /\ e.payloadLen = e.linesDone * e.width + e.line
                      /\ e.linesDone > 0 => /\ e.width > 0
                                            /\ e.width % WidthUnit = 0
                                            /\ e.line <= e.width
    BY <1>2 DEF LinesDescribe
<1>5. /\ c.payloadLen = c.linesDone * c.width + c.line
      /\ c.linesDone > 0 =>
            c.width > 0 /\ c.width % WidthUnit = 0 /\ c.line <= c.width
    BY <1>4 DEF LinesDescribe
<1>6. /\ c.runLen > 0 =>
            /\ c.linesDone = 0 => d.width # 0 /\ d.width % WidthUnit = 0
            /\ c.line = d.width
      /\ d.linesDone > 0 => d.line # d.width
    BY <1>4 DEF LayoutBroken
<1> HIDE DEF d, e
<1>7. CASE c.runLen = 0
    <2>1. /\ e.linesDone = c.linesDone /\ e.width = c.width
          /\ e.line = c.line + 1 /\ e.payloadLen = c.payloadLen + 1
        BY <1>1, <1>2, <1>4, <1>7
    <2>2. c.linesDone > 0 => c.line # c.width
        BY <1>1, <1>6, <1>7
    <2> DEFINE x == c.linesDone * c.width
    <2>3. x \in Nat /\ e.linesDone * e.width = x
        BY <1>3, <2>1, Arith!AddRows
    <2>4. c.payloadLen = x + c.line
        BY <1>5
    <2> HIDE DEF x
    <2>5. e.payloadLen = e.linesDone * e.width + e.line
        BY <1>3, <2>1, <2>3, <2>4
    <2>q. QED BY <1>3, <1>5, <2>1, <2>2, <2>5
<1>8. CASE c.runLen > 0 /\ c.linesDone = 0
    <2>1. /\ e.linesDone = 1 /\ e.width = c.line /\ e.line = 1
          /\ e.payloadLen = c.payloadLen + 1
        BY <1>1, <1>2, <1>4, <1>8
    <2>2. c.line # 0 /\ c.line % WidthUnit = 0
        BY <1>1, <1>6, <1>8
    <2>3. c.payloadLen = c.line
        BY <1>3, <1>5, <1>8
    <2>q. QED BY <1>3, <2>1, <2>2, <2>3
<1>9. CASE c.runLen > 0 /\ c.linesDone > 0
    <2>1. /\ e.linesDone = c.linesDone + 1 /\ e.width = c.width /\ e.line = 1
          /\ e.payloadLen = c.payloadLen + 1
        BY <1>1, <1>2, <1>3, <1>4, <1>9
    <2>2. c.line = c.width
        BY <1>1, <1>3, <1>6, <1>9
    <2> DEFINE x == c.linesDone * c.width
    <2>3. x \in Nat /\ (c.linesDone + 1) * c.width = x + c.width
        <3>1. 1 \in Nat /\ 1 * c.width = c.width
            BY <1>3
        <3>q. QED BY <1>3, <3>1, Arith!AddRows
    <2>4. c.payloadLen = x + c.line
        BY <1>5
    <2>5. e.linesDone * e.width = x + c.width
        BY <2>1, <2>3
    <2> HIDE DEF x
    <2>6. e.payloadLen = e.linesDone * e.width + e.line
        BY <1>3, <2>1, <2>2, <2>3, <2>4, <2>5
    <2>q. QED BY <1>3, <1>5, <1>9, <2>1, <2>6
<1>q. QED BY <1>3, <1>7, <1>8, <1>9

\* What the slow path relies on.
LEMMA SlowStart ==
    ASSUME IInv, pc \in {"slow", "reread"}
    PROVE  /\ Running /\ mode = "simd" /\ core.phase = "body" /\ pos < end
           /\ pos \in Nat /\ end \in Nat /\ mark \in 0 .. end
           /\ core \in Cores /\ core.offset = pos /\ pos > 0
           /\ stream[pos + 1] \in Byte
           /\ pc = "reread" => pos < mark
           /\ LinesDescribe(core)
<1>1. /\ Running /\ mode = "simd" /\ core.phase = "body"
      /\ pc = "slow" => pos < end
      /\ pc = "reread" => pos < mark
    BY DEF IInv, CallShape, Running
<1>2. pos \in Nat /\ end \in Nat /\ mark \in 0 .. end /\ core \in Cores
    BY DEF IInv, TypeOK
<1>3. pos < end
    BY <1>1, <1>2
<1>4. stream[pos + 1] \in Byte
    BY <1>1, <1>3, NextByte
<1>q. QED BY <1>1, <1>2, <1>3, <1>4
         DEF IInv, OffsetIsPosition, LinesDescribePayload, LinesDescribe

\* One byte that the slow path accepts: what it decodes, what it carries and
\* what is left to read still fit.
LEMMA SlowTurnInvariant ==
    ASSUME IInv, pc \in {"slow", "reread"}, pos' = pos + 1,
           UNCHANGED <<stream, fed, end, mode, cap, out, ret>>,
           core' \in Cores, core'.phase = "body",
           core'.offset = core.offset + 1,
           Len(core'.carry) = core'.payloadLen % BlockChars,
           LinesDescribe(core'),
           w' \in Seq(Alphabet), Len(w') % BlockChars = 0,
           Len(w') + Len(core'.carry) <= Len(w) + Len(core.carry) + 1,
           wrote' = GreaterOf(wrote, Len(w') \div BlockChars),
           \/ pc' = "reread" /\ mark' = mark /\ pos + 1 < mark
           \/ pc' = "loop" /\ mark' = 0
    PROVE  IInv'
<1>1. /\ mode = "simd" /\ pos < end /\ pos \in Nat /\ end \in Nat /\ pos > 0
      /\ core.offset = pos /\ mark \in 0 .. end /\ core \in Cores /\ Running
    BY SlowStart
<1>2. /\ w \in Seq(Alphabet) /\ cap \in Nat /\ wrote \in Nat /\ wrote <= cap
      /\ core.carry \in Seq(Alphabet) /\ core'.carry \in Seq(Alphabet)
      /\ (Len(w) + Len(core.carry) + (end - pos)) \div BlockChars <= cap
    BY <1>1 DEF IInv, TypeOK, WritesInBounds, RoomLeft, Cores
<1>3. /\ Len(w) \in Nat /\ Len(w') \in Nat
      /\ Len(core.carry) \in Nat /\ Len(core'.carry) \in Nat
    BY <1>2, LenProperties
<1> DEFINE a == Len(w) + Len(core.carry) + (end - pos)
           c == Len(w') + Len(core'.carry) + (end' - pos')
           l == Len(w')
<1>4. a \in Nat /\ c \in Nat /\ c <= a /\ l \in Nat /\ l <= a
    <2> DEFINE y  == Len(w)
               d  == Len(core.carry)
               dd == Len(core'.carry)
               p  == pos'
               e  == end'
    <2>1. /\ y \in Nat /\ l \in Nat /\ d \in Nat /\ dd \in Nat
          /\ l + dd <= y + d + 1 /\ p = pos + 1 /\ e = end
          /\ pos \in Nat /\ end \in Nat /\ pos < end
        BY <1>1, <1>3
    <2> HIDE DEF y, l, d, dd, p, e
    <2>2. /\ y + d + (end - pos) \in Nat /\ l + dd + (e - p) \in Nat
          /\ l + dd + (e - p) <= y + d + (end - pos)
          /\ l \in Nat /\ l <= y + d + (end - pos)
        BY ONLY <2>1
    <2>q. QED BY <2>2, Zenon DEF y, l, d, dd, p, e
<1>5. a \div BlockChars <= cap
    BY <1>2
<1> HIDE DEF a, c
<1>6. c \div BlockChars <= cap
    BY <1>2, <1>4, <1>5, Constants, RoomKept
<1>7. l \div BlockChars <= cap /\ l \div BlockChars \in Nat
    <2> HIDE DEF l
    <2>q. QED BY <1>2, <1>4, <1>5, Constants, RoomKept, Arith!Division
<1>8. wrote' \in Nat /\ wrote' <= cap
    BY <1>2, <1>7 DEF GreaterOf
<1>9. TypeOK'
    BY <1>1, <1>8 DEF IInv, TypeOK
<1>10. CallShape' /\ OffsetIsPosition' /\ HeaderIsFresh'
    BY <1>1 DEF IInv, CallShape, OffsetIsPosition, HeaderIsFresh, Running
<1>11. CarryIsPayloadTail' /\ LinesDescribePayload'
    BY DEF CarryIsPayloadTail, LinesDescribePayload, LinesDescribe
<1>12. RoomLeft' /\ WritesInBounds'
    BY <1>6, <1>8 DEF c, RoomLeft, WritesInBounds
<1>q. QED BY <1>9, <1>10, <1>11, <1>12 DEF IInv

\* A byte that the slow path accepts: whitespace, or a payload character.
LEMMA SlowOkInvariant ==
    ASSUME IInv, SlowOk
    PROVE  IInv'
<1> DEFINE b    == stream[pos + 1]
           done == Completed(core, b)
<1>1. /\ pc \in {"slow", "reread"} /\ SlowFault(core, b) = NoError
      /\ core' = AfterByte(core, b) /\ pos' = pos + 1 /\ w' = w \o done
      /\ wrote' = GreaterOf(wrote, Len(w') \div BlockChars)
      /\ UNCHANGED <<stream, fed, end, mode, cap, out, ret>>
      /\ \/ pc' = "reread" /\ mark' = mark /\ pos + 1 < mark
         \/ pc' = "loop" /\ mark' = 0
    BY DEF SlowOk
<1>2. /\ core \in Cores /\ core.phase = "body" /\ b \in Byte
      /\ LinesDescribe(core) /\ mode = "simd"
    BY <1>1, SlowStart
<1>3. /\ w \in Seq(Alphabet) /\ Len(w) % BlockChars = 0
      /\ core.carry \in Seq(Alphabet) /\ core.payloadLen \in Nat
      /\ Len(core.carry) = core.payloadLen % BlockChars
    BY <1>1, <1>2 DEF IInv, TypeOK, RoomLeft, Running, CarryIsPayloadTail, Cores
<1>4. Len(w) \in Nat /\ Len(core.carry) \in Nat
    BY <1>3, LenProperties
<1> HIDE DEF b
<1>5. CASE b \in Whitespace
    <2>1. core' = InRun(core, b) /\ done = << >>
        BY <1>1, <1>5 DEF AfterByte, Completed
    <2>2. w' = w
        BY <1>1, <1>3, <2>1, ConcatEmptySeq
    <2>3. /\ core' \in Cores /\ core'.phase = "body" /\ core'.term = core.term
          /\ core'.carry = core.carry /\ core'.payloadLen = core.payloadLen
          /\ core'.width = core.width /\ core'.line = core.line
          /\ core'.linesDone = core.linesDone
          /\ core'.offset = core.offset + 1
        BY <1>2, <1>5, <2>1, InRunType
    <2>4. LinesDescribe(core')
        BY <1>2, <2>3 DEF LinesDescribe
    <2>q. QED BY <1>1, <1>3, <1>4, <2>2, <2>3, <2>4, SlowTurnInvariant
<1>6. CASE b \notin Whitespace
    <2>1. b \in Alphabet /\ ~ LayoutBroken(core)
        BY <1>1, <1>2, <1>6, SlowFaultType
    <2>2. core' = InPayload(core, b)
        BY <1>1, <1>6 DEF AfterByte
    <2>3. /\ core' \in Cores /\ core'.phase = "body"
          /\ core'.offset = core.offset + 1
          /\ core'.payloadLen = core.payloadLen + 1
          /\ core'.carry = IF Len(core.carry) + 1 = BlockChars THEN << >>
                           ELSE Append(core.carry, b)
        BY <1>2, <2>1, <2>2, InPayloadType
    <2>4. LinesDescribe(core')
        BY <1>2, <2>1, <2>2, PayloadCounted
    <2>5. /\ Len(core.carry) + 1 = BlockChars =>
                (core.payloadLen + 1) % BlockChars = 0
          /\ Len(core.carry) + 1 # BlockChars =>
                (core.payloadLen + 1) % BlockChars = Len(core.carry) + 1
        BY <1>3, Constants, Arith!AddOne
    <2>6. /\ Append(core.carry, b) \in Seq(Alphabet)
          /\ Len(Append(core.carry, b)) = Len(core.carry) + 1
        BY <1>3, <2>1
    <2>7. CASE Len(core.carry) + 1 = BlockChars
        <3>1. done = Append(core.carry, b)
            BY <1>6, <2>7 DEF Completed
        <3>2. w' \in Seq(Alphabet) /\ Len(w') = Len(w) + BlockChars
            BY <1>1, <1>3, <2>6, <2>7, <3>1, ConcatProperties
        <3>3. Len(w') % BlockChars = 0
            <4> DEFINE l == Len(w)
            <4>1. l \in Nat /\ l % BlockChars = 0 /\ 1 \in Nat
                BY <1>3, <1>4
            <4> HIDE DEF l
            <4>2. (l + BlockChars * 1) % BlockChars = 0
                BY <4>1, WholeBlocks, Zenon
            <4>3. BlockChars * 1 = BlockChars
                BY Constants
            <4>q. QED BY <3>2, <4>2, <4>3 DEF l
        <3>4. core'.carry = << >> /\ Len(core'.carry) = 0
            BY <2>3, <2>7
        <3>5. Len(core'.carry) = core'.payloadLen % BlockChars
            BY <2>3, <2>5, <2>7, <3>4
        <3>6. Len(w') + Len(core'.carry) <= Len(w) + Len(core.carry) + 1
            BY <1>4, <2>7, <3>2, <3>4
        <3>q. QED BY <1>1, <2>3, <2>4, <3>2, <3>3, <3>5, <3>6, SlowTurnInvariant
    <2>8. CASE Len(core.carry) + 1 # BlockChars
        <3>1. done = << >>
            BY <2>8 DEF Completed
        <3>2. w' = w
            BY <1>1, <1>3, <3>1, ConcatEmptySeq
        <3>3. Len(core'.carry) = Len(core.carry) + 1
            BY <2>3, <2>6, <2>8
        <3>4. Len(core'.carry) = core'.payloadLen % BlockChars
            BY <2>3, <2>5, <2>8, <3>3
        <3>5. Len(w') + Len(core'.carry) <= Len(w) + Len(core.carry) + 1
            BY <1>4, <3>2, <3>3
        <3>q. QED BY <1>1, <1>3, <2>3, <2>4, <3>2, <3>4, <3>5, SlowTurnInvariant
    <2>q. QED BY <2>7, <2>8
<1>q. QED BY <1>5, <1>6

\* A byte that it does not: the decoder fails, with its error.
LEMMA SlowErrorInvariant ==
    ASSUME IInv, SlowError
    PROVE  IInv'
<1> DEFINE fault == SlowFault(core, stream[pos + 1])
<1>1. /\ pc \in {"slow", "reread"} /\ core' = Failed(core, fault)
      /\ Return(fault) /\ mode' = mode /\ out' = out
    BY DEF SlowError
<1>2. core \in Cores /\ stream[pos + 1] \in Byte
    BY <1>1, SlowStart
<1>3. fault \in Errors
    BY <1>2, SlowFaultType
<1> HIDE DEF fault
<1>4. /\ core' \in Cores /\ core'.phase = "failed"
      /\ core'.carry = core.carry /\ core'.payloadLen = core.payloadLen
      /\ core'.offset = core.offset
    BY <1>1, <1>2, <1>3, FailedType
<1>5. out' \in Seq(Alphabet)
    BY <1>1 DEF IInv, TypeOK
<1>q. QED BY <1>1, <1>3, <1>4, <1>5, ReturnInvariant

----------------------------------------------------------------------------
\* The invariant and what follows from it.

\* Every step preserves the invariant.
LEMMA StepInvariant == IInv /\ [Next]_vars => IInv'
<1> SUFFICES ASSUME IInv, [Next]_vars PROVE IInv'
    OBVIOUS
<1>1. ASSUME NEW n \in Chunks, Decode(n) PROVE IInv'
    BY <1>1, DecodeInvariant
<1>2. CASE DecodeNothing \/ DecodeTooSmall \/ FinishTooSmall
    BY <1>2, RefusalInvariant
<1>3. CASE Finish
    BY <1>3, FinishInvariant
<1>4. CASE Begin
    BY <1>4, BeginInvariant
<1>5. CASE ReturnOk
    BY <1>5, ReturnOkInvariant
<1>6. CASE ReturnFailed
    BY <1>6, ReturnFailedInvariant
<1>7. CASE Header
    BY <1>7, HeaderInvariant
<1>8. CASE HeaderCr
    BY <1>8, HeaderCrInvariant
<1>9. CASE Body
    BY <1>9, BodyInvariant
<1>10. CASE FastReturn
    BY <1>10, FastReturnInvariant
<1>11. CASE FastBatch
    BY <1>11, FastBatchInvariant
<1>12. CASE FastReject
    BY <1>12, FastRejectInvariant
<1>13. CASE SlowOk
    BY <1>13, SlowOkInvariant
<1>14. CASE SlowError
    BY <1>14, SlowErrorInvariant
<1>15. CASE UNCHANGED vars
    BY <1>15 DEF vars, callVars, IInv, TypeOK, CallShape, OffsetIsPosition,
                 HeaderIsFresh, CarryIsPayloadTail, LinesDescribePayload,
                 RoomLeft, WritesInBounds, Running
<1>q. QED BY <1>1, <1>2, <1>3, <1>4, <1>5, <1>6, <1>7, <1>8, <1>9, <1>10,
             <1>11, <1>12, <1>13, <1>14, <1>15 DEF Next, Call, Step

\* The decoder always satisfies the invariant.
THEOREM Invariance == Spec => []IInv
BY InitInvariant, StepInvariant, PTL DEF Spec

\* Every variable keeps its type, and the reading position stays in the chunk
\* of the call in progress, whatever the stream and its pieces.
THEOREM TypeCorrect == Spec => []TypeOK
<1>1. IInv => TypeOK
    BY DEF IInv
<1>q. QED BY <1>1, Invariance, PTL

\* No call of decode writes past the blocks that decode_len promised for it,
\* whatever the batches are and however many of them the kernel rejects.
THEOREM NoOverrun == Spec => []WritesInBounds
<1>1. IInv => WritesInBounds
    BY DEF IInv
<1>q. QED BY <1>1, Invariance, PTL

\* The carried characters are those of the payload's incomplete block: the
\* debug_assert of DecodeCore::finish, and what the length rule relies on.
THEOREM CarryCorrect == Spec => []CarryIsPayloadTail
<1>1. IInv => CarryIsPayloadTail
    BY DEF IInv
<1>q. QED BY <1>1, Invariance, PTL

\* The line counters always describe the payload, in whatever order the fast
\* and the slow path took its breaks.
THEOREM LinesCorrect == Spec => []LinesDescribePayload
<1>1. IInv => LinesDescribePayload
    BY DEF IInv
<1>q. QED BY <1>1, Invariance, PTL

----------------------------------------------------------------------------
\* Errors are final.

\* Where a failed decoder may be: it is not in its loops.
LEMMA FailedAt ==
    ASSUME IInv, mode = "simd", core.phase = "failed"
    PROVE  pc \in {"idle", "loop"}
BY DEF IInv, TypeOK, CallShape

\* A core fails with an error, and no step changes that.
LEMMA FailureStep ==
    ASSUME IInv, FailureStands, Next
    PROVE  FailureStands'
<1>1. core \in Cores /\ pos \in Nat /\ end \in Nat
    BY DEF IInv, TypeOK
<1>2. ASSUME NEW n \in Chunks, Decode(n) PROVE FailureStands'
    <2>1. CASE mode = "simd"
        <3>1. /\ mode' = mode /\ core' = core /\ pc' = "loop" /\ pos' = pos
              /\ end' = pos + n
            BY <1>2, <2>1 DEF Decode
        <3>2. n \in Nat \ {0}
            BY <1>1 DEF Chunks, IInv, TypeOK
        <3>q. QED BY <1>1, <3>1, <3>2 DEF FailureStands
    <2>2. CASE mode # "simd"
        <3>1. CASE mode' # "simd"
            BY <3>1 DEF FailureStands
        <3>2. CASE mode' = "simd"
            <4>1. PICK off : core' = NewCore(off)
                BY <1>2, <2>2, <3>2 DEF Decode
            <4>q. QED BY <4>1 DEF FailureStands, NewCore
        <3>q. QED BY <3>1, <3>2
    <2>q. QED BY <2>1, <2>2
<1>3. CASE DecodeNothing \/ DecodeTooSmall \/ FinishTooSmall
    BY <1>3 DEF FailureStands, DecodeNothing, DecodeTooSmall, FinishTooSmall
<1>4. CASE Finish
    BY <1>4 DEF FailureStands, Finish
<1>5. CASE Begin
    BY <1>5 DEF IInv, CallShape, FailureStands, Begin
<1>6. CASE ReturnOk \/ ReturnFailed
    BY <1>6 DEF FailureStands, ReturnOk, ReturnFailed, Return
<1>7. CASE Header
    BY <1>1, <1>7 DEF FailureStands, Header, Cores
<1>8. CASE HeaderCr
    BY <1>1, <1>8 DEF FailureStands, HeaderCr, Cores
<1>9. CASE Body
    BY <1>9 DEF FailureStands, Body
<1>10. CASE FastReturn
    <2>1. core'.phase = "body"
        BY <1>10, FastCore, TurnStart DEF FastReturn
    <2>q. QED BY <2>1 DEF FailureStands
<1>11. CASE FastBatch
    <2>1. core' = AfterBatch(TurnCore, TurnBatch) /\ TurnCore.phase = "body"
        BY <1>11, TurnStart DEF FastBatch
    <2>2. core'.phase = "body"
        BY <1>11, <2>1, TurnStart, TurnBatchShape, AfterBatchType DEF FastBatch
    <2>q. QED BY <2>2 DEF FailureStands
<1>12. CASE FastReject
    <2>1. core'.phase = "body"
        BY <1>12, TurnStart DEF FastReject
    <2>q. QED BY <2>1 DEF FailureStands
<1>13. CASE SlowOk
    <2> DEFINE b == stream[pos + 1]
    <2>1. /\ b \in Byte /\ core.phase = "body" /\ core' = AfterByte(core, b)
          /\ SlowFault(core, b) = NoError
        BY <1>13, SlowStart DEF SlowOk
    <2> HIDE DEF b
    <2>2. core'.phase = "body"
        BY <1>1, <2>1, InRunType, InPayloadType, SlowFaultType DEF AfterByte
    <2>q. QED BY <2>2 DEF FailureStands
<1>14. CASE SlowError
    <2> DEFINE fault == SlowFault(core, stream[pos + 1])
    <2>1. core' = [core EXCEPT !.phase = "failed", !.err = fault]
          /\ fault # NoError /\ pc' = "idle"
        BY <1>14 DEF SlowError, Failed, Return
    <2> HIDE DEF fault
    <2>2. core'.err = fault
        BY <1>1, <2>1 DEF Cores
    <2>q. QED BY <2>1, <2>2 DEF FailureStands
<1>q. QED BY <1>2, <1>3, <1>4, <1>5, <1>6, <1>7, <1>8, <1>9, <1>10, <1>11,
             <1>12, <1>13, <1>14 DEF Next, Call, Step

\* A step from a failed core is a refusal, or answers the core's error.
LEMMA FailedStep ==
    ASSUME IInv, FailureStands, Next
    PROVE  StaysFailed
<1> SUFFICES ASSUME mode = "simd", core.phase = "failed"
             PROVE  /\ mode' = mode /\ core' = core
                    /\ ret' # ret => \/ ret'.err \in {core.err, BufferTooSmall}
                                     \/ ret'.op = "empty"
    BY DEF StaysFailed
<1>1. pc \in {"idle", "loop"} /\ (pc = "loop" => pos < end)
    BY FailedAt DEF FailureStands
<1>2. core.err # NoError /\ pos \in Nat /\ end \in Nat
    BY DEF FailureStands, IInv, TypeOK
<1>3. ASSUME NEW n \in Chunks, Decode(n)
      PROVE  mode' = mode /\ core' = core /\ ret' = ret
    BY <1>3 DEF Decode
<1>4. CASE DecodeNothing \/ DecodeTooSmall \/ FinishTooSmall
    BY <1>4 DEF DecodeNothing, DecodeTooSmall, FinishTooSmall, Answer
<1>5. CASE Finish
    <2>1. FinishError = core.err
        BY DEF FinishError
    <2>q. QED BY <1>2, <1>5, <2>1 DEF Finish, Answer
<1>6. CASE Begin
    BY <1>1, <1>6 DEF Begin
<1>7. CASE ReturnOk
    BY <1>1, <1>2, <1>7 DEF ReturnOk
<1>8. CASE ReturnFailed
    BY <1>8 DEF ReturnFailed, Return, Answer
<1>9. CASE Header \/ HeaderCr \/ Body
    BY <1>9 DEF Header, HeaderCr, Body
<1>10. CASE FastReturn \/ FastBatch \/ FastReject \/ SlowOk \/ SlowError
    BY <1>1, <1>10 DEF FastReturn, FastBatch, FastReject, SlowOk, SlowError
<1>q. QED BY <1>3, <1>4, <1>5, <1>6, <1>7, <1>8, <1>9, <1>10
         DEF Next, Call, Step

\* Once the core has failed, every later call that gives it bytes or finishes
\* answers its error, and the decoder is never revived.
THEOREM ErrorFinal == Spec => ErrorIsFinal
<1>1. Init => FailureStands
    BY DEF Init, FailureStands
<1>2. IInv /\ FailureStands /\ [Next]_vars => FailureStands'
    <2>1. ASSUME FailureStands, UNCHANGED vars PROVE FailureStands'
        BY <2>1 DEF vars, FailureStands
    <2>q. QED BY <2>1, FailureStep
<1>3. IInv /\ FailureStands /\ [Next]_vars => [StaysFailed]_vars
    BY FailedStep
<1>q. QED BY <1>1, <1>2, <1>3, Invariance, PTL DEF Spec, ErrorIsFinal
=============================================================================
