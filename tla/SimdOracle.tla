----------------------------- MODULE SimdOracle -----------------------------
(* The reference decoder of the test kit (base91-testkit, oracle.rs), which *)
(* reads a complete stream one byte at a time.  It shares nothing with the  *)
(* driver's decoder core but the vocabulary of SimdFormat: no batches, no   *)
(* chunks, no carried block.                                                *)
EXTENDS SimdFormat

----------------------------------------------------------------------------
\* Offsets are those of the code: s[i + 1] is the byte at offset i.

NonBlank(s) == {i \in 0 .. Len(s) - 1 : s[i + 1] \notin Whitespace}

FirstNonBlank(s) == CHOOSE i \in NonBlank(s) : \A j \in NonBlank(s) : i <= j

Classify(s) == IF NonBlank(s) = {} THEN "Empty"
               ELSE IF s[FirstNonBlank(s) + 1] = "dash" THEN "Simd"
               ELSE "Legacy"

\* The terminator after the '-': the stream is wrapped if there is one.
HeaderTerm(s) ==
    LET rest == SubSeq(s, FirstNonBlank(s) + 2, Len(s))
    IN  IF StartsWith(rest, LF) THEN LF
        ELSE IF StartsWith(rest, CRLF) THEN CRLF ELSE Unwrapped

----------------------------------------------------------------------------
NoRun == -1

\* width 0 is the width not known yet (a known width is positive).
ScanStart == [payload |-> << >>, lowAt |-> 0, line |-> 0, width |-> 0,
              linesDone |-> 0, run |-> NoRun, err |-> NoError]

\* Rule 1: the pending run, from its start to offset i, is a line break, or
\* its first byte that is not part of one is an error.
IsBreak(s, t, st, i) ==
    /\ st.run # NoRun /\ t # Unwrapped /\ st.line > 0
    /\ SubSeq(s, st.run + 1, i) = t

RunFault(s, t, st, i) ==
    LET text  == SubSeq(s, st.run + 1, Len(s))
        first == IF t # Unwrapped /\ st.line > 0 /\ StartsWith(text, t)
                 THEN Len(t) ELSE 0
    IN  IF st.run = NoRun \/ IsBreak(s, t, st, i) THEN NoError
        ELSE RunError(SubSeq(text, first + 1, Len(text)), st.run + first)

\* Rules 2 and 3: the width the first line sets, the lines that must have
\* it, and a character past the end of a line.
WidthAfter(st, brk) == IF brk /\ st.width = 0 THEN st.line ELSE st.width
LineAfter(st, brk) == IF brk THEN 0 ELSE st.line
LayoutFault(t, st, brk, i) ==
    LET w == WidthAfter(st, brk)
    IN  IF t # Unwrapped
           /\ \/ brk /\ st.linesDone = 0 /\ w % WidthUnit # 0
              \/ brk /\ st.line # w
              \/ w # 0 /\ LineAfter(st, brk) = w
        THEN Error("InvalidLayout", i) ELSE NoError

\* Rules 4 and 5: the alphabet, then the value of a pair just completed.
ContentFault(c, st, i) ==
    IF c \notin Alphabet THEN Error("InvalidCharacter", i)
    ELSE IF Len(st.payload) % 2 = 1
            /\ PairTooBig(st.payload[Len(st.payload)], c)
    THEN Error("InvalidValue", st.lowAt) ELSE NoError

FirstFault(s, t, st, i) ==
    LET brk == IsBreak(s, t, st, i)
    IN  CASE RunFault(s, t, st, i) # NoError -> RunFault(s, t, st, i)
          [] LayoutFault(t, st, brk, i) # NoError -> LayoutFault(t, st, brk, i)
          [] OTHER -> ContentFault(s[i + 1], st, i)

\* The byte at offset i, when no error came before it.
ScanByte(s, t, st, i) ==
    LET brk == IsBreak(s, t, st, i)
        err == FirstFault(s, t, st, i)
    IN  IF s[i + 1] \in Whitespace
        THEN [st EXCEPT !.run = IF @ = NoRun THEN i ELSE @]
        ELSE IF err # NoError THEN [st EXCEPT !.err = err]
        ELSE [payload   |-> Append(st.payload, s[i + 1]),
              lowAt     |-> IF Len(st.payload) % 2 = 0 THEN i ELSE st.lowAt,
              line      |-> IF t = Unwrapped THEN 0 ELSE LineAfter(st, brk) + 1,
              width     |-> WidthAfter(st, brk),
              linesDone |-> st.linesDone + IF brk THEN 1 ELSE 0,
              run       |-> NoRun,
              err       |-> NoError]

Scan(s) ==
    LET t     == HeaderTerm(s)
        start == FirstNonBlank(s) + 1 + Len(t)
        scan[n \in start .. Len(s)] ==
            IF n = start THEN ScanStart
            ELSE LET st == scan[n - 1]
                 IN  IF st.err # NoError THEN st ELSE ScanByte(s, t, st, n - 1)
    IN  scan[Len(s)]

----------------------------------------------------------------------------
\* What the reference says of a stream: its class, the first error of rules
\* 1 to 5 if any, and the payload read until there.
Verdict(s) ==
    IF Classify(s) = "Simd"
    THEN LET st == Scan(s)
         IN  [class |-> "Simd", err |-> st.err, payload |-> st.payload]
    ELSE [class |-> Classify(s), err |-> NoError, payload |-> << >>]

\* Rule 6, once the stream is complete.
LengthValid(payload) == Len(payload) % BlockChars \notin InvalidTails
=============================================================================
