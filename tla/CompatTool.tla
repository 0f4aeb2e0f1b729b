----------------------------- MODULE CompatTool -----------------------------
(* Henke's command-line tool (cli.c) on top of the library's C functions:   *)
(* its one buffer is both input and output.  When it encodes, the input is  *)
(* the buffer's end and the output its beginning; when it decodes, the      *)
(* input is one byte behind the output.  It may wrap its output, which it   *)
(* does in the buffer: it puts a NUL behind each full line, prints, and     *)
(* puts back the character.                                                 *)
(*                                                                           *)
(* The sizes are those the tool's own messages admit; below 2 its unsigned  *)
(* subtraction wraps around, which is not modelled.                         *)
EXTENDS CompatCalls, LineFormat

CONSTANTS
    BufSizes,   \* the -m option: the buffer's size
    Widths,     \* the -w option: characters per line, 0 for no wrapping
    MaxBytes    \* bound: bytes of standard input

ASSUME ToolAssumption ==
    /\ CHUNK \in Nat \ {0}
    /\ BufSizes \subseteq Nat \ {0, 1}
    /\ Widths \subseteq Nat
    /\ MaxBytes \in Nat

VARIABLES
    mode,       \* "encode" or "decode"
    bufSize, llen,
    fed,        \* bytes of standard input read so far
    col,        \* l: what the line in progress has room for
    i,          \* where in obuf what is not printed begins
    printed,    \* what standard output has got
    pc          \* "read", "call", "wrap", "end", "flush" or "done"

toolVars == <<mode, bufSize, llen, fed, col, i, printed, pc>>
vars == <<callVars, toolVars>>

Lf == <<"lf", 0>>

\* The size of the input, and where in the buffer it is (main).
EncodeSizeBug(size) == (size * 16) \div 29

EncodeSize(size) == ((size - 2) * 16) \div 29
DecodeSize(size) == ((size - 1) * 8) \div 15

IbufSize == IF mode = "encode" THEN EncodeSize(bufSize) ELSE DecodeSize(bufSize)

Ibuf == IF mode = "encode" THEN bufSize - IbufSize ELSE 1

Wrapping == mode = "encode" /\ llen > 0

\* What fwrite of memory from address from to before address to writes.
Slice(from, to) == [k \in 1..to - from |-> mem[from + k - 1]]

\* What puts of address from prints, when a NUL has been put at address at:
\* up to the first NUL, and a line feed.
Puts(m, from, at) ==
    LET end == CHOOSE a \in from..at :
                 m[a] = Nul /\ \A b \in from..a - 1 : m[b] # Nul
    IN  [k \in 1..end - from |-> m[from + k - 1]] \o <<Lf>>

Init ==
    /\ mode \in {"encode", "decode"}
    /\ bufSize \in BufSizes /\ llen \in Widths
    /\ IbufSize >= 1
    /\ mem = [a \in 0..bufSize - 1 |-> Free]
    /\ nbits = 0 /\ pending = 0
    /\ in = 0 /\ len = 0 /\ out = 0 /\ read = 0 /\ written = 0
    /\ eaten = << >> /\ made = 0
    /\ fed = 0 /\ col = llen /\ i = 0 /\ printed = << >>
    /\ pc = "read"

----------------------------------------------------------------------------
\* fread gives s bytes, as few as it likes, and they are the call's input.
Fread(s) ==
    /\ pc = "read" /\ fed + s <= MaxBytes
    /\ mem' = [a \in DOMAIN mem |->
                 IF a \in Ibuf..Ibuf + s - 1 THEN In(fed + (a - Ibuf) + 1)
                 ELSE mem[a]]
    /\ fed' = fed + s
    /\ Call(Ibuf, s, 0)
    /\ pc' = "call"
    /\ UNCHANGED <<mode, bufSize, llen, col, i, printed>>

\* fread gives nothing: the input is at its end.
FreadEnd ==
    /\ pc = "read"
    /\ pc' = "end"
    /\ UNCHANGED <<callVars, mode, bufSize, llen, fed, col, i, printed>>

Chunk ==
    /\ pc = "call"
    /\ IF mode = "encode" THEN EncodeChunk ELSE DecodeChunk
    /\ UNCHANGED toolVars

\* The call returns.  Without wrapping, its output is written as it is.
Return ==
    /\ pc = "call" /\ read = len
    /\ IF Wrapping
       THEN pc' = "wrap" /\ i' = 0 /\ UNCHANGED printed
       ELSE pc' = "read" /\ printed' = printed \o Slice(0, written) /\ UNCHANGED i
    /\ UNCHANGED <<callVars, mode, bufSize, llen, fed, col>>

\* A line is full: the character behind it is a NUL while it is printed.
PutLine ==
    /\ pc = "wrap" /\ col <= written
    /\ printed' = printed \o Puts([mem EXCEPT ![col] = Nul], i, col)
    /\ i' = col
    /\ col' = col + llen
    /\ UNCHANGED <<callVars, mode, bufSize, llen, fed, pc>>

\* The rest is the beginning of a line: the next call's output goes on with
\* it, and col counts on from there.
PutRestBug ==
    /\ pc = "wrap" /\ col > written
    /\ printed' = printed \o Slice(i, written)
    /\ col' = llen
    /\ pc' = "read"
    /\ UNCHANGED <<callVars, mode, bufSize, llen, fed, i>>

PutRest ==
    /\ pc = "wrap" /\ col > written
    /\ printed' = printed \o Slice(i, written)
    /\ col' = col - written
    /\ pc' = "read"
    /\ UNCHANGED <<callVars, mode, bufSize, llen, fed, i>>

EndCall ==
    /\ pc = "end"
    /\ IF mode = "encode" THEN EncodeEnd(0) ELSE DecodeEnd(0)
    /\ pc' = "flush"
    /\ UNCHANGED <<mode, bufSize, llen, fed, col, i, printed>>

\* The last characters are written as they are.
FlushPlain ==
    /\ pc = "flush" /\ ~Wrapping
    /\ printed' = printed \o Slice(0, written)
    /\ UNCHANGED mem

\* The last characters end the line in progress; when it has room for one of
\* two only, the second is a line of its own.
FlushLines ==
    /\ pc = "flush" /\ Wrapping
    /\ IF written = 0 /\ col = llen
       THEN UNCHANGED <<mem, printed>>
       ELSE LET ended == [mem EXCEPT ![written] = Nul]
                split == [ended EXCEPT ![1] = Nul]
                again == [split EXCEPT ![0] = ended[1]]
            IN  IF written > col
                THEN /\ printed' = printed \o Puts(split, 0, 1) \o Puts(again, 0, 1)
                     /\ mem' = again
                ELSE /\ printed' = printed \o Puts(ended, 0, written)
                     /\ mem' = ended

Flush ==
    /\ FlushPlain \/ FlushLines
    /\ pc' = "done"
    /\ UNCHANGED <<nbits, pending, in, len, out, read, written, eaten, made>>
    /\ UNCHANGED <<mode, bufSize, llen, fed, col, i>>

Done == pc = "done" /\ UNCHANGED vars

Next ==
    \/ \E s \in 1..IbufSize : Fread(s)
    \/ FreadEnd
    \/ Chunk
    \/ Return
    \/ PutLine
    \/ PutRest
    \/ EndCall
    \/ Flush
    \/ Done

Spec == Init /\ [][Next]_vars

----------------------------------------------------------------------------
TypeOK ==
    /\ mode \in {"encode", "decode"}
    /\ bufSize \in BufSizes /\ llen \in Widths
    /\ mem \in [0..bufSize - 1 -> Cells]
    /\ nbits \in 0..(IF mode = "encode" THEN 13 ELSE 7)
    /\ pending \in 0..(IF mode = "encode" THEN 0 ELSE 1)
    /\ in \in Nat /\ len \in 0..IbufSize /\ out \in Nat
    /\ read \in 0..len /\ written \in Nat
    /\ made \in Nat /\ fed \in 0..MaxBytes
    /\ eaten \in Seq(Cells)
    /\ col \in Nat /\ i \in Nat
    /\ pc \in {"read", "call", "wrap", "end", "flush", "done"}

\* What the next chunk may write, at most.
Bound ==
    IF mode = "encode" THEN EncodeLen(nbits, ChunkLen)
    ELSE DecodeLen(nbits, pending, ChunkLen)

\* The codec is given the bytes of standard input, all of them, in order: no
\* output has been written over a byte before it was read (lib.rs, CHUNK).
InputInOrder ==
    /\ Len(eaten) = fed - (len - read)
    /\ \A j \in 1..Len(eaten) : eaten[j] = In(j)

\* The slice that a chunk's output goes to ends before the first byte that
\* the chunk has not read, and within the buffer (lib.rs, out_slice).
SliceClear ==
    pc = "call" /\ read < len =>
        /\ out + written + Bound <= in + read + ChunkLen
        /\ in + len <= bufSize

\* No chunk writes more than the slice formed for it (__capi.rs: the bound of
\* what it may write, a character pending from the last call included).
WithinSlice == [][read' > read => written' <= written + Bound]_vars

\* Every cell that the tool itself sets or that the last call may write is
\* in the buffer (cli.c: obuf[l] = '\0', obuf[s] = '\0').
InsideBuffer ==
    /\ pc = "wrap" /\ col <= written => col < bufSize
    /\ pc = "end" => (IF mode = "encode" THEN 2 ELSE 1) <= bufSize
    /\ pc = "flush" /\ Wrapping => written < bufSize

Outputs(k) == [j \in 1..k |-> Out(j)]

\* What is printed is the output, in order, none of it overwritten or left
\* out, in lines of llen characters (cli.c, stream_b91enc_w).
PrintsLines ==
    /\ pc = "read" =>
         printed = Flow(Outputs(made), IF Wrapping THEN llen ELSE 0, Lf)
    /\ pc = "done" =>
         printed = Lines(Outputs(made), IF Wrapping THEN llen ELSE 0, Lf)
=============================================================================
