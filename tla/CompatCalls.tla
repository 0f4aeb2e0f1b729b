---------------------------- MODULE CompatCalls -----------------------------
(* Henke's C functions as the library offers them (base91-capi, lib.rs):    *)
(* basE91_encode and basE91_decode take input and output pointers that may  *)
(* overlap, and so read the input a chunk at a time into a buffer of their  *)
(* own before the chunk's output is written.                                *)
(*                                                                           *)
(* Memory is a function from addresses to cells; a cell says which input    *)
(* byte or which output byte it holds, by its place in its stream.  The     *)
(* codec is what its calls are bounded by: how many bits it holds, how many *)
(* it takes or gives for a chunk; which bits they are is HenkeEncoder's and *)
(* HenkeDecoder's business.                                                 *)
EXTENDS Integers, Sequences

CONSTANT CHUNK          \* bytes read before their output is written

VARIABLES
    mem,                \* the caller's memory
    nbits,              \* the caller's struct basE91: nbits,
    pending,            \*   and whether val is a character (1) or -1 (0)
    in, len, out,       \* the call's arguments: input, its length, output
    read, written,      \* input bytes read and output bytes written by it
    eaten,              \* the cells the codec was given, all calls together
    made                \* output bytes it has written, all calls together

callVars == <<mem, nbits, pending, in, len, out, read, written, eaten, made>>

In(j)  == <<"in", j>>
Out(k) == <<"out", k>>
Free   == <<"free", 0>>
Nul    == <<"nul", 0>>
Cells  == {"in", "out", "free", "nul"} \X Nat

Least(x, y) == IF x <= y THEN x ELSE y

\* The chunk that comes next, and the memory it is read from.
ChunkLen == Least(len - read, CHUNK)
ChunkCells == [x \in 1..ChunkLen |-> mem[in + read + x - 1]]

----------------------------------------------------------------------------
\* Upper bounds on what a chunk of size bytes writes: the lengths of the
\* output slices the functions form.
EncodeLen(bits, size) == 2 * ((bits + 8 * size) \div 13)

\* The bound without the pending character.
DecodeLenBug(bits, p, size) == (bits + 14 * (size \div 2)) \div 8

DecodeLen(bits, p, size) == (bits + 14 * ((size + p) \div 2)) \div 8

\* The lengths encode_finish_len may have; a queue of at most 7 bits is one
\* character or two, as its value is.
EncodeEnds(bits) ==
    IF bits = 0 THEN {0} ELSE IF bits > 7 THEN {2} ELSE {1, 2}

\* Memory with w more output bytes from address to on.
Stored(to, w) ==
    [a \in DOMAIN mem |->
        IF a \in to..to + w - 1 THEN Out(made + (a - to) + 1) ELSE mem[a]]

----------------------------------------------------------------------------
\* A call begins, with its arguments; mem is the caller's.
Call(i, size, o) ==
    /\ in' = i /\ len' = size /\ out' = o
    /\ read' = 0 /\ written' = 0
    /\ UNCHANGED <<nbits, pending, eaten, made>>

\* The output is written before the chunk is read.
ChunkReadBug(w) ==
    /\ read' = read + ChunkLen
    /\ written' = written + w
    /\ eaten' = eaten \o
         [x \in 1..ChunkLen |-> Stored(out + written, w)[in + read + x - 1]]
    /\ mem' = Stored(out + written, w)
    /\ made' = made + w
    /\ UNCHANGED <<in, len, out>>

\* A chunk is copied, and then w bytes of output are written.
ChunkRead(w) ==
    /\ read' = read + ChunkLen
    /\ written' = written + w
    /\ eaten' = eaten \o ChunkCells
    /\ mem' = Stored(out + written, w)
    /\ made' = made + w
    /\ UNCHANGED <<in, len, out>>

\* A chunk is encoded: g groups of 13 or 14 bits, t bits in all, each taken
\* when more than 13 are held, so that a group of 13 leaves at least one.
EncodeChunk ==
    /\ read < len
    /\ \E g \in 0..(nbits + 8 * ChunkLen) \div 13 : \E t \in 13 * g..14 * g :
         /\ nbits' = nbits + 8 * ChunkLen - t
         /\ nbits' \in 0..13
         /\ g > 0 /\ nbits' = 0 => t > 13 * g
         /\ ChunkRead(2 * g)
    /\ UNCHANGED pending

\* A chunk is decoded: c of its bytes are characters, each pair of which
\* gives 13 or 14 bits, and the others are skipped.
DecodeChunk ==
    /\ read < len
    /\ \E c \in 0..ChunkLen :
         LET pairs == (pending + c) \div 2
         IN  \E t \in 13 * pairs..14 * pairs :
               /\ nbits' = (nbits + t) % 8
               /\ pending' = (pending + c) % 2
               /\ ChunkRead((nbits + t) \div 8)

\* basE91_encode_end and basE91_decode_end, writing w bytes at o; both
\* functions reset the struct.
End(o, w) ==
    /\ mem' = Stored(o, w)
    /\ made' = made + w
    /\ nbits' = 0 /\ pending' = 0
    /\ out' = o /\ written' = w /\ len' = 0 /\ read' = 0
    /\ UNCHANGED <<in, eaten>>

EncodeEnd(o) == \E w \in EncodeEnds(nbits) : End(o, w)
DecodeEnd(o) == End(o, pending)
=============================================================================
