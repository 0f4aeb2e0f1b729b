---------------------------- MODULE HenkeDecoder ----------------------------
(* The streaming decoder of Henke's format (codec.rs, Decoder).  A call is  *)
(* given a chunk of symbols, and runs by its two paths: pairs of characters *)
(* while none is pending, single symbols otherwise.                          *)
(*                                                                           *)
(* queue is below 2^nbits (DecQueueBounded), so the code's `queue | v <<     *)
(* nbits` is a sum, and no u32 overflows.  A call whose buffer is too small  *)
(* changes nothing, and is not an action.                                    *)
EXTENDS HenkeReference

CONSTANTS
    Texts,      \* what one call may be given
    MaxSymbols  \* bound: symbols given in a session

ASSUME DecoderAssumption == Texts \subseteq Seq(Symbol) /\ MaxSymbols \in Nat

VARIABLES
    given,      \* all the symbols given in this session, this call's included
    dchunk,     \* the symbols of the call in progress
    di,         \* how many of them it has read
    dheld,      \* <<nbits, val>> when it began
    dn,         \* bytes it has written
    dqueue, dnbits,
    val,        \* the first character of a pair, or NoChar
    out,        \* the bytes written in this session
    dpc         \* "idle", "decode" or "ended" (finish returned)

decVars == <<given, dchunk, di, dheld, dn, dqueue, dnbits, val, out, dpc>>

Pending(v) == IF v = NoChar THEN 0 ELSE 1

\* Definitions named ...Bug are not part of the model: each is the definition
\* after it with a plausible mistake, which a property must notice.

\* Upper bound on what a call of size symbols writes, for decode_slice, and
\* the closer one that the C interface makes a slice of.
DecodeLenBug(v, size) == DecodeSizeHint(size)

DecodeLen(v, size) == DecodeSizeHint(size + Pending(v))
DecodeLenExact(bits, v, size) == (bits + 14 * ((size + Pending(v)) \div 2)) \div 8

DecInit ==
    /\ given = << >> /\ out = << >> /\ dchunk = << >>
    /\ di = 0 /\ dheld = <<0, NoChar>> /\ dn = 0
    /\ dqueue = 0 /\ dnbits = 0 /\ val = NoChar
    /\ dpc = "idle"

----------------------------------------------------------------------------
\* decode_slice and decode, with a chunk.
Decode(c) ==
    /\ dpc = "idle" /\ Len(given) + Len(c) <= MaxSymbols
    /\ given' = given \o c
    /\ dchunk' = c /\ di' = 0 /\ dheld' = <<dnbits, val>> /\ dn' = 0
    /\ dpc' = "decode"
    /\ UNCHANGED <<dqueue, dnbits, val, out>>

\* push_pair that drains one byte per pair.
PushPairBug(v) ==
    LET q == dqueue + v * 2^dnbits
        b == dnbits + GroupBits(v)
    IN  /\ dqueue' = q \div 2^8 /\ dnbits' = b - 8
        /\ out' = Append(out, q % 2^8) /\ dn' = dn + 1

\* push_pair: the group joins the queue, and one or two whole bytes leave it.
PushPair(v) ==
    LET q     == dqueue + v * 2^dnbits
        b     == dnbits + GroupBits(v)
        whole == IF b >= 16 THEN 2 ELSE 1
    IN  /\ dqueue' = q \div 2^(8 * whole) /\ dnbits' = b - 8 * whole
        /\ out' = out \o SubSeq(<<q % 2^8, (q \div 2^8) % 2^8>>, 1, whole)
        /\ dn' = dn + whole

\* The fast path takes the next two symbols.
PairAhead ==
    /\ val = NoChar /\ di + 2 <= Len(dchunk)
    /\ dchunk[di + 1] # Junk /\ dchunk[di + 2] # Junk

FastPair ==
    /\ dpc = "decode" /\ PairAhead
    /\ PushPair(ValueOf(dchunk[di + 1], dchunk[di + 2]))
    /\ di' = di + 2
    /\ UNCHANGED <<given, dchunk, dheld, val, dpc>>

\* The slow path takes one symbol, and then tries the fast path again.
SlowSymbol ==
    /\ dpc = "decode" /\ di < Len(dchunk) /\ ~ PairAhead
    /\ di' = di + 1
    /\ UNCHANGED <<given, dchunk, dheld, dpc>>

SlowJunk ==
    /\ SlowSymbol /\ dchunk[di + 1] = Junk
    /\ UNCHANGED <<dn, dqueue, dnbits, val, out>>

SlowFirst ==
    /\ SlowSymbol /\ dchunk[di + 1] # Junk /\ val = NoChar
    /\ val' = dchunk[di + 1]
    /\ UNCHANGED <<dn, dqueue, dnbits, out>>

\* The pair is completed, and its first character kept.
SlowSecondBug ==
    /\ SlowSymbol /\ dchunk[di + 1] # Junk /\ val # NoChar
    /\ PushPair(ValueOf(val, dchunk[di + 1]))
    /\ UNCHANGED val

SlowSecond ==
    /\ SlowSymbol /\ dchunk[di + 1] # Junk /\ val # NoChar
    /\ PushPair(ValueOf(val, dchunk[di + 1]))
    /\ val' = NoChar

DecReturn ==
    /\ dpc = "decode" /\ di = Len(dchunk)
    /\ dchunk' = << >> /\ di' = 0 /\ dheld' = <<0, NoChar>> /\ dn' = 0
    /\ dpc' = "idle"
    /\ UNCHANGED <<given, dqueue, dnbits, val, out>>

\* finish and finish_slice: a byte for a pending character, and the decoder
\* is reset.
DecFinish ==
    /\ dpc = "idle"
    /\ out' = IF val = NoChar THEN out
              ELSE Append(out, (dqueue + val * 2^dnbits) % 2^8)
    /\ dqueue' = 0 /\ dnbits' = 0 /\ val' = NoChar
    /\ dpc' = "ended"
    /\ UNCHANGED <<given, dchunk, di, dheld, dn>>

\* Another session, with the decoder that finish left.
DecBegin ==
    /\ dpc = "ended"
    /\ given' = << >> /\ out' = << >>
    /\ dpc' = "idle"
    /\ UNCHANGED <<dchunk, di, dheld, dn, dqueue, dnbits, val>>

DecRun == FastPair \/ SlowJunk \/ SlowFirst \/ SlowSecond \/ DecReturn

DecNext == (\E c \in Texts : Decode(c)) \/ DecRun \/ DecFinish \/ DecBegin

DecSpec == DecInit /\ [][DecNext]_decVars

----------------------------------------------------------------------------
\* Properties.

\* Every variable keeps its type: what is written are bytes.
DecTypeOK ==
    /\ given \in Seq(Symbol) /\ Len(given) <= MaxSymbols
    /\ dchunk \in Seq(Symbol) /\ di \in 0 .. Len(dchunk)
    /\ dheld \in Nat \X (Char \cup {NoChar}) /\ dn \in Nat
    /\ dqueue \in Nat /\ dnbits \in Nat
    /\ val \in Char \cup {NoChar}
    /\ out \in Seq(Byte)
    /\ dpc \in {"idle", "decode", "ended"}

\* Between two pairs the queue is at most 7 bits, for any text, so that a
\* pair leaves room for the drain of two bytes and the C interface may keep
\* it in its struct.
DecQueueBounded == dnbits <= 7 /\ dqueue < 2^dnbits

DecConsumed == Len(given) - (Len(dchunk) - di)

\* A call writes no more than decode_len, which counts a pending character,
\* nor than the decode_len_exact that the C interface makes a slice of.
DecodeFits == dn <= DecodeLen(dheld[2], Len(dchunk))
              /\ dn <= DecodeLenExact(dheld[1], dheld[2], Len(dchunk))

\* A whole session, its last byte included, fits in the decode_size_hint of
\* all its symbols: decode_unchecked and the one-shot functions give the
\* cores that much.
BytesFit == Len(out) <= DecodeSizeHint(DecConsumed)

\* The Vec of a caller who reserved that much never grows, as the comment of
\* decode_size_hint says, although each call reserves for its chunk and a
\* pending character first, and finish a byte.
DecNeverReallocates ==
    /\ dpc = "decode" /\ di = 0 =>
          Len(out) + DecodeLen(dheld[2], Len(dchunk)) <= DecodeSizeHint(Len(given))
    /\ dpc = "idle" => Len(out) + 1 <= DecodeSizeHint(Len(given))
    /\ BytesFit

\* Between calls, the decoder is where the Go port's is after the same
\* symbols one at a time, and finish ends the bytes in the same way.
DecodesAsReference ==
    LET s == DecodeAll(given)
    IN  /\ dpc = "idle" => s = [queue |-> dqueue, nbits |-> dnbits, val |-> val,
                                out |-> out]
        /\ dpc = "ended" => out = DecEnd(s)

\* A pair of characters made at most 14 bits.
DecAccounted ==
    /\ dpc \in {"idle", "decode"} =>
          /\ 8 * Len(out) + dnbits + 7 * Pending(val) <= 7 * DecConsumed
    /\ dpc = "decode" =>
          /\ di = 0 => dheld[2] = val
          /\ Pending(val) <= di + Pending(dheld[2])
          /\ 8 * dn + dnbits
                <= dheld[1] + 14 * ((di + Pending(dheld[2]) - Pending(val)) \div 2)
    /\ dheld[1] <= 7
    /\ Len(dchunk) <= Len(given)
    /\ dpc # "decode" => dchunk = << >> /\ dn = 0
    /\ dpc = "ended" => dqueue = 0 /\ dnbits = 0 /\ val = NoChar

\* The inductive invariant.
DecIInv == DecTypeOK /\ DecQueueBounded /\ DecAccounted /\ BytesFit
=============================================================================
