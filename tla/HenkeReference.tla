--------------------------- MODULE HenkeReference ---------------------------
(* Henke's format as the other implementations of the repository read and   *)
(* write it, on complete sequences and one element at a time: the encoder of *)
(* the C library (src/base91.c) and the decoder of the Go port               *)
(* (go/base91.go), which has no path for pairs.                              *)
EXTENDS HenkeFormat

EncStart == [queue |-> 0, nbits |-> 0, text |-> << >>]

\* One turn of the loop of basE91_encode, which may write a group: of the k
\* bits in q the low w leave.
EncGroup(q, k, t, w) ==
    [queue |-> q \div 2^w, nbits |-> k - w, text |-> t \o PairOf(q % 2^w)]

EncByte(s, b) ==
    LET queue == s.queue + b * 2^s.nbits
        nbits == s.nbits + 8
    IN  IF nbits <= 13
        THEN [queue |-> queue, nbits |-> nbits, text |-> s.text]
        ELSE EncGroup(queue, nbits, s.text, IF queue % 2^13 > 88 THEN 13 ELSE 14)

\* basE91_encode_end.
EncEnd(s) ==
    CASE s.nbits = 0 -> s.text
      [] s.nbits > 7 \/ s.queue > 90 -> s.text \o PairOf(s.queue)
      [] OTHER -> Append(s.text, s.queue)

EncodeAll(bytes) ==
    LET run[k \in 0 .. Len(bytes)] ==
            IF k = 0 THEN EncStart ELSE EncByte(run[k - 1], bytes[k])
    IN  run[Len(bytes)]

DecStart == [queue |-> 0, nbits |-> 0, val |-> NoChar, out |-> << >>]

\* One turn of the loop of Decoder.Write, which may complete a value: of the k
\* bits in q that are then there, one or two bytes leave.
DecBytes(q, k, t) ==
    LET one == Append(t, q % 2^8)
    IN  IF k - 8 < 8
        THEN [queue |-> q \div 2^8, nbits |-> k - 8, val |-> NoChar, out |-> one]
        ELSE [queue |-> q \div 2^16, nbits |-> k - 16, val |-> NoChar,
              out |-> Append(one, (q \div 2^8) % 2^8)]

DecSymbol(s, c) ==
    LET v == ValueOf(s.val, c)
    IN  CASE c = Junk -> s
          [] c # Junk /\ s.val = NoChar -> [s EXCEPT !.val = c]
          [] OTHER -> DecBytes(s.queue + v * 2^s.nbits,
                               s.nbits + (IF v % 2^13 > 88 THEN 13 ELSE 14), s.out)

\* Decoder.Finish.
DecEnd(s) ==
    IF s.val = NoChar THEN s.out
    ELSE Append(s.out, (s.queue + s.val * 2^s.nbits) % 2^8)

DecodeAll(text) ==
    LET run[k \in 0 .. Len(text)] ==
            IF k = 0 THEN DecStart ELSE DecSymbol(run[k - 1], text[k])
    IN  run[Len(text)]
=============================================================================
