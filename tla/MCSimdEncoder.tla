---------------------------- MODULE MCSimdEncoder ----------------------------
(* Streams for model-checking SimdEncoder.                                   *)
EXTENDS SimdEncoder

\* Bytes without a pattern that a wrong group or a wrong block would keep,
\* in ten blocks and a tail: five lines of 32 characters, two of 64
\* or one of 96, which is more than a batch of 4 blocks.
Varied == [k \in 1 .. 138 |-> (k * k * 7 + k * 131 + 55) % 256]

VariedStream == {Varied}
=============================================================================
