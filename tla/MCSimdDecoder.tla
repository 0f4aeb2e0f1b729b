---------------------------- MODULE MCSimdDecoder ----------------------------
(* Streams for model-checking SimdDecoder with a block of 2 or 4 characters. *)
EXTENDS SimdDecoder

\* Characters in an order in which a misplaced block or pair shows.
PayloadChar(k) ==
    <<"dash", "hash", "hash", "tilde", "tilde", "dash">>[(k % 6) + 1]

\* A stream as the encoder writes it, with terminator t and lines of width
\* characters (0: unwrapped).
Canonical(n, width, t) ==
    LET text[k \in 0 .. n] ==
            IF k = 0 THEN << >>
            ELSE Append(text[k - 1], PayloadChar(k - 1))
                 \o (IF width > 0 /\ (k = n \/ k % width = 0) THEN t ELSE << >>)
    IN  <<"dash">> \o t \o text[n]

\* The test kit's mutations: one byte replaced, added or removed.
Replace(s, i, b) == [s EXCEPT ![i] = b]
Insert(s, i, b) == SubSeq(s, 1, i) \o <<b>> \o SubSeq(s, i + 1, Len(s))
Remove(s, i) == SubSeq(s, 1, i - 1) \o SubSeq(s, i + 1, Len(s))
Mutations(s) ==
    {s} \cup {Replace(s, i, b) : i \in 1 .. Len(s), b \in Byte}
        \cup {Insert(s, i, b) : i \in 0 .. Len(s), b \in Byte}
        \cup {Remove(s, i) : i \in 1 .. Len(s)}

\* Streams for a decoder that finish reset: wrapped, unwrapped, Henke.
ShortStreams ==
    {<<"dash", "lf", "hash">>, <<"dash", "tilde", "dash">>, <<"sp", "hash">>}

\* For blocks of 2 characters: enough lines for a batch of several, after
\* the line that the width is learned from and the one split by its break.
LineStreams ==
    ShortStreams \cup Mutations(Canonical(9, 2, LF))
                 \cup Mutations(Canonical(7, 4, CRLF))

\* For blocks of 4 characters: tails of every length, no wrapping and
\* wrapping, whitespace before the stream and after it.
BlockStreams ==
    ShortStreams
    \cup Mutations(<<"sp">> \o Canonical(9, 0, Unwrapped) \o <<"lf">>)
    \cup Mutations(Canonical(9, 4, LF))

\* A character outside the alphabet, and a payload of invalid length that
\* one more character makes valid.
RejectedStreams == {<<"dash", "bad", "hash">>, <<"dash", "hash", "hash">>}

\* First lines of 1 to 5 blocks of 2 characters, and much after them, with
\* either break; blanks behind some of them.
LongLines ==
    {Canonical(20, width, LF) : width \in {2, 4, 6, 8, 10}}
    \cup {Canonical(16, width, CRLF) \o <<"lf", "sp">> : width \in {4, 6, 8}}

\* Every stream of a '-' and n bytes; a CR alone is a blank as well.
EveryStream(n) == {<<"dash">> \o s : s \in [1 .. n -> Byte \ {"sp"}]}

\* For blocks of 2 characters: every short one, and the lines.
AllStreams == LineStreams \cup EveryStream(4)
=============================================================================
