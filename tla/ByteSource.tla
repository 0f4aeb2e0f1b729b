----------------------------- MODULE ByteSource -----------------------------
(* What a reader of decoded bytes promises its caller: the bytes in order,   *)
(* none lost and none twice, whatever the lengths asked for; the end only    *)
(* when there is nothing left; the error of an invalid stream only after     *)
(* everything that was decoded before it, and then for ever; and nothing     *)
(* lost by an error of the inner reader, after which the caller goes on.     *)
EXTENDS Integers, Sequences

VARIABLES
    ready,      \* every byte decoded so far
    got,        \* those the caller has
    over,       \* "open", "end" or "invalid"
    ret         \* the last answer

vars == <<ready, got, over, ret>>

Init == ready = << >> /\ got = << >> /\ over = "open" /\ ret = "none"

\* More is decoded when the caller has all there is.  An invalid stream adds
\* nothing.
Refill ==
    /\ over = "open" /\ got = ready
    /\ Len(ready') >= Len(ready) /\ SubSeq(ready', 1, Len(ready)) = ready
    /\ over' \in {"open", "end", "invalid"}
    /\ over' = "invalid" => ready' = ready
    /\ UNCHANGED <<got, ret>>

Deliver ==
    /\ \E k \in Len(got) + 1 .. Len(ready) : got' = SubSeq(ready, 1, k)
    /\ ret' = "data"
    /\ UNCHANGED <<ready, over>>

AnswerEnd ==
    /\ got = ready
    /\ \/ over = "end" /\ ret' = "eof"
       \/ over = "invalid" /\ ret' = "invalid"
    /\ UNCHANGED <<ready, got, over>>

\* A buffer of no bytes, or an error of the inner reader.
AnswerNothing ==
    /\ \/ ret' = "empty"
       \/ over = "open" /\ got = ready /\ ret' = "io"
    /\ UNCHANGED <<ready, got, over>>

\* Another reader.
New == ready' = << >> /\ got' = << >> /\ over' = "open" /\ ret' = "none"

Next == Refill \/ Deliver \/ AnswerEnd \/ AnswerNothing \/ New

Spec == Init /\ [][Next]_vars
=============================================================================
