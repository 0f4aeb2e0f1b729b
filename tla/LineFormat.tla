----------------------------- MODULE LineFormat -----------------------------
(* Wrapped output, as both command-line tools write it: a line feed after   *)
(* each full line at once, and one after the last line, when it is short,   *)
(* at the end.  width 0 is no wrapping.                                     *)
EXTENDS Integers, Sequences

\* What has been written when text has been, and more may come.
Flow(text, width, lf) ==
    IF width = 0 THEN text
    ELSE [k \in 1..Len(text) + (Len(text) \div width) |->
            IF k % (width + 1) = 0 THEN lf ELSE text[k - (k \div (width + 1))]]

\* What has been written when text is all.
Lines(text, width, lf) ==
    Flow(text, width, lf) \o
        (IF width # 0 /\ Len(text) % width # 0 THEN <<lf>> ELSE << >>)
=============================================================================
