------------------------------ MODULE BytePipe ------------------------------
(* What an encoder and a decoder joined by a text promise: bytes come out    *)
(* as they went in, none lost, none added, none out of order, and all of     *)
(* them once the stream is finished.                                         *)
EXTENDS Sequences, Naturals

VARIABLES sent, got, done

Init == sent = << >> /\ got = << >> /\ done = FALSE

\* Any bytes, at the end of those sent.
Send ==
    /\ ~ done
    /\ Len(sent') >= Len(sent) /\ SubSeq(sent', 1, Len(sent)) = sent
    /\ UNCHANGED <<got, done>>

Receive ==
    /\ ~ done
    /\ \E k \in Len(got) .. Len(sent) : got' = SubSeq(sent, 1, k)
    /\ UNCHANGED <<sent, done>>

Finish ==
    /\ ~ done
    /\ got' = sent /\ done' = TRUE
    /\ UNCHANGED sent

Begin ==
    /\ done
    /\ sent' = << >> /\ got' = << >> /\ done' = FALSE

Next == Send \/ Receive \/ Finish \/ Begin

Spec == Init /\ [][Next]_<<sent, got, done>>
=============================================================================
