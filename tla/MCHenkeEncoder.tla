--------------------------- MODULE MCHenkeEncoder ---------------------------
(* Calls for model-checking HenkeEncoder.                                   *)
EXTENDS HenkeEncoder, SequencesExt

\* Bytes around the limit of a 14-bit group: 88 with five zero bits after it
\* is a group of 88, 89 the first that takes 13 bits only, and 32 is the
\* 14th bit of a group.
Edges == {0, 32, 88, 89, 255}

UpToTwo == BoundedSeq(Edges, 2)
=============================================================================
