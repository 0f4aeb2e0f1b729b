----------------------------- MODULE MCHenkePipe -----------------------------
(* Calls for model-checking HenkePipe.                                       *)
EXTENDS HenkePipe, SequencesExt

UpToTwo == BoundedSeq({0, 88, 255}, 2)
=============================================================================
