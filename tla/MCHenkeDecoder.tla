--------------------------- MODULE MCHenkeDecoder ---------------------------
(* Calls for model-checking HenkeDecoder, with any text, not only an         *)
(* encoder's.                                                                *)
EXTENDS HenkeDecoder, SequencesExt

\* Characters whose pairs are on both sides of the limit of 14 bits, above
\* 8191 too, and junk.
UpToThree == BoundedSeq({0, 88, 90, Junk}, 3)
=============================================================================
