------------------------------ MODULE HenkePipe ------------------------------
(* An encoder and a decoder of Henke's format joined by the text: the        *)
(* decoder is given what the encoder has written, in pieces of its own, with *)
(* junk between the characters (line breaks, in practice).  Both are used    *)
(* for one session after another.                                            *)
EXTENDS HenkeEncoder, HenkeDecoder

CONSTANTS
    Pieces,     \* how many characters the decoder may be given at a time;
                \* it may always be given all there are
    MaxJunk     \* bound: junk symbols of a session

\* The characters among symbols.
Keep(s, c) == IF c = Junk THEN s ELSE Append(s, c)

Characters(s) ==
    LET kept[k \in 0 .. Len(s)] ==
            IF k = 0 THEN << >> ELSE Keep(kept[k - 1], s[k])
    IN  kept[Len(s)]

\* How many of them the decoder has been given.
Taken == Len(Characters(given))
JunkGiven == Len(given) - Taken

\* The next characters of the text, with at most one junk symbol.
Piece(k) == SubSeq(text, Taken + 1, Taken + k)
WithJunk(s, j) == SubSeq(s, 1, j) \o <<Junk>> \o SubSeq(s, j + 1, Len(s))

Deliver ==
    LET rest == Len(text) - Taken
    IN  \E k \in {k \in 0 .. rest : k \in Pieces \/ k = rest} :
            \/ k > 0 /\ Decode(Piece(k))
            \/ /\ JunkGiven < MaxJunk
               /\ \E j \in 0 .. k : Decode(WithJunk(Piece(k), j))

Init == EncInit /\ DecInit

\* The decoder is finished once it has all of a finished text.
Next ==
    \/ EncWork /\ UNCHANGED decVars
    \/ (Deliver \/ DecRun) /\ UNCHANGED encVars
    \/ pc = "ended" /\ Taken = Len(text) /\ DecFinish /\ UNCHANGED encVars
    \/ dpc = "ended" /\ EncBegin /\ DecBegin

Spec == Init /\ [][Next]_<<encVars, decVars>>

\* The round trip: whatever the bytes, the cuts on both sides and the junk,
\* what the decoder has written are the first bytes given to the encoder, and
\* all of them after finish.
Bytes == INSTANCE BytePipe WITH sent <- bytes, got <- out, done <- dpc = "ended"
ImplementsBytePipe == Bytes!Spec
=============================================================================
