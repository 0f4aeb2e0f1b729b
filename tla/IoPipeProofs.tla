---------------------------- MODULE IoPipeProofs ----------------------------
(* The std::io adapters lose nothing, for every codec that only ever adds to *)
(* what it has delivered, every size of the buffers and the pipe, and every  *)
(* way in which the other side takes, gives, interrupts and fails.           *)
EXTENDS IoPipe, Arithmetic, SequenceTheorems, TLAPS

\* What the codec promises the adapters: a longer input extends the output,
\* and finish extends it again.  (HenkeDecoder and StrictDecoder show it of
\* the decoders, HenkeEncoder of the encoder.)
DecoderAdds ==
    \A f :
      /\ Decoded(f, << >>) = << >>
      /\ \A s \in Seq(Nat) :
        /\ Decoded(f, s) \in Seq(Nat) /\ Whole(f, s) \in Seq(Nat)
        /\ Rejects(f, s) \in BOOLEAN /\ RejectsEnd(f, s) \in BOOLEAN
        /\ ~ RejectsEnd(f, s) => Starts(Decoded(f, s), Whole(f, s))
        /\ \A n \in 0 .. Len(s) :
               ~ Rejects(f, s) => Starts(Decoded(f, SubSeq(s, 1, n)), Decoded(f, s))

EncoderAdds ==
    /\ Text(<< >>) = << >>
    /\ \A b \in Seq(Byte) :
        /\ Text(b) \in Seq(Nat) /\ Closed(b) \in Seq(Nat)
        /\ Starts(Text(b), Closed(b))
        /\ \A c \in Seq(Byte) : Starts(Text(b), Text(b \o c))

\* What the two halves of Henke's codec promise together: the decoder rejects
\* nothing, gives the bytes of a finished text back, and the first of them for
\* the text of an encoder that was not finished.  (HenkeProofs shows it of the
\* reference that both halves agree with: ReferenceRoundTrip and
\* UnfinishedRoundTrip.)
CodecsAgree ==
    /\ \A t \in Seq(Nat) : ~ Rejects("henke", t) /\ ~ RejectsEnd("henke", t)
    /\ \A b \in Seq(Byte) :
        /\ Whole("henke", Closed(b)) = b
        /\ Starts(Whole("henke", Text(b)), b)

----------------------------------------------------------------------------
\* The reader.

\* What the reader keeps besides its properties: all that it read is decoded
\* until it knows of an error, the end is noted only for a valid stream, and
\* the answer "end" leaves nothing behind.
ReaderSound ==
    /\ R!ReaderTypeOK
    /\ NothingLost
    /\ ~ failed => accepted = taken
    /\ done /\ ~ failed => ~ RejectsEnd(format, R!Given(taken))
    /\ ret = "eof" => done /\ ~ failed /\ decodedPos = Len(decoded)
    /\ use = "disk" => taken = 0
    /\ sink \in Seq(Nat)

SourceStep == Source!Next \/ UNCHANGED Source!vars

Elsewhere == UNCHANGED <<use, format, writer>>

LEMMA RestParts ==
    ASSUME ReaderSound
    PROVE  /\ R!Rest \in Seq(Nat) /\ got \o R!Rest \in Seq(Nat)
           /\ Len(R!Rest) = Len(decoded) - decodedPos
           /\ decodedPos = Len(decoded) => R!Rest = << >> /\ got \o R!Rest = got
<1>1. decoded \in Seq(Nat) /\ got \in Seq(Nat) /\ decodedPos \in 0 .. Len(decoded)
  BY DEF ReaderSound, R!ReaderTypeOK
<1>2. /\ SubSeq(decoded, decodedPos + 1, Len(decoded)) \in Seq(Nat)
      /\ Len(SubSeq(decoded, decodedPos + 1, Len(decoded)))
            = Len(decoded) - decodedPos
  BY <1>1, SeqHalves, Zenon
<1>3. got \o SubSeq(decoded, decodedPos + 1, Len(decoded)) \in Seq(Nat)
  BY <1>1, <1>2, ConcatProperties, Zenon
<1>4. ASSUME decodedPos = Len(decoded)
      PROVE  SubSeq(decoded, decodedPos + 1, Len(decoded)) = << >>
  <2>1. Len(decoded) \in Nat
    BY <1>1, LenProperties
  <2> QED
    BY <1>4, <2>1, SubSeqEmpty
<1>5. got \o << >> = got
  BY <1>1, ConcatEmptySeq
<1> QED
  BY <1>2, <1>3, <1>4, <1>5 DEF R!Rest

\* read: a buffer of no bytes is answered at once.
LEMMA ReadKeeps ==
    ASSUME ReaderSound, NEW n \in Nat, R!Read(n), Elsewhere
    PROVE  ReaderSound' /\ SourceStep
<1>1. UNCHANGED <<taken, accepted, decoded, decodedPos, done, failed, got, trouble,
                  format, sink, use>>
      /\ want' = n /\ pc' \in {"idle", "read"}
      /\ (ret' = "empty" \/ ret' = ret)
  BY DEF R!Read, Elsewhere, writer, ReaderSound, R!ReaderTypeOK
<1>2. ReaderSound'
  BY <1>1 DEF ReaderSound, R!ReaderTypeOK, NothingLost, R!NothingLost, R!Rest,
     R!Deliverable, R!Given
<1>3. SourceStep
  BY <1>1 DEF SourceStep, Source!Next, Source!vars, Source!AnswerNothing, R!Rest
<1> QED
  BY <1>2, <1>3

\* A short buffer takes the first of what is left.
LEMMA ReturnDataKeeps ==
    ASSUME ReaderSound, R!ReturnData, Elsewhere
    PROVE  ReaderSound' /\ SourceStep
<1> DEFINE k == R!LesserOf(Len(decoded) - decodedPos, want)
           part == SubSeq(decoded, decodedPos + 1, decodedPos + k)
<1>1. /\ k > 0 /\ pc' = "idle" /\ ret' = "data"
      /\ got' = got \o part /\ decodedPos' = decodedPos + k
      /\ UNCHANGED <<taken, accepted, decoded, done, failed, want, trouble,
                     format, sink, use>>
  BY DEF R!ReturnData, R!Return, Elsewhere, writer
<1>2. /\ decoded \in Seq(Nat) /\ got \in Seq(Nat) /\ want \in Nat
      /\ decodedPos \in 0 .. Len(decoded) /\ Len(decoded) \in Nat
  BY LenProperties DEF ReaderSound, R!ReaderTypeOK
<1>3. k \in Nat /\ decodedPos + k <= Len(decoded)
  BY <1>1, <1>2 DEF R!LesserOf
<1> HIDE DEF k
<1>4. /\ part \in Seq(Nat) /\ Len(part) = k
      /\ SubSeq(decoded, decodedPos + k + 1, Len(decoded)) \in Seq(Nat)
      /\ part \o SubSeq(decoded, decodedPos + k + 1, Len(decoded)) = R!Rest
  <2>1. decodedPos \in Nat
    BY <1>2
  <2> QED
    BY <1>2, <1>3, <2>1, SeqMiddle DEF R!Rest
<1> HIDE DEF part
<1>5. R!Rest' = SubSeq(decoded, decodedPos + k + 1, Len(decoded))
  BY <1>1 DEF R!Rest
<1>6. R!Rest' \in Seq(Nat)
  BY <1>4, <1>5
<1>7. got' \o R!Rest' = got \o R!Rest
  <2>1. (got \o part) \o R!Rest' = got \o (part \o R!Rest')
    BY <1>2, <1>4, <1>6, SeqJoined
  <2> QED
    BY <1>1, <1>4, <1>5, <2>1, Zenon
<1>8. got' \in Seq(Nat) /\ Len(got') = Len(got) + k
  BY <1>1, <1>2, <1>4, ConcatProperties, Zenon
<1>9. ReaderSound'
  <2>1. R!ReaderTypeOK'
    BY <1>1, <1>2, <1>3, <1>8 DEF ReaderSound, R!ReaderTypeOK
  <2>2. NothingLost'
    BY <1>1, <1>7 DEF ReaderSound, NothingLost, R!NothingLost, R!Deliverable,
       R!Given
  <2> QED
    BY <1>1, <2>1, <2>2 DEF ReaderSound, R!Given
<1>10. SourceStep
  <2>1. got' = SubSeq(got \o R!Rest, 1, Len(got'))
    <3>1. Len(got') \in 0 .. Len(got')
      BY <1>8, LenProperties
    <3>2. SubSeq(got' \o R!Rest', 1, Len(got')) = SubSeq(got', 1, Len(got'))
      BY <1>6, <1>8, <3>1, SeqFront, Zenon
    <3> QED
      BY <1>7, <1>8, <3>2, SubSeqFull, Zenon
  <2>2. Len(got') \in Len(got) + 1 .. Len(got \o R!Rest)
    <3>1. Len(got' \o R!Rest') = Len(got') + Len(R!Rest')
      BY <1>6, <1>8, ConcatProperties, Zenon
    <3>2. Len(got) \in Nat /\ Len(R!Rest') \in Nat
      BY <1>2, <1>6, LenProperties
    <3>3. Len(got \o R!Rest) = Len(got') + Len(R!Rest')
      BY <1>7, <3>1, Zenon
    <3> QED
      BY <1>1, <1>3, <1>8, <3>2, <3>3
  <2>3. UNCHANGED <<done, failed>>
    BY <1>1
  <2>4. \E j \in Len(got) + 1 .. Len(got \o R!Rest) :
            got' = SubSeq(got \o R!Rest, 1, j)
    BY <2>1, <2>2, Zenon
  <2>5. Source!Deliver
    BY <1>1, <1>7, <2>3, <2>4 DEF Source!Deliver
  <2> QED
    BY <2>5 DEF SourceStep, Source!Next
<1> QED
  BY <1>9, <1>10

\* The error of the stream, and its end.
LEMMA ReturnOverKeeps ==
    ASSUME ReaderSound, R!ReturnInvalid \/ R!ReturnEof, Elsewhere
    PROVE  ReaderSound' /\ SourceStep
<1>1. /\ decodedPos = Len(decoded) /\ pc' = "idle"
      /\ \/ failed /\ ret' = "invalid"
         \/ ~ failed /\ done /\ ret' = "eof"
      /\ UNCHANGED <<taken, accepted, decoded, decodedPos, done, failed, want,
                     got, trouble, format, sink, use>>
  BY DEF R!ReturnInvalid, R!ReturnEof, R!Return, R!Empty, Elsewhere, writer
<1>2. ReaderSound'
  BY <1>1 DEF ReaderSound, R!ReaderTypeOK, NothingLost, R!NothingLost, R!Rest,
     R!Deliverable, R!Given
<1>3. got \o R!Rest = got
  BY <1>1, RestParts
<1>4. Source!AnswerEnd
  BY <1>1, <1>3 DEF Source!AnswerEnd, R!Rest
<1> QED
  BY <1>2, <1>4 DEF SourceStep, Source!Next

\* An error of the inner reader, or an interruption.
LEMMA InnerFailsKeeps ==
    ASSUME ReaderSound, R!InnerFails, Elsewhere
    PROVE  ReaderSound' /\ SourceStep
<1>1. /\ decodedPos = Len(decoded) /\ ~ failed /\ ~ done
      /\ decoded' = << >> /\ decodedPos' = 0
      /\ trouble < MaxTrouble /\ trouble' = trouble + 1
      /\ \/ pc' = pc /\ ret' = ret
         \/ pc' = "idle" /\ ret' = "io"
      /\ UNCHANGED <<taken, accepted, done, failed, want, got, format, sink, use>>
  BY DEF R!InnerFails, R!InnerRead, R!InTrouble, R!Empty, Elsewhere, writer
<1>2. got \o R!Rest = got /\ R!Rest = << >>
  BY <1>1, RestParts
<1>3. R!Rest' = << >> /\ decodedPos' = Len(decoded')
  BY <1>1, SubSeqEmpty, EmptySeq DEF R!Rest
<1>4. ReaderSound'
  <2>1. R!ReaderTypeOK'
    BY <1>1, <1>3, EmptySeq, PipeAssumption DEF ReaderSound, R!ReaderTypeOK
  <2>2. NothingLost'
    BY <1>1, <1>2, <1>3 DEF ReaderSound, NothingLost, R!NothingLost,
       R!Deliverable, R!Given
  <2> QED
    BY <1>1, <1>3, <2>1, <2>2 DEF ReaderSound, R!Given
<1>5. SourceStep
  BY <1>1, <1>2, <1>3 DEF SourceStep, Source!Next, Source!vars,
     Source!AnswerNothing
<1> QED
  BY <1>4, <1>5

LEMMA Shorter ==
    ASSUME NEW s \in Seq(Nat), NEW n \in 0 .. Len(s), NEW m \in 0 .. n
    PROVE  SubSeq(SubSeq(s, 1, n), 1, m) = SubSeq(s, 1, m)
<1> DEFINE t == SubSeq(s, 1, n)
           u == SubSeq(s, n + 1, Len(s))
<1>1. t \in Seq(Nat) /\ Len(t) = n /\ u \in Seq(Nat) /\ t \o u = s
  BY SeqHalves
<1> HIDE DEF t, u
<1>2. SubSeq(t \o u, 1, m) = SubSeq(t, 1, m)
  BY <1>1, SeqFront
<1> QED
  BY <1>1, <1>2 DEF t

\* The buffer is empty and is filled with some more: what the caller may have
\* grows by that.
LEMMA Filled ==
    ASSUME ReaderSound, decodedPos = Len(decoded),
           decoded' \in Seq(Nat), decodedPos' = 0, got' = got
    PROVE  /\ R!Rest' = decoded' /\ 0 \in 0 .. Len(decoded')
           /\ got' \o R!Rest' = got \o decoded'
           /\ got \o R!Rest = got
           /\ Len(got \o decoded') >= Len(got)
           /\ SubSeq(got \o decoded', 1, Len(got)) = got
<1>1. got \in Seq(Nat)
  BY DEF ReaderSound, R!ReaderTypeOK
<1>2. R!Rest' = decoded'
  BY SubSeqFull DEF R!Rest
<1>3. Len(got) \in Nat /\ Len(decoded') \in Nat /\ Len(got) \in 0 .. Len(got)
  BY <1>1, LenProperties
<1>4. Len(got \o decoded') = Len(got) + Len(decoded')
  BY <1>1, ConcatProperties
<1>5. SubSeq(got \o decoded', 1, Len(got)) = SubSeq(got, 1, Len(got))
  BY <1>1, <1>3, SeqFront
<1>6. SubSeq(got, 1, Len(got)) = got
  BY <1>1, SubSeqFull
<1>7. got \o R!Rest = got
  BY RestParts
<1>8. Len(got \o decoded') >= Len(got) /\ 0 \in 0 .. Len(decoded')
  BY <1>3, <1>4
<1> QED
  BY <1>2, <1>5, <1>6, <1>7, <1>8

\* A chunk is decoded, or found to be in error.
LEMMA InnerGivesKeeps ==
    ASSUME DecoderAdds, ReaderSound, NEW n \in R!Pieces, R!InnerGives(n),
           Elsewhere, use # "disk"
    PROVE  ReaderSound' /\ SourceStep
<1> DEFINE m == taken + n
           old == Decoded(format, R!Given(taken))
           new == Decoded(format, R!Given(m))
<1>1. /\ decodedPos = Len(decoded) /\ ~ failed /\ ~ done
      /\ decodedPos' = 0 /\ taken' = m
      /\ failed' = Rejects(format, R!Given(m))
      /\ failed' => decoded' = << >> /\ accepted' = accepted
      /\ ~ failed' => decoded' = R!Added(old, new) /\ accepted' = m
      /\ UNCHANGED <<done, want, pc, got, ret, trouble, format, sink, use>>
  BY DEF R!InnerGives, R!InnerRead, R!Empty, Elsewhere, writer
<1>2. /\ taken \in 0 .. m /\ m \in 0 .. Len(sink) /\ taken \in 0 .. Len(sink)
      /\ accepted = taken /\ sink \in Seq(Nat)
  BY <1>1, LenProperties, PipeAssumption
     DEF ReaderSound, R!ReaderTypeOK, R!Pieces, R!LesserOf
<1> HIDE DEF m
<1>3. R!Given(m) \in Seq(Nat) /\ R!Given(taken) \in Seq(Nat)
      /\ Len(R!Given(m)) = m
  BY <1>2, SeqHalves DEF R!Given
<1>4. SubSeq(R!Given(m), 1, taken) = R!Given(taken)
  BY <1>2, Shorter DEF R!Given
<1>5. /\ failed' \in BOOLEAN /\ old \in Seq(Nat) /\ new \in Seq(Nat)
      /\ ~ failed' => Starts(old, new)
  <2>1. ~ Rejects(format, R!Given(m)) =>
            Starts(Decoded(format, SubSeq(R!Given(m), 1, taken)), new)
    BY <1>2, <1>3 DEF DecoderAdds
  <2>2. Rejects(format, R!Given(m)) \in BOOLEAN
    BY <1>2, <1>3 DEF DecoderAdds
  <2>3. old \in Seq(Nat) /\ new \in Seq(Nat)
    BY <1>3, Zenon DEF DecoderAdds
  <2>4. Starts(Decoded(format, SubSeq(R!Given(m), 1, taken)), new)
            <=> Starts(old, new)
    BY <1>4, Zenon
  <2> QED
    BY <1>1, <2>1, <2>2, <2>3, <2>4, Zenon
<1>6. got = old
  <2>1. got \o R!Rest = got
    BY <1>1, RestParts
  <2>2. got \o R!Rest = R!Deliverable
    BY DEF ReaderSound, NothingLost, R!NothingLost
  <2> QED
    BY <1>1, <1>2, <2>1, <2>2 DEF R!Deliverable
<1> HIDE DEF old, new
<1>7. /\ decoded' \in Seq(Nat)
      /\ got \o decoded' = IF failed' THEN old ELSE new
  <2>1. CASE failed'
    BY <1>1, <1>5, <1>6, <2>1, ConcatEmptySeq, EmptySeq
  <2>2. CASE ~ failed'
    BY <1>1, <1>5, <1>6, <2>2, SeqAddition DEF R!Added
  <2> QED
    BY <2>1, <2>2
<1>8. /\ R!Rest' = decoded' /\ 0 \in 0 .. Len(decoded')
      /\ got' \o R!Rest' = got \o decoded' /\ got \o R!Rest = got
      /\ Len(got \o decoded') >= Len(got)
      /\ SubSeq(got \o decoded', 1, Len(got)) = got
  BY <1>1, <1>7, Filled
<1>9. R!ReaderTypeOK'
  <2>1. accepted' \in 0 .. taken'
    BY <1>1, <1>2, <1>5
  <2> QED
    BY <1>1, <1>2, <1>5, <1>7, <1>8, <2>1 DEF ReaderSound, R!ReaderTypeOK
<1>10. NothingLost'
  <2>1. R!Deliverable' = IF failed' THEN old ELSE new
    BY <1>1, <1>2, <1>5 DEF R!Deliverable, R!Given, old, new
  <2> QED
    BY <1>7, <1>8, <2>1 DEF NothingLost, R!NothingLost
<1>11. ReaderSound'
  BY <1>1, <1>9, <1>10 DEF ReaderSound
<1>12. SourceStep
  <2>1. failed' => got' \o R!Rest' = got \o R!Rest
    BY <1>6, <1>7, <1>8
  <2> QED
    BY <1>1, <1>5, <1>8, <2>1 DEF SourceStep, Source!Next, Source!Refill
<1> QED
  BY <1>11, <1>12

\* The decoder is finished: what it flushes is the last of the stream.
LEMMA InnerEndsKeeps ==
    ASSUME DecoderAdds, ReaderSound, R!InnerEnds, Elsewhere, use # "disk"
    PROVE  ReaderSound' /\ SourceStep
<1> DEFINE old == Decoded(format, R!Given(taken))
           new == Whole(format, R!Given(taken))
<1>1. /\ decodedPos = Len(decoded) /\ ~ failed /\ ~ done
      /\ decodedPos' = 0 /\ done' = TRUE
      /\ failed' = RejectsEnd(format, R!Given(taken))
      /\ failed' => decoded' = << >>
      /\ ~ failed' => decoded' = R!Added(old, new)
      /\ UNCHANGED <<taken, accepted, want, pc, got, ret, trouble, format, sink,
                     use>>
  BY DEF R!InnerEnds, R!InnerRead, R!Empty, Elsewhere, writer
<1>2. taken \in 0 .. Len(sink) /\ accepted = taken /\ sink \in Seq(Nat)
  BY <1>1 DEF ReaderSound, R!ReaderTypeOK
<1>3. R!Given(taken) \in Seq(Nat)
  BY <1>2, SeqHalves DEF R!Given
<1>4. /\ RejectsEnd(format, R!Given(taken)) \in BOOLEAN
      /\ old \in Seq(Nat) /\ new \in Seq(Nat)
      /\ ~ RejectsEnd(format, R!Given(taken)) => Starts(old, new)
  BY <1>3, Zenon DEF DecoderAdds
<1>5. failed' \in BOOLEAN /\ (~ failed' => Starts(old, new))
  BY <1>1, <1>4
<1>6. got = old
  <2>1. got \o R!Rest = got
    BY <1>1, RestParts
  <2>2. got \o R!Rest = R!Deliverable
    BY DEF ReaderSound, NothingLost, R!NothingLost
  <2> QED
    BY <1>1, <1>2, <2>1, <2>2 DEF R!Deliverable
<1>7. R!Deliverable' = IF failed' THEN old ELSE new
  BY <1>1, <1>2, <1>5 DEF R!Deliverable, R!Given
<1> HIDE DEF old, new
<1>8. /\ decoded' \in Seq(Nat)
      /\ got \o decoded' = IF failed' THEN old ELSE new
  <2>1. CASE failed'
    BY <1>1, <1>4, <1>6, <2>1, ConcatEmptySeq, EmptySeq
  <2>2. CASE ~ failed'
    BY <1>1, <1>4, <1>5, <1>6, <2>2, SeqAddition DEF R!Added
  <2> QED
    BY <2>1, <2>2
<1>9. /\ R!Rest' = decoded' /\ 0 \in 0 .. Len(decoded')
      /\ got' \o R!Rest' = got \o decoded' /\ got \o R!Rest = got
      /\ Len(got \o decoded') >= Len(got)
      /\ SubSeq(got \o decoded', 1, Len(got)) = got
  BY <1>1, <1>8, Filled
<1>10. ReaderSound'
  <2>1. R!ReaderTypeOK'
    BY <1>1, <1>5, <1>8, <1>9 DEF ReaderSound, R!ReaderTypeOK
  <2>2. NothingLost'
    BY <1>7, <1>8, <1>9 DEF NothingLost, R!NothingLost
  <2>3. done' /\ ~ failed' => ~ RejectsEnd(format', R!Given(taken)')
    BY <1>1 DEF R!Given
  <2>4. ret' # "eof"
    BY <1>1 DEF ReaderSound
  <2> QED
    BY <1>1, <1>2, <2>1, <2>2, <2>3, <2>4 DEF ReaderSound, R!Given
<1>11. SourceStep
  <2>1. failed' => got' \o R!Rest' = got \o R!Rest
    BY <1>6, <1>8, <1>9
  <2> QED
    BY <1>1, <1>5, <1>9, <2>1 DEF SourceStep, Source!Next, Source!Refill
<1> QED
  BY <1>10, <1>11

LEMMA IntoInnerKeeps ==
    ASSUME ReaderSound, R!IntoInner, Elsewhere
    PROVE  ReaderSound' /\ SourceStep
<1>1. /\ pc' = "dropped"
      /\ UNCHANGED <<taken, accepted, decoded, decodedPos, done, failed, want,
                     got, ret, trouble, format, sink, use>>
  BY DEF R!IntoInner, Elsewhere, writer
<1>2. ReaderSound'
  BY <1>1 DEF ReaderSound, R!ReaderTypeOK, NothingLost, R!NothingLost, R!Rest,
     R!Deliverable, R!Given
<1>3. SourceStep
  BY <1>1 DEF SourceStep, Source!vars, R!Rest
<1> QED
  BY <1>2, <1>3

\* A reader that has read nothing has nothing.
LEMMA FreshSound ==
    ASSUME DecoderAdds, R!Fresh, trouble \in 0 .. MaxTrouble, sink \in Seq(Nat)
    PROVE  ReaderSound /\ Source!Init
<1>1. R!Given(0) = << >> /\ R!Rest = << >> /\ << >> \o << >> = << >>
      /\ Len(<< >>) = 0 /\ << >> \in Seq(Nat) /\ Len(sink) \in Nat
  BY SubSeqEmpty, EmptySeq, ConcatEmptySeq, LenProperties
     DEF R!Fresh, R!Given, R!Rest
<1>2. Decoded(format, << >>) = << >>
  BY DEF DecoderAdds
<1>3. R!ReaderTypeOK
  <2>1. taken \in 0 .. Len(sink) /\ accepted \in 0 .. taken
    BY <1>1 DEF R!Fresh
  <2>2. /\ decoded \in Seq(Nat) /\ got \in Seq(Nat)
        /\ decodedPos \in 0 .. Len(decoded)
    BY EmptySeq DEF R!Fresh
  <2> QED
    BY <2>1, <2>2 DEF R!Fresh, R!ReaderTypeOK
<1>4. NothingLost
  BY <1>1, <1>2 DEF R!Fresh, NothingLost, R!NothingLost, R!Deliverable
<1> QED
  BY <1>1, <1>3, <1>4 DEF R!Fresh, ReaderSound, Source!Init

LEMMA NewKeeps ==
    ASSUME DecoderAdds, ReaderSound, R!New, format' = format,
           sink' \in Seq(Nat)
    PROVE  ReaderSound' /\ SourceStep
<1>1. R!Fresh' /\ trouble' = trouble
  BY DEF R!New, R!Fresh
<1>2. trouble' \in 0 .. MaxTrouble
  BY <1>1 DEF ReaderSound, R!ReaderTypeOK
<1>3. R!Given(0)' = << >> /\ R!Rest' = << >> /\ << >> \o << >> = << >>
      /\ Len(<< >>) = 0 /\ << >> \in Seq(Nat) /\ Len(sink') \in Nat
  BY <1>1, SubSeqEmpty, EmptySeq, ConcatEmptySeq, LenProperties
     DEF R!Fresh, R!Given, R!Rest
<1>4. Decoded(format', << >>) = << >>
  BY DEF DecoderAdds
<1>5. R!ReaderTypeOK'
  <2>1. taken' \in 0 .. Len(sink') /\ accepted' \in 0 .. taken'
    BY <1>1, <1>3 DEF R!Fresh
  <2>2. /\ decoded' \in Seq(Nat) /\ got' \in Seq(Nat)
        /\ decodedPos' \in 0 .. Len(decoded')
    BY <1>1, EmptySeq DEF R!Fresh
  <2> QED
    BY <1>1, <1>2, <2>1, <2>2 DEF R!Fresh, R!ReaderTypeOK
<1>6. NothingLost'
  BY <1>1, <1>3, <1>4 DEF R!Fresh, NothingLost, R!NothingLost, R!Deliverable
<1>7. ReaderSound'
  BY <1>1, <1>3, <1>5, <1>6 DEF R!Fresh, ReaderSound
<1>8. SourceStep
  BY <1>1, <1>3 DEF R!Fresh, SourceStep, Source!Next, Source!New
<1> QED
  BY <1>7, <1>8

\* The writer at the other end adds to what the reader may read.
LEMMA WriterLeaves ==
    ASSUME ReaderSound, UNCHANGED <<use, format, reader>>,
           sink' \in Seq(Nat), Starts(sink, sink') \/ use = "disk"
    PROVE  ReaderSound' /\ SourceStep
<1>1. UNCHANGED <<use, format, taken, accepted, decoded, decodedPos, done, failed,
                  want, pc, got, ret, trouble>>
  BY DEF reader
<1>2. /\ sink \in Seq(Nat) /\ taken \in 0 .. Len(sink) /\ accepted \in 0 .. taken
      /\ Len(sink) \in Nat /\ Len(sink') \in Nat
      /\ use = "disk" => taken = 0
  BY LenProperties DEF ReaderSound, R!ReaderTypeOK
<1>3. taken \in 0 .. Len(sink') /\ accepted \in 0 .. Len(sink)
      /\ R!Given(taken)' = R!Given(taken) /\ R!Given(accepted)' = R!Given(accepted)
  <2>1. CASE Starts(sink, sink')
    <3>1. PICK t \in Seq(Nat) : sink' = sink \o t
      BY <2>1 DEF Starts
    <3>2. Len(sink') >= Len(sink)
      <4>1. Len(sink \o t) = Len(sink) + Len(t) /\ Len(t) \in Nat
        BY <1>2, ConcatProperties, LenProperties
      <4> QED
        BY <1>2, <3>1, <4>1
    <3>3. accepted \in 0 .. Len(sink) /\ taken \in 0 .. Len(sink')
      BY <1>2, <3>2
    <3>4. /\ SubSeq(sink \o t, 1, taken) = SubSeq(sink, 1, taken)
          /\ SubSeq(sink \o t, 1, accepted) = SubSeq(sink, 1, accepted)
      BY <1>2, <3>3, SeqFront
    <3> QED
      BY <1>1, <3>1, <3>3, <3>4 DEF R!Given
  <2>2. CASE use = "disk"
    BY <1>1, <1>2, <2>2, SubSeqEmpty DEF R!Given
  <2> QED
    BY <2>1, <2>2
<1>4. R!ReaderTypeOK'
  BY <1>1, <1>3 DEF ReaderSound, R!ReaderTypeOK
<1>5. NothingLost'
  <2>1. R!Deliverable' = R!Deliverable
    BY <1>1, <1>3 DEF R!Deliverable
  <2> QED
    BY <1>1, <2>1 DEF ReaderSound, NothingLost, R!NothingLost, R!Rest
<1>6. ReaderSound'
  BY <1>1, <1>3, <1>4, <1>5 DEF ReaderSound
<1>7. SourceStep
  BY <1>1 DEF SourceStep, Source!vars, R!Rest
<1> QED
  BY <1>6, <1>7

----------------------------------------------------------------------------
\* The writer.

Placing == wpc \in {"place", "spill", "direct"}

\* Where text can be, by the step of the call that is in progress, and what
\* is known of a writer that has not reported a failure.
WriterSound ==
    /\ W!WriterTypeOK
    /\ ~ Placing => scratch = << >>
    /\ Placing => job \in {"write", "finish"}
    /\ wpc = "idle" => job \in {"write", "flush"}
    /\ wpc = "flush" => job \in {"flush", "finish"}
    /\ wpc = "direct" => buf = << >>
    /\ wpc \in {"drop", "ended"} => job \in {"drop", "finish"}
    /\ wpc = "drop" /\ job = "finish" => reported
    /\ wpc = "ended" /\ job = "finish" /\ ~ reported => buf = << >>
    /\ ~ reported /\ ~ (Placing /\ job = "write") => placed = given
    /\ TextInOrder

Grown == Starts(sink, sink')

LEMMA StartsItself ==
    ASSUME NEW s \in Seq(Nat)
    PROVE  Starts(s, s)
<1>1. s = s \o << >> /\ << >> \in Seq(Nat)
  BY ConcatEmptySeq, EmptySeq
<1> QED
  BY <1>1, Zenon DEF Starts

\* Three pieces of text of which the last is empty.
LEMMA NoScratch ==
    ASSUME NEW s \in Seq(Nat), NEW b \in Seq(Nat)
    PROVE  s \o b \o << >> = s \o b /\ s \o b \in Seq(Nat)
BY ConcatProperties, ConcatEmptySeq

\* The encoder writes the text of more bytes, or of the end.
LEMMA EncodeKeeps ==
    ASSUME EncoderAdds, WriterSound, use' = use,
           wpc = "idle", wpc' = "place", job' \in {"write", "finish"},
           given' \in Seq(Byte), Len(given') <= MaxBytes,
           NEW t \in Seq(Nat), Starts(Text(given), t),
           scratch' = W!From(Text(given), t), t = W!Written',
           job' = "finish" => given' = given,
           UNCHANGED <<placed, buf, sink, answer, reported, mishaps>>
    PROVE  WriterSound' /\ Grown
<1>1. /\ given \in Seq(Byte) /\ buf \in Seq(Nat) /\ sink \in Seq(Nat)
      /\ scratch = << >> /\ job \in {"write", "flush"}
  BY DEF WriterSound, W!WriterTypeOK, Placing, Byte
<1>2. Text(given) \in Seq(Nat)
  BY <1>1, Zenon DEF EncoderAdds
<1>3. scratch' \in Seq(Nat) /\ Text(given) \o scratch' = t
  BY <1>2, SeqAddition DEF W!From
<1>4. W!WriterTypeOK'
  BY <1>1, <1>3 DEF WriterSound, W!WriterTypeOK, Byte
<1>5. TextInOrder'
  <2> SUFFICES ASSUME use # "file", ~ reported
               PROVE  sink \o buf \o scratch' = t
    BY DEF TextInOrder, W!TextInOrder
  <2>1. sink \o buf \o << >> = Text(given)
    BY <1>1 DEF WriterSound, TextInOrder, W!TextInOrder, W!Written
  <2>2. sink \o buf = Text(given)
    BY <1>1, <2>1, NoScratch
  <2> QED
    BY <1>3, <2>2, Zenon
<1>6. ~ reported' /\ ~ (Placing /\ job = "write")' => placed' = given'
  BY DEF WriterSound, Placing
<1>7. Grown
  BY <1>1, StartsItself DEF Grown
<1> QED
  BY <1>4, <1>5, <1>6, <1>7 DEF WriterSound, Placing

LEMMA WriteKeeps ==
    ASSUME EncoderAdds, WriterSound, use' = use, NEW c \in Writes, W!Write(c)
    PROVE  WriterSound' /\ Grown
<1>1. given \in Seq(Byte) /\ c \in Seq(Byte)
  BY PipeAssumption DEF WriterSound, W!WriterTypeOK, Byte
<1>2. /\ wpc = "idle" /\ wpc' = "place" /\ job' = "write"
      /\ given' = given \o c /\ Len(given) + Len(c) <= MaxBytes
      /\ scratch' = W!From(Text(given), Text(given \o c))
      /\ UNCHANGED <<placed, buf, sink, answer, reported, mishaps>>
  BY DEF W!Write
<1>3. given' \in Seq(Byte) /\ Len(given') <= MaxBytes
  BY <1>1, <1>2, ConcatProperties
<1>4. Text(given') \in Seq(Nat) /\ Starts(Text(given), Text(given'))
  BY <1>1, <1>2, <1>3, Zenon DEF EncoderAdds
<1>5. Text(given') = W!Written'
  BY <1>2 DEF W!Written
<1> QED
  BY <1>2, <1>3, <1>4, <1>5, EncodeKeeps

LEMMA FinishKeeps ==
    ASSUME EncoderAdds, WriterSound, use' = use, W!Finish
    PROVE  WriterSound' /\ Grown
<1>1. given \in Seq(Byte) /\ Len(given) <= MaxBytes
  BY DEF WriterSound, W!WriterTypeOK, Byte
<1>2. /\ wpc = "idle" /\ wpc' = "place" /\ job' = "finish" /\ given' = given
      /\ scratch' = W!From(Text(given), Closed(given))
      /\ UNCHANGED <<placed, buf, sink, answer, reported, mishaps>>
  BY DEF W!Finish
<1>3. Closed(given) \in Seq(Nat) /\ Starts(Text(given), Closed(given))
  BY <1>1, Zenon DEF EncoderAdds
<1>4. Closed(given) = W!Written'
  BY <1>2 DEF W!Written
<1> QED
  BY <1>1, <1>2, <1>3, <1>4, EncodeKeeps

LEMMA FlushKeeps ==
    ASSUME WriterSound, use' = use, W!Flush \/ W!Drop
    PROVE  WriterSound' /\ Grown
<1>1. /\ wpc = "idle" /\ scratch = << >> /\ job \in {"write", "flush"}
      /\ \/ job' = "flush" /\ wpc' = "flush"
         \/ job' = "drop" /\ wpc' = "drop"
      /\ UNCHANGED <<given, placed, scratch, buf, sink, answer, reported, mishaps>>
  BY DEF W!Flush, W!Drop, WriterSound, Placing
<1>2. TextInOrder'
  BY <1>1 DEF WriterSound, TextInOrder, W!TextInOrder, W!Written
<1>3. Grown
  BY <1>1, StartsItself DEF Grown, WriterSound, W!WriterTypeOK
<1>4. W!WriterTypeOK'
  BY <1>1 DEF WriterSound, W!WriterTypeOK
<1> QED
  BY <1>1, <1>2, <1>3, <1>4 DEF WriterSound, Placing

\* The scratch is in the buffer, or all of it in the sink.
LEMMA PlacedKeeps ==
    ASSUME WriterSound, use' = use, W!PlaceBuffer \/ W!DirectDone
    PROVE  WriterSound' /\ Grown
<1>1. /\ wpc \in {"place", "direct"} /\ scratch' = << >>
      /\ \/ job = "write" /\ wpc' = "idle" /\ answer' = "ok" /\ placed' = given
         \/ job = "finish" /\ wpc' = "flush" /\ UNCHANGED <<answer, placed>>
      /\ buf' = buf \o scratch
      /\ UNCHANGED <<given, sink, job, reported, mishaps>>
  <2>1. CASE W!PlaceBuffer
    BY <2>1 DEF W!PlaceBuffer, W!Placed, WriterSound, Placing
  <2>2. CASE W!DirectDone
    <3>1. buf \o << >> = buf
      BY ConcatEmptySeq DEF WriterSound, W!WriterTypeOK
    <3> QED
      BY <2>2, <3>1 DEF W!DirectDone, W!Placed, WriterSound, Placing
  <2> QED
    BY <2>1, <2>2
<1>2. /\ buf \in Seq(Nat) /\ sink \in Seq(Nat) /\ scratch \in Seq(Nat)
      /\ buf \o scratch \in Seq(Nat)
      /\ Len(buf \o scratch) = Len(buf) + Len(scratch)
      /\ Len(buf) \in Nat /\ Len(scratch) \in Nat
  BY ConcatProperties, LenProperties DEF WriterSound, W!WriterTypeOK
<1>3. Len(buf') <= Capacity
  <2>1. CASE W!PlaceBuffer
    BY <1>1, <1>2, <2>1, PipeAssumption DEF W!PlaceBuffer, W!Spare
  <2>2. CASE W!DirectDone
    BY <1>1, <1>2, <2>2 DEF W!DirectDone, WriterSound, W!WriterTypeOK
  <2> QED
    BY <2>1, <2>2
<1>4. TextInOrder'
  <2> SUFFICES ASSUME use # "file", ~ reported
               PROVE  sink \o buf' \o << >> = W!Written'
    BY <1>1 DEF TextInOrder, W!TextInOrder
  <2>1. sink \o buf \o scratch = W!Written
    BY DEF WriterSound, TextInOrder, W!TextInOrder
  <2>2. sink \o (buf \o scratch) \o << >> = sink \o (buf \o scratch)
    BY <1>2, NoScratch
  <2>3. sink \o (buf \o scratch) = sink \o buf \o scratch
    BY <1>2, SeqJoined
  <2>4. W!Written' = W!Written
    BY <1>1 DEF W!Written
  <2> QED
    BY <1>1, <2>1, <2>2, <2>3, <2>4, Zenon
<1>5. W!WriterTypeOK'
  BY <1>1, <1>2, <1>3, EmptySeq DEF WriterSound, W!WriterTypeOK
<1>6. Grown
  BY <1>1, <1>2, StartsItself DEF Grown
<1> QED
  BY <1>1, <1>4, <1>5, <1>6 DEF WriterSound, Placing

\* Steps that move no text, within a call or at the end of one.
LEMMA QuietKeeps ==
    ASSUME WriterSound, use' = use,
           \/ W!PlaceSpill \/ W!PlaceDirect \/ W!Drained \/ W!SinkInterrupts
    PROVE  WriterSound' /\ Grown
<1>1. UNCHANGED <<given, placed, scratch, buf, sink, job, reported>>
  BY DEF W!PlaceSpill, W!PlaceDirect, W!Drained, W!SinkInterrupts
<1>2. TextInOrder'
  BY <1>1 DEF WriterSound, TextInOrder, W!TextInOrder, W!Written
<1>3. Grown
  BY <1>1, StartsItself DEF Grown, WriterSound, W!WriterTypeOK
<1>4. CASE W!PlaceSpill \/ W!PlaceDirect
  BY <1>1, <1>2, <1>3, <1>4
     DEF W!PlaceSpill, W!PlaceDirect, WriterSound, Placing, W!WriterTypeOK
<1>5. CASE W!Drained
  BY <1>1, <1>2, <1>3, <1>5 DEF W!Drained, WriterSound, Placing, W!WriterTypeOK
<1>6. CASE W!SinkInterrupts
  BY <1>1, <1>2, <1>3, <1>6, PipeAssumption
     DEF W!SinkInterrupts, W!InMishap, WriterSound, Placing, W!WriterTypeOK
<1> QED
  BY <1>4, <1>5, <1>6

\* The sink takes the first of what it is offered.
LEMMA SinkTakesKeeps ==
    ASSUME WriterSound, use' = use, NEW k \in 1 .. Len(W!Offered), W!SinkTakes(k)
    PROVE  WriterSound' /\ Grown
<1>1. /\ sink \in Seq(Nat) /\ buf \in Seq(Nat) /\ scratch \in Seq(Nat)
      /\ Len(buf) <= Capacity /\ Len(buf) \in Nat
  BY LenProperties DEF WriterSound, W!WriterTypeOK
<1>2. /\ wpc \in {"spill", "flush", "drop", "direct"}
      /\ W!Offered = IF wpc = "direct" THEN scratch ELSE buf
      /\ W!Offered \in Seq(Nat)
  <2>1. ASSUME wpc \notin {"spill", "flush", "drop", "direct"} PROVE FALSE
    <3>1. Len(W!Offered) = 0
      BY <2>1, EmptySeq DEF W!Offered
    <3> QED
      BY <3>1
  <2> QED
    BY <1>1, <2>1 DEF W!Offered
<1> DEFINE part == SubSeq(W!Offered, 1, k)
           rest == SubSeq(W!Offered, k + 1, Len(W!Offered))
<1>3. /\ part \in Seq(Nat) /\ rest \in Seq(Nat)
      /\ Len(rest) = Len(W!Offered) - k /\ part \o rest = W!Offered
  <2>1. k \in 0 .. Len(W!Offered)
    BY <1>2, LenProperties
  <2> QED
    BY <1>2, <2>1, SeqHalves
<1>4. /\ sink' = sink \o part
      /\ wpc = "direct" => scratch' = rest /\ buf' = buf
      /\ wpc # "direct" => buf' = rest /\ scratch' = scratch
      /\ UNCHANGED <<given, placed, job, wpc, answer, reported, mishaps>>
  BY <1>2 DEF W!SinkTakes, W!After
<1> HIDE DEF part, rest
<1>5. sink' \in Seq(Nat) /\ Grown
  <2>1. sink \o part \in Seq(Nat)
    BY <1>1, <1>3, ConcatProperties
  <2> QED
    BY <1>3, <1>4, <2>1, Zenon DEF Grown, Starts
<1>6. sink' \o buf' \o scratch' = sink \o buf \o scratch
  <2>1. CASE wpc = "direct"
    <3>1. buf = << >> /\ buf' = << >> /\ W!Offered = scratch
      BY <1>2, <1>4, <2>1 DEF WriterSound
    <3>2. sink' \o << >> = sink' /\ sink \o << >> = sink
      BY <1>1, <1>5, ConcatEmptySeq
    <3>3. (sink \o part) \o rest = sink \o (part \o rest)
      BY <1>1, <1>3, SeqJoined
    <3> QED
      BY <1>3, <1>4, <2>1, <3>1, <3>2, <3>3, Zenon
  <2>2. CASE wpc # "direct"
    <3>1. W!Offered = buf
      BY <1>2, <2>2
    <3>2. (sink \o part) \o rest = sink \o (part \o rest)
      BY <1>1, <1>3, SeqJoined
    <3> QED
      BY <1>3, <1>4, <2>2, <3>1, <3>2, Zenon
  <2> QED
    BY <2>1, <2>2
<1>7. TextInOrder'
  BY <1>4, <1>6 DEF WriterSound, TextInOrder, W!TextInOrder, W!Written
<1>8. buf' \in Seq(Nat) /\ scratch' \in Seq(Nat) /\ Len(buf') <= Capacity
  <2>1. k \in Nat
    OBVIOUS
  <2>2. CASE wpc = "direct"
    BY <1>1, <1>3, <1>4, <2>2
  <2>3. CASE wpc # "direct"
    <3>1. Len(rest) = Len(buf) - k /\ buf' = rest
      BY <1>2, <1>3, <1>4, <2>3
    <3>2. Len(buf) - k <= Capacity
      BY <1>1, <2>1, PipeAssumption
    <3> QED
      BY <1>1, <1>3, <1>4, <2>3, <3>1, <3>2
  <2> QED
    BY <2>2, <2>3
<1>9. W!WriterTypeOK'
  BY <1>4, <1>5, <1>8 DEF WriterSound, W!WriterTypeOK
<1>10. /\ ~ Placing' => scratch' = << >>
       /\ wpc' = "direct" => buf' = << >>
  BY <1>2, <1>4 DEF WriterSound, Placing
<1>11. wpc' # "ended"
  BY <1>2, <1>4
<1> QED
  BY <1>4, <1>5, <1>7, <1>9, <1>10, <1>11 DEF WriterSound, Placing

\* A failure of the sink ends the call: only a write and a finish lose text,
\* and they say so.
LEMMA FailKeeps ==
    ASSUME WriterSound, use' = use, W!SinkFails \/ W!SyncFails,
           mishaps' \in 0 .. MaxTrouble
    PROVE  WriterSound' /\ Grown
<1>1. /\ W!Fail /\ wpc \in {"spill", "flush", "drop", "direct"}
  <2>1. CASE W!SinkFails
    BY <2>1 DEF W!SinkFails, W!Offered
  <2>2. CASE W!SyncFails
    BY <2>2 DEF W!SyncFails
  <2> QED
    BY <2>1, <2>2
<1>2. /\ scratch' = << >> /\ answer' = "failed"
      /\ reported' = (reported \/ job \in {"write", "finish"})
      /\ wpc' \in {"ended", "drop", "idle"}
      /\ wpc' = "ended" <=> wpc = "drop"
      /\ wpc' = "drop" <=> wpc # "drop" /\ job = "finish"
      /\ UNCHANGED <<given, placed, buf, sink, job>>
  BY <1>1 DEF W!Fail
<1>3. /\ reported \in BOOLEAN
      /\ scratch \in Seq(Nat) /\ sink \in Seq(Nat)
      /\ wpc = "flush" => job \in {"flush", "finish"}
      /\ Placing => job \in {"write", "finish"}
      /\ wpc = "drop" => job \in {"drop", "finish"}
      /\ ~ Placing => scratch = << >>
  BY DEF WriterSound, W!WriterTypeOK
<1>4. TextInOrder'
  <2> SUFFICES ASSUME use # "file", ~ reported'
               PROVE  sink \o buf \o << >> = W!Written'
    BY <1>2 DEF TextInOrder, W!TextInOrder
  <2>1. ~ reported /\ job \notin {"write", "finish"}
    BY <1>2, <1>3
  <2>2. scratch = << >>
    BY <1>3, <2>1
  <2>3. W!Written' = W!Written
    BY <1>2 DEF W!Written
  <2> QED
    BY <2>1, <2>2, <2>3 DEF WriterSound, TextInOrder, W!TextInOrder
<1>5. W!WriterTypeOK'
  BY <1>2, <1>3, EmptySeq DEF WriterSound, W!WriterTypeOK
<1>6. Grown
  BY <1>2, <1>3, StartsItself DEF Grown
<1>7. ~ Placing'
  BY <1>2 DEF Placing
<1>8. wpc' = "idle" => job' \in {"write", "flush"}
  BY <1>1, <1>2, <1>3 DEF Placing
<1>9. wpc' \in {"drop", "ended"} => job' \in {"drop", "finish"}
  BY <1>2, <1>3
<1>10. job' = "finish" => reported'
  BY <1>2
<1>11. ~ reported' => placed' = given'
  BY <1>2, <1>3 DEF WriterSound, Placing
<1> QED
  BY <1>2, <1>4, <1>5, <1>6, <1>7, <1>8, <1>9, <1>10, <1>11 DEF WriterSound, Placing

\* A writer that has written nothing.
LEMMA UnusedSound ==
    ASSUME EncoderAdds, W!Unused, sink \in Seq(Nat), use # "file" => sink = << >>,
           mishaps \in 0 .. MaxTrouble
    PROVE  WriterSound
<1>1. << >> \o << >> \o << >> = << >>
  BY EmptySeq, ConcatEmptySeq
<1>2. Text(<< >>) = << >>
  BY DEF EncoderAdds
<1>3. W!WriterTypeOK
  <2>1. /\ given \in Seq(0 .. 255) /\ placed \in Seq(0 .. 255)
        /\ scratch \in Seq(Nat)
        /\ buf \in Seq(Nat) /\ Len(given) = 0 /\ Len(buf) = 0
    BY EmptySeq DEF W!Unused
  <2>2. Len(given) <= MaxBytes /\ Len(buf) <= Capacity
    BY <2>1, PipeAssumption
  <2>3. sink \in Seq(Nat)
    BY EmptySeq DEF W!Unused
  <2>4. /\ job = "write" /\ wpc = "idle" /\ answer = "none"
        /\ reported = FALSE /\ mishaps \in 0 .. MaxTrouble
    BY DEF W!Unused, W!WriterTypeOK
  <2> QED
    BY <2>1, <2>2, <2>3, <2>4 DEF W!WriterTypeOK
<1>4. TextInOrder
  BY <1>1, <1>2 DEF W!Unused, TextInOrder, W!TextInOrder, W!Written
<1> QED
  BY <1>3, <1>4 DEF W!Unused, WriterSound, Placing

LEMMA RenewKeeps ==
    ASSUME EncoderAdds, WriterSound, use' = use, W!Renew
    PROVE  WriterSound' /\ sink' \in Seq(Nat)
<1>1. << >> \o << >> \o << >> = << >> /\ sink' = << >> /\ sink' \in Seq(Nat)
  BY EmptySeq, ConcatEmptySeq DEF W!Renew
<1>2. Text(<< >>) = << >>
  BY DEF EncoderAdds
<1>3. W!WriterTypeOK'
  <2>1. /\ given' \in Seq(0 .. 255) /\ placed' \in Seq(0 .. 255)
        /\ scratch' \in Seq(Nat)
        /\ buf' \in Seq(Nat) /\ Len(given') = 0 /\ Len(buf') = 0
    BY EmptySeq DEF W!Renew
  <2>2. Len(given') <= MaxBytes /\ Len(buf') <= Capacity
    BY <2>1, PipeAssumption
  <2>3. sink' \in Seq(Nat)
    BY EmptySeq DEF W!Renew
  <2>4. /\ job' = "write" /\ wpc' = "idle" /\ answer' = "none"
        /\ reported' = FALSE /\ mishaps' \in 0 .. MaxTrouble
    BY DEF W!Renew, WriterSound, W!WriterTypeOK
  <2> QED
    BY <2>1, <2>2, <2>3, <2>4 DEF W!WriterTypeOK
<1>4. TextInOrder'
  BY <1>1, <1>2 DEF W!Renew, TextInOrder, W!TextInOrder, W!Written
<1> QED
  BY <1>1, <1>3, <1>4 DEF W!Renew, WriterSound, Placing

LEMMA WriterIdle ==
    ASSUME WriterSound, UNCHANGED <<use, writer>>
    PROVE  WriterSound'
BY DEF writer, WriterSound, W!WriterTypeOK, Placing, TextInOrder,
   W!TextInOrder, W!Written

----------------------------------------------------------------------------
\* The two together.

IInv == ReaderSound /\ WriterSound /\ use \in {"file", "disk", "pipe"}

LEMMA InitIInv ==
    ASSUME DecoderAdds, EncoderAdds, Init
    PROVE  IInv /\ Source!Init
<1>1. /\ R!Fresh /\ W!Unused /\ trouble \in 0 .. MaxTrouble
      /\ mishaps \in 0 .. MaxTrouble /\ use \in {"file", "disk", "pipe"}
  BY PipeAssumption DEF Init
<1>2. sink \in Seq(Nat) /\ (use # "file" => sink = << >>)
  BY PipeAssumption, EmptySeq DEF Init
<1> QED
  BY <1>1, <1>2, FreshSound, UnusedSound DEF IInv

LEMMA WriteStep ==
    ASSUME DecoderAdds, EncoderAdds, IInv, Write
    PROVE  IInv' /\ SourceStep
<1>1. UNCHANGED <<use, format, reader>> /\ use # "file"
  BY DEF Write
<1>2. WriterSound' /\ (Grown \/ use = "disk")
  <2>1. CASE \E c \in Writes : W!Write(c)
    BY <1>1, <2>1, WriteKeeps DEF IInv
  <2>2. CASE W!Flush \/ W!Drop
    BY <1>1, <2>2, FlushKeeps DEF IInv
  <2>3. CASE W!Finish
    BY <1>1, <2>3, FinishKeeps DEF IInv
  <2>4. CASE W!PlaceBuffer \/ W!DirectDone
    BY <1>1, <2>4, PlacedKeeps DEF IInv
  <2>5. CASE W!PlaceSpill \/ W!PlaceDirect \/ W!Drained \/ W!SinkInterrupts
    BY <1>1, <2>5, QuietKeeps DEF IInv
  <2>6. CASE \E k \in 1 .. Len(W!Offered) : k <= Room /\ W!SinkTakes(k)
    BY <1>1, <2>6, SinkTakesKeeps DEF IInv
  <2>7. CASE use = "pipe" /\ pc = "dropped" /\ W!SinkFails /\ UNCHANGED mishaps
    <3>1. mishaps' \in 0 .. MaxTrouble
      BY <2>7 DEF IInv, WriterSound, W!WriterTypeOK
    <3> QED
      BY <1>1, <2>7, <3>1, FailKeeps DEF IInv
  <2>8. CASE use = "disk" /\ W!InMishap /\ (W!SinkFails \/ W!SyncFails)
    <3>1. mishaps' \in 0 .. MaxTrouble
      BY <2>8, PipeAssumption DEF IInv, WriterSound, W!WriterTypeOK, W!InMishap
    <3> QED
      BY <1>1, <2>8, <3>1, FailKeeps DEF IInv
  <2>9. CASE use = "disk" /\ W!Renew
    BY <1>1, <2>9, RenewKeeps DEF IInv
  <2> QED
    BY <2>1, <2>2, <2>3, <2>4, <2>5, <2>6, <2>7, <2>8, <2>9
       DEF Write, W!WriterCall, W!WriterStep
<1>3. sink' \in Seq(Nat)
  BY <1>2 DEF WriterSound, W!WriterTypeOK
<1>4. ReaderSound' /\ SourceStep
  BY <1>1, <1>2, <1>3, WriterLeaves DEF IInv, Grown
<1> QED
  BY <1>1, <1>2, <1>4 DEF IInv

LEMMA ReadsStep ==
    ASSUME DecoderAdds, IInv, ReadStep \/ ReadCall
    PROVE  IInv' /\ SourceStep
<1>1. Elsewhere /\ use # "disk"
  BY DEF ReadStep, ReadCall, Elsewhere
<1>2. WriterSound'
  BY <1>1, WriterIdle DEF Elsewhere, IInv
<1>3. ReaderSound' /\ SourceStep
  <2>1. CASE R!ReturnData
    BY <1>1, <2>1, ReturnDataKeeps DEF IInv
  <2>2. CASE R!ReturnInvalid \/ R!ReturnEof
    BY <1>1, <2>2, ReturnOverKeeps DEF IInv
  <2>3. CASE R!InnerFails
    BY <1>1, <2>3, InnerFailsKeeps DEF IInv
  <2>4. CASE \E n \in R!Pieces : R!InnerGives(n)
    BY <1>1, <2>4, InnerGivesKeeps DEF IInv
  <2>5. CASE R!InnerEnds
    BY <1>1, <2>5, InnerEndsKeeps DEF IInv
  <2>6. CASE \E n \in BufLens : R!Read(n)
    BY <1>1, <2>6, ReadKeeps, PipeAssumption DEF IInv
  <2>7. CASE R!IntoInner
    BY <1>1, <2>7, IntoInnerKeeps DEF IInv
  <2>8. CASE R!New
    <3>1. format' = format /\ sink' = sink /\ sink \in Seq(Nat)
      BY <1>1 DEF Elsewhere, writer, IInv, ReaderSound
    <3> QED
      BY <2>8, <3>1, NewKeeps DEF IInv
  <2> QED
    BY <2>1, <2>2, <2>3, <2>4, <2>5, <2>6, <2>7, <2>8 DEF ReadStep, ReadCall, Supply
<1> QED
  BY <1>1, <1>2, <1>3 DEF IInv, Elsewhere

LEMMA ReopenStep ==
    ASSUME DecoderAdds, EncoderAdds, IInv, Reopen
    PROVE  IInv' /\ SourceStep
<1>1. W!Renew /\ R!New /\ use' = use /\ format' = format
  BY DEF Reopen
<1>2. WriterSound' /\ sink' \in Seq(Nat)
  BY <1>1, RenewKeeps DEF IInv
<1>3. ReaderSound' /\ SourceStep
  BY <1>1, <1>2, NewKeeps DEF IInv
<1> QED
  BY <1>1, <1>2, <1>3 DEF IInv

LEMMA NextIInv ==
    ASSUME DecoderAdds, EncoderAdds, IInv, [Next]_vars
    PROVE  IInv' /\ SourceStep
<1>1. CASE Next
  BY <1>1, WriteStep, ReadsStep, ReopenStep DEF Next
<1>2. CASE UNCHANGED vars
  <2>1. UNCHANGED <<use, writer, reader, format, sink>>
    BY <1>2 DEF vars, writer
  <2>2. WriterSound' /\ sink \in Seq(Nat)
    BY <2>1, WriterIdle DEF IInv, ReaderSound
  <2>3. Starts(sink, sink')
    BY <2>1, <2>2, StartsItself
  <2>4. ReaderSound' /\ SourceStep
    BY <2>1, <2>2, <2>3, WriterLeaves DEF IInv
  <2> QED
    BY <2>1, <2>2, <2>4 DEF IInv
<1> QED
  BY <1>1, <1>2

\* The invariant holds, from which the properties follow.
THEOREM Invariance ==
    ASSUME DecoderAdds, EncoderAdds
    PROVE  Spec => []IInv
<1>1. Init => IInv
  BY InitIInv
<1>2. IInv /\ [Next]_vars => IInv'
  BY NextIInv
<1> QED
  BY <1>1, <1>2, PTL DEF Spec

\* The types of both adapters' states, and the bound of the writer's buffer.
THEOREM Types ==
    ASSUME DecoderAdds, EncoderAdds
    PROVE  Spec => []TypeOK
<1>1. IInv => TypeOK
  BY DEF IInv, ReaderSound, WriterSound, TypeOK
<1> QED
  BY <1>1, Invariance, PTL

\* What DecoderReader has decoded is with the caller or in its buffer, in
\* order and once, however the inner reader cuts, interrupts, fails or ends.
THEOREM ReaderLosesNothing ==
    ASSUME DecoderAdds, EncoderAdds
    PROVE  Spec => []NothingLost
<1>1. IInv => NothingLost
  BY DEF IInv, ReaderSound
<1> QED
  BY <1>1, Invariance, PTL

\* Ok(0) comes at the end of a valid stream only, all of it delivered.
THEOREM EndIsTheEnd ==
    ASSUME DecoderAdds, EncoderAdds
    PROVE  Spec => []EofMeansAll
<1>1. ASSUME IInv PROVE EofMeansAll
  <2> SUFFICES ASSUME ret = "eof"
               PROVE  /\ done /\ ~ RejectsEnd(format, R!Given(taken))
                      /\ got = Whole(format, R!Given(taken))
    BY DEF EofMeansAll, R!EofMeansAll
  <2>1. /\ done /\ ~ failed /\ decodedPos = Len(decoded)
        /\ ~ RejectsEnd(format, R!Given(taken))
    BY <1>1 DEF IInv, ReaderSound
  <2>2. got \o R!Rest = got
    BY <1>1, <2>1, RestParts DEF IInv
  <2>3. got \o R!Rest = Whole(format, R!Given(taken))
    BY <1>1, <2>1 DEF IInv, ReaderSound, NothingLost, R!NothingLost,
       R!Deliverable
  <2> QED
    BY <2>1, <2>2, <2>3
<1> QED
  BY <1>1, Invariance, PTL

\* The text of EncoderWriter is in the sink, the buffer and the call in
\* progress, in order and once, until a write or a finish reports a failure.
THEOREM WriterKeepsOrder ==
    ASSUME DecoderAdds, EncoderAdds
    PROVE  Spec => []TextInOrder
<1>1. IInv => TextInOrder
  BY DEF IInv, WriterSound
<1> QED
  BY <1>1, Invariance, PTL

\* A finish that succeeds after writes that did leaves all their text in the
\* sink.
THEOREM FinishWritesAll ==
    ASSUME DecoderAdds, EncoderAdds
    PROVE  Spec => []FinishIsWhole
<1>1. ASSUME IInv PROVE FinishIsWhole
  <2> SUFFICES ASSUME use # "file", wpc = "ended", job = "finish", ~ reported
               PROVE  sink = Closed(placed)
    BY DEF FinishIsWhole, W!FinishIsWhole
  <2>1. buf = << >> /\ scratch = << >> /\ placed = given /\ sink \in Seq(Nat)
    BY <1>1 DEF IInv, WriterSound, Placing, W!WriterTypeOK
  <2>2. sink \o buf \o scratch = Closed(given)
    BY <1>1 DEF IInv, WriterSound, TextInOrder, W!TextInOrder, W!Written
  <2> QED
    BY <2>1, <2>2, ConcatEmptySeq
<1> QED
  BY <1>1, Invariance, PTL

\* The reader is a source of bytes: it implements ByteSource.
THEOREM ReaderIsSource ==
    ASSUME DecoderAdds, EncoderAdds
    PROVE  Spec => ImplementsSource
<1>1. Init => Source!Init
  BY InitIInv
<1>2. IInv /\ [Next]_vars => [Source!Next]_(Source!vars)
  BY NextIInv DEF SourceStep
<1> QED
  BY <1>1, <1>2, Invariance, PTL DEF Spec, ImplementsSource, Source!Spec

----------------------------------------------------------------------------
\* Both ends of a pipe.

\* The reader sees the end only when the writer is gone and the pipe is empty,
\* and a writer whose reader is there goes with an empty buffer.
Piped ==
    use = "pipe" =>
        /\ format = "henke" /\ ~ failed
        /\ done => wpc = "ended" /\ taken = Len(sink) /\ buf = << >>
        /\ wpc = "ended" /\ pc # "dropped" => buf = << >>

\* A writer that is gone does nothing more, and one that goes has written its
\* buffer, or has a reader that is gone.
LEMMA PipedWrite ==
    ASSUME Piped, Write
    PROVE  Piped'
<1> SUFFICES ASSUME use = "pipe", use' = use
             PROVE  Piped'
  BY DEF Write, Piped
<1>1. UNCHANGED <<format, taken, done, failed, pc>>
  BY DEF Write, reader
<1>2. CASE W!WriterCall \/ W!WriterStep
  <2>1. wpc # "ended" /\ (wpc' = "ended" => buf' = << >>)
    BY <1>2 DEF W!WriterCall, W!Write, W!Flush, W!Finish, W!Drop, W!WriterStep,
       W!PlaceBuffer, W!PlaceSpill, W!PlaceDirect, W!DirectDone, W!Placed,
       W!Drained
  <2> QED
    BY <1>1, <2>1 DEF Piped
<1>3. CASE \E k \in 1 .. Len(W!Offered) : k <= Room /\ W!SinkTakes(k)
  <2>1. wpc' = wpc
    BY <1>3 DEF W!SinkTakes
  <2>2. wpc # "ended"
    <3>1. ASSUME wpc = "ended" PROVE Len(W!Offered) = 0
      BY <3>1, EmptySeq DEF W!Offered
    <3> QED
      BY <1>3, <3>1
  <2> QED
    BY <1>1, <2>1, <2>2 DEF Piped
<1>4. CASE W!SinkInterrupts
  BY <1>1, <1>4 DEF Piped, W!SinkInterrupts
<1>5. CASE pc = "dropped" /\ W!SinkFails /\ UNCHANGED mishaps
  <2>1. wpc # "ended"
    BY <1>5 DEF W!SinkFails, W!Offered
  <2> QED
    BY <1>1, <1>5, <2>1 DEF Piped
<1> QED
  BY <1>2, <1>3, <1>4, <1>5 DEF Write

LEMMA PipedRead ==
    ASSUME CodecsAgree, IInv, Piped, ReadStep \/ ReadCall
    PROVE  Piped'
<1> SUFFICES ASSUME use = "pipe", use' = use
             PROVE  Piped'
  BY DEF ReadStep, ReadCall, Piped
<1>1. UNCHANGED <<format, sink, buf, wpc>>
  BY DEF ReadStep, ReadCall, writer
<1>2. sink \in Seq(Nat) /\ taken \in 0 .. Len(sink) /\ Len(sink) \in Nat
  BY LenProperties DEF IInv, ReaderSound, R!ReaderTypeOK
<1>3. CASE R!ReturnData \/ R!ReturnInvalid \/ R!ReturnEof
  BY <1>1, <1>3 DEF Piped, R!ReturnData, R!ReturnInvalid, R!ReturnEof, R!Return,
     R!Empty
<1>4. CASE R!InnerFails
  BY <1>1, <1>4 DEF Piped, R!InnerFails, R!InnerRead, R!Empty
<1>5. ASSUME NEW n \in R!Pieces, R!InnerGives(n)
      PROVE  Piped'
  <2>1. taken + n \in 0 .. Len(sink)
    BY <1>2, <1>5, PipeAssumption DEF R!Pieces, R!LesserOf
  <2>2. R!Given(taken + n) \in Seq(Nat)
    BY <1>2, <2>1, SeqHalves DEF R!Given
  <2>3. ~ Rejects(format, R!Given(taken + n))
    BY <2>2 DEF CodecsAgree, Piped
  <2> QED
    BY <1>1, <1>5, <2>3 DEF Piped, R!InnerGives, R!InnerRead, R!Empty
<1>6. CASE (wpc = "ended" /\ taken = Len(sink)) /\ R!InnerEnds
  <2>1. R!Given(taken) \in Seq(Nat)
    BY <1>2, SeqHalves DEF R!Given
  <2>2. ~ RejectsEnd(format, R!Given(taken))
    BY <2>1 DEF CodecsAgree, Piped
  <2>3. pc = "read" /\ UNCHANGED <<taken, pc>>
    BY <1>6 DEF R!InnerEnds, R!InnerRead, R!Empty
  <2> QED
    BY <1>1, <1>6, <2>2, <2>3 DEF Piped, R!InnerEnds
<1>7. CASE \E n \in BufLens : R!Read(n)
  BY <1>1, <1>7 DEF Piped, R!Read
<1>8. CASE R!IntoInner
  BY <1>1, <1>8 DEF Piped, R!IntoInner
<1> QED
  BY <1>3, <1>4, <1>5, <1>6, <1>7, <1>8 DEF ReadStep, ReadCall, Supply

LEMMA PipedNext ==
    ASSUME CodecsAgree, IInv, Piped, [Next]_vars
    PROVE  Piped'
<1>1. CASE Reopen
  BY <1>1 DEF Reopen, Piped, W!Renew, R!New
<1>2. CASE UNCHANGED vars
  BY <1>2 DEF vars, reader, writer, Piped
<1> QED
  BY <1>1, <1>2, PipedWrite, PipedRead DEF Next

LEMMA StartsAgain ==
    ASSUME NEW s \in Seq(Nat), NEW t, NEW u, Starts(s, t), Starts(t, u)
    PROVE  Starts(s, u)
<1>1. PICK x \in Seq(Nat) : t = s \o x
  BY DEF Starts
<1>2. PICK y \in Seq(Nat) : u = t \o y
  BY DEF Starts
<1>3. u = s \o (x \o y) /\ x \o y \in Seq(Nat)
  BY <1>1, <1>2, SeqJoined, ConcatProperties
<1> QED
  BY <1>3, Zenon DEF Starts

LEMMA StartsFront ==
    ASSUME NEW s \in Seq(Nat), NEW t \in Seq(Nat), Starts(s, t)
    PROVE  Len(s) <= Len(t) /\ s = SubSeq(t, 1, Len(s))
<1>1. PICK x \in Seq(Nat) : t = s \o x
  BY DEF Starts
<1>2. /\ Len(s \o x) = Len(s) + Len(x) /\ Len(s) \in Nat /\ Len(x) \in Nat
      /\ Len(s) \in 0 .. Len(s)
  BY ConcatProperties, LenProperties
<1>3. SubSeq(s \o x, 1, Len(s)) = SubSeq(s, 1, Len(s))
  BY <1>2, SeqFront
<1>4. SubSeq(s, 1, Len(s)) = s
  BY SubSeqFull
<1> QED
  BY <1>1, <1>2, <1>3, <1>4

\* The text that went through the pipe so far decodes to the first of the
\* bytes, and to all of them when a finished writer's text has.
LEMMA PipeDelivers ==
    ASSUME DecoderAdds, EncoderAdds, CodecsAgree, IInv, Piped,
           use = "pipe", ~ reported
    PROVE  /\ R!Deliverable \in Seq(Nat) /\ given \in Seq(Byte)
           /\ Starts(R!Deliverable, given)
           /\ done /\ job = "finish" => R!Deliverable = given
<1>1. /\ sink \in Seq(Nat) /\ buf \in Seq(Nat) /\ scratch \in Seq(Nat)
      /\ given \in Seq(Byte) /\ accepted \in 0 .. Len(sink)
      /\ taken \in 0 .. Len(sink) /\ format = "henke" /\ ~ failed
      /\ sink \o buf \o scratch = W!Written
  <2>1. sink \in Seq(Nat) /\ taken \in 0 .. Len(sink) /\ accepted \in 0 .. taken
        /\ Len(sink) \in Nat
    BY LenProperties DEF IInv, ReaderSound, R!ReaderTypeOK
  <2>2. accepted \in 0 .. Len(sink)
    BY <2>1
  <2> QED
    BY <2>1, <2>2 DEF IInv, WriterSound, W!WriterTypeOK, Byte, Piped, TextInOrder,
       W!TextInOrder
<1>2. /\ Text(given) \in Seq(Nat) /\ Closed(given) \in Seq(Nat)
      /\ Starts(Text(given), Closed(given))
  BY <1>1, Zenon DEF EncoderAdds
<1>3. /\ Whole("henke", Closed(given)) = given
      /\ Starts(Whole("henke", Text(given)), given)
  BY <1>1, Zenon DEF CodecsAgree
<1>4. CASE ~ done
  <2> DEFINE cut == R!Given(accepted)
  <2>1. buf \o scratch \in Seq(Nat)
        /\ sink \o (buf \o scratch) = W!Written
    BY <1>1, SeqJoined, ConcatProperties
  <2>2. Starts(sink, W!Written)
    BY <2>1, Zenon DEF Starts
  <2>3. Starts(W!Written, Closed(given))
    BY <1>2, StartsItself DEF W!Written
  <2>4. Starts(sink, Closed(given))
    BY <1>1, <2>2, <2>3, StartsAgain
  <2>5. cut = SubSeq(Closed(given), 1, accepted) /\ accepted \in 0 .. Len(Closed(given))
    <3>1. PICK x \in Seq(Nat) : Closed(given) = sink \o x
      BY <2>4 DEF Starts
    <3>2. Len(sink \o x) = Len(sink) + Len(x) /\ Len(sink) \in Nat /\ Len(x) \in Nat
      BY <1>1, ConcatProperties, LenProperties
    <3>3. SubSeq(sink \o x, 1, accepted) = SubSeq(sink, 1, accepted)
      BY <1>1, SeqFront
    <3> QED
      BY <1>1, <3>1, <3>2, <3>3 DEF R!Given
  <2>6. cut \in Seq(Nat)
    BY <1>1, SeqHalves DEF R!Given
  <2> HIDE DEF cut
  <2>7. /\ ~ Rejects("henke", Closed(given)) /\ ~ RejectsEnd("henke", Closed(given))
    BY <1>2 DEF CodecsAgree
  <2>8. /\ Decoded("henke", cut) \in Seq(Nat)
        /\ Starts(Decoded("henke", cut), Decoded("henke", Closed(given)))
    <3>1. Decoded("henke", cut) \in Seq(Nat)
      BY <2>6, Zenon DEF DecoderAdds
    <3>2. \A n \in 0 .. Len(Closed(given)) :
             ~ Rejects("henke", Closed(given)) =>
                Starts(Decoded("henke", SubSeq(Closed(given), 1, n)),
                       Decoded("henke", Closed(given)))
      BY <1>2, Zenon DEF DecoderAdds
    <3> QED
      BY <2>5, <2>7, <3>1, <3>2, Zenon
  <2>9. Starts(Decoded("henke", Closed(given)), given)
    BY <1>2, <1>3, <2>7, Zenon DEF DecoderAdds
  <2>10. R!Deliverable = Decoded("henke", cut)
    BY <1>1, <1>4 DEF R!Deliverable, cut
  <2> QED
    BY <1>1, <1>4, <2>8, <2>9, <2>10, StartsAgain
<1>5. CASE done
  <2>1. wpc = "ended" /\ taken = Len(sink) /\ buf = << >>
    BY <1>5 DEF Piped
  <2>2. scratch = << >> /\ job \in {"drop", "finish"}
    BY <2>1 DEF IInv, WriterSound, Placing
  <2>3. sink = W!Written
    BY <1>1, <2>1, <2>2, ConcatEmptySeq
  <2>4. R!Given(taken) = sink
    BY <1>1, <2>1, SubSeqFull DEF R!Given
  <2>5. R!Deliverable = Whole("henke", W!Written)
    BY <1>1, <1>5, <2>3, <2>4 DEF R!Deliverable
  <2>6. W!Written \in Seq(Nat) /\ Whole("henke", W!Written) \in Seq(Nat)
    BY <1>2, Zenon DEF DecoderAdds, W!Written
  <2>7. given \in Seq(Nat)
    BY <1>1, <1>2, <1>3, Zenon DEF DecoderAdds
  <2>8. CASE job = "finish"
    BY <1>1, <1>3, <2>5, <2>6, <2>7, <2>8, StartsItself DEF W!Written
  <2>9. CASE job = "drop"
    BY <1>1, <1>3, <2>5, <2>6, <2>9 DEF W!Written
  <2> QED
    BY <2>2, <2>8, <2>9
<1> QED
  BY <1>4, <1>5

\* EncoderWriter, a pipe and DecoderReader: the reader has the first bytes of
\* the writer's, however the text is cut on its way, and all of them when
\* finish has succeeded and the reader has seen the end.
THEOREM PipeGivesBack ==
    ASSUME DecoderAdds, EncoderAdds, CodecsAgree
    PROVE  Spec => []PipeRoundTrip
<1>1. Init => Piped
  BY DEF Init, R!Fresh, W!Unused, Piped
<1>2. IInv /\ Piped /\ [Next]_vars => Piped'
  BY PipedNext
<1>3. ASSUME IInv, Piped PROVE PipeRoundTrip
  <2> SUFFICES ASSUME use = "pipe", ~ reported
               PROVE  /\ Len(got) <= Len(given)
                      /\ got = SubSeq(given, 1, Len(got))
                      /\ ret = "eof" /\ answer = "ok" /\ job = "finish" =>
                             got = placed
    BY DEF PipeRoundTrip
  <2>1. /\ R!Deliverable \in Seq(Nat) /\ given \in Seq(Byte)
        /\ Starts(R!Deliverable, given)
        /\ done /\ job = "finish" => R!Deliverable = given
    BY <1>3, PipeDelivers
  <2>2. /\ got \in Seq(Nat) /\ R!Rest \in Seq(Nat) /\ got \o R!Rest = R!Deliverable
    BY <1>3, RestParts
       DEF IInv, ReaderSound, R!ReaderTypeOK, NothingLost, R!NothingLost
  <2>3. Starts(got, R!Deliverable)
    BY <2>2, Zenon DEF Starts
  <2>4. Starts(got, given)
    BY <2>1, <2>2, <2>3, StartsAgain
  <2>5. given \in Seq(Nat)
    <3>1. Byte \subseteq Nat
      BY DEF Byte
    <3> QED
      BY <2>1, <3>1, SeqMonotonic, Zenon
  <2>6. Len(got) <= Len(given) /\ got = SubSeq(given, 1, Len(got))
    BY <2>2, <2>4, <2>5, StartsFront
  <2>7. ASSUME ret = "eof", job = "finish"
        PROVE  got = placed
    <3>1. done /\ ~ failed /\ decodedPos = Len(decoded)
      BY <1>3, <2>7 DEF IInv, ReaderSound
    <3>2. got \o R!Rest = got
      BY <1>3, <3>1, RestParts DEF IInv
    <3>3. wpc = "ended"
      BY <1>3, <3>1 DEF Piped
    <3>4. placed = given
      BY <1>3, <3>3 DEF IInv, WriterSound, Placing
    <3> QED
      BY <2>1, <2>2, <2>7, <3>1, <3>2, <3>4
  <2> QED
    BY <2>6, <2>7
<1> QED
  BY <1>1, <1>2, <1>3, Invariance, PTL DEF Spec
=============================================================================
