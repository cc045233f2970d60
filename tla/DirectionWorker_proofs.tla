------------------------ MODULE DirectionWorker_proofs ------------------------
(***************************************************************************)
(* What holds of a DirectionWorker for every set of fragments, every word  *)
(* limit and any number of segments.                                       *)
(***************************************************************************)
EXTENDS DirectionWorker, TextUtils_proofs

\* The bound on the segments is a number.
LEMMA LimitType == SegmentLimit \in Nat
  BY WorkerAssumption DEF SegmentLimit

\* An empty text is below every word limit.
LEMMA NoWords == CountWords(<<>>) = 0 /\ 0 < WordLimit
<1>1. {i \in 1 .. Len(<<>>) : ~IsMark(<<>>[i])} = {}
  OBVIOUS
<1> QED
  BY <1>1, FS_EmptySet, WorkerAssumption DEF CountWords

\* The words of a text are numbered by a natural number.
LEMMA CountType == \A t \in Text : CountWords(t) \in Nat
<1> SUFFICES ASSUME NEW t \in Text PROVE CountWords(t) \in Nat
  OBVIOUS
<1>1. IsFiniteSet(1 .. Len(t))
  BY FS_Interval DEF Text
<1>2. IsFiniteSet({i \in 1 .. Len(t) : ~IsMark(t[i])})
  BY <1>1, FS_Subset
<1> QED
  BY <1>2, FS_CardinalityType DEF CountWords

\* Tagging the words of a fragment with where they were spoken gives a text.
LEMMA TokensType ==
  ASSUME NEW kinds \in Fragments, NEW n \in Nat
  PROVE  Tokens(kinds, n) \in Text
<1>1. kinds \in Seq(STRING)
  BY WorkerAssumption
<1>2. Len(kinds) \in Nat /\ \A i \in 1 .. Len(kinds) : kinds[i] \in STRING
  BY <1>1
<1>3. Tokens(kinds, n) \in [1 .. Len(kinds) -> Token]
  BY <1>2 DEF Tokens, Token
<1> QED
  BY <1>2, <1>3 DEF Text

\* The pieces of a text are texts, and so are those that pass the last guard.
LEMMA DrainType ==
  ASSUME NEW t \in Text
  PROVE  /\ CompleteSentences(t) \in Seq(Text)
         /\ Translatable(CompleteSentences(t)) \in Seq(Text)
         /\ Remainder(t) \in Text
<1>1. CompleteSentences(t) \in Seq(Text) /\ Remainder(t) \in Text
  BY SplitType DEF Text
<1> QED
  BY <1>1, TranslatableType

\* The tokens of a text, and of the sentences of a list, are tokens.
LEMMA ToSetType ==
  /\ \A t \in Text : ToSet(t) \subseteq Token
  /\ \A l \in Seq(Text) : \A s \in ToSet(l) : ToSet(s) \subseteq Token
<1>1. \A t \in Text : ToSet(t) \subseteq Token
  BY DEF Text, ToSet
<1>2. \A l \in Seq(Text) : \A s \in ToSet(l) : s \in Text
  BY DEF ToSet
<1> QED
  BY <1>1, <1>2

-----------------------------------------------------------------------------
(***************************************************************************)
(* Type correctness.  A thread takes the head of its list only when it has *)
(* one: the types of what it emits depend on that.                         *)
(***************************************************************************)
InHand ==
  /\ cpc \in {"emit", "put", "flushPut"} => cready # <<>>
  /\ tpc \in {"emit", "put"} => tready # <<>>

Typed == TypeOK /\ InHand

LEMMA InitType == Init => Typed
<1> SUFFICES ASSUME Init PROVE Typed
  OBVIOUS
<1>1. <<>> \in Text /\ <<>> \in Seq(Text)
  BY DEF Text
<1>2. NoEvent \in [id : Nat, text : Text]
  BY <1>1 DEF NoEvent
<1>3. InHand
  BY DEF Init, InHand
<1>4. seg \in Nat /\ (BetweenAdds => CountWords(buffer) < WordLimit)
  BY NoWords DEF Init
<1> QED
  BY <1>1, <1>2, <1>3, <1>4 DEF Init, Typed, TypeOK

LEMMA CaptureType == Typed /\ (CaptureWork \/ CaptureFails) => Typed'
<1> SUFFICES ASSUME Typed PROVE (CaptureWork \/ CaptureFails) => Typed'
  OBVIOUS
<1> USE DEF Typed, TypeOK, InHand, CaptureOnly, TimeoutOnly, ProcessOnly, captureVars,
       timeoutVars, processVars, history, BetweenAdds
<1>0. <<>> \in Text /\ <<>> \in Seq(Text) /\ CountWords(<<>>) < WordLimit
  BY NoWords DEF Text
<1>1. CASE CaptureFails
  BY <1>0, <1>1 DEF CaptureFails
<1>2. CASE CaptureEnds
  BY <1>0, <1>2 DEF CaptureEnds
<1>3. CASE AddHasText
  BY <1>0, <1>3 DEF AddHasText, TimeoutInBuffer
<1>4. CASE AddJoin
  BY <1>0, <1>4 DEF AddJoin
<1>5. CASE AddStore
  <2>1. copy \o fragment \in Text
    BY DEF Text
  <2>2. ToSet(fragment) \subseteq Token
    BY ToSetType
  <2> QED
    BY <1>0, <1>5, <2>1, <2>2 DEF AddStore
<1>6. CASE AddTouch
  BY <1>0, <1>6 DEF AddTouch
<1>7. CASE DrainSplit
  <2>1. CompleteSentences(buffer) \in Seq(Text)
    BY DrainType
  <2>2. UNION {ToSet(s) : s \in {c \in ToSet(CompleteSentences(buffer)) : ~ShouldTranslate(c)}}
          \subseteq Token
    BY <2>1, ToSetType
  <2>3. dropped' \subseteq Token
    BY <1>7, <2>2 DEF DrainSplit
  <2>4. cready' \in Seq(Text) /\ copy' \in Text
    BY <1>7, DrainType DEF DrainSplit
  <2> QED
    BY <1>7, <2>3, <2>4 DEF DrainSplit
<1>8. CASE DrainRemainder
  BY <1>0, <1>8 DEF DrainRemainder
<1>9. CASE DrainLimit
  <2>1. CountWords(buffer) \in Nat /\ WordLimit \in Nat
    BY CountType, WorkerAssumption
  <2>2. cpc' # "guard" => CountWords(buffer) < WordLimit
    BY <1>9, <2>1 DEF DrainLimit
  <2> QED
    BY <1>0, <1>9, <2>2 DEF DrainLimit
<1>10. CASE DrainGuard
  <2>1. ToSet(buffer) \subseteq Token
    BY ToSetType
  <2> QED
    BY <1>10, <2>1 DEF DrainGuard
<1>11. CASE DrainTake
  <2>1. Append(cready, buffer) \in Seq(Text)
    OBVIOUS
  <2> QED
    BY <1>11, <2>1 DEF DrainTake
<1>12. CASE DrainClear
  BY <1>0, <1>12 DEF DrainClear
<1>13. CASE CaptureEmit
  <2>1. Head(cready) \in Text
    BY <1>13 DEF CaptureEmit
  <2> QED
    BY <2>1, <1>13 DEF CaptureEmit, Transcript
<1>14. CASE CapturePut
  <2>1. Head(cready) \in Text /\ Tail(cready) \in Seq(Text)
    BY <1>14 DEF CapturePut
  <2>2. Append(queue, Head(cready)) \in Seq(Text) /\ Append(puts, Head(cready)) \in Seq(Text)
    BY <2>1
  <2> QED
    BY <1>0, <1>14, <2>1, <2>2 DEF CapturePut, Put
<1>15. CASE FinalFlushRead
  BY <1>15 DEF FinalFlushRead, TimeoutInBuffer
<1>16. CASE FinalFlushClear
  <2>1. ToSet(copy) \subseteq Token
    BY ToSetType
  <2>2. <<copy>> \in Seq(Text)
    OBVIOUS
  <2> QED
    BY <1>0, <1>16, <2>1, <2>2 DEF FinalFlushClear
<1>17. CASE FinalFlushTouch
  BY <1>0, <1>17 DEF FinalFlushTouch
<1>18. CASE FinalFlushPut
  <2>1. Head(cready) \in Text /\ Tail(cready) \in Seq(Text)
    BY <1>18 DEF FinalFlushPut
  <2>2. Append(queue, Head(cready)) \in Seq(Text) /\ Append(puts, Head(cready)) \in Seq(Text)
    BY <2>1
  <2> QED
    BY <1>0, <1>18, <2>1, <2>2 DEF FinalFlushPut, Put
<1> QED
  BY <1>1, <1>2, <1>3, <1>4, <1>5, <1>6, <1>7, <1>8, <1>9, <1>10, <1>11, <1>12, <1>13, <1>14, <1>15, <1>16, <1>17, <1>18 DEF CaptureWork

LEMMA TimeoutType == Typed /\ TimeoutWork => Typed'
<1> SUFFICES ASSUME Typed PROVE TimeoutWork => Typed'
  OBVIOUS
<1> USE DEF Typed, TypeOK, InHand, CaptureOnly, TimeoutOnly, ProcessOnly, captureVars,
       timeoutVars, processVars, history, BetweenAdds
<1>0. <<>> \in Text /\ <<>> \in Seq(Text) /\ CountWords(<<>>) < WordLimit
  BY NoWords DEF Text
<1>1. CASE TimeoutLoop
  BY <1>0, <1>1 DEF TimeoutLoop
<1>2. CASE TimeoutHasText
  BY <1>0, <1>2 DEF TimeoutHasText
<1>3. CASE TimeoutAge
  BY <1>0, <1>3 DEF TimeoutAge
<1>4. CASE TimeoutRead
  BY <1>4 DEF TimeoutRead, CaptureInBuffer
<1>5. CASE TimeoutClear
  <2>1. ToSet(text) \subseteq Token
    BY ToSetType
  <2>2. <<text>> \in Seq(Text)
    OBVIOUS
  <2> QED
    BY <1>0, <1>5, <2>1, <2>2 DEF TimeoutClear
<1>6. CASE TimeoutTouch
  BY <1>0, <1>6 DEF TimeoutTouch
<1>7. CASE TimeoutEmit
  <2>1. Head(tready) \in Text
    BY <1>7 DEF TimeoutEmit
  <2> QED
    BY <2>1, <1>7 DEF TimeoutEmit, Transcript
<1>8. CASE TimeoutPut
  <2>1. Head(tready) \in Text /\ Tail(tready) \in Seq(Text)
    BY <1>8 DEF TimeoutPut
  <2>2. Append(queue, Head(tready)) \in Seq(Text) /\ Append(puts, Head(tready)) \in Seq(Text)
    BY <2>1
  <2> QED
    BY <1>0, <1>8, <2>1, <2>2 DEF TimeoutPut, Put
<1> QED
  BY <1>1, <1>2, <1>3, <1>4, <1>5, <1>6, <1>7, <1>8 DEF TimeoutWork

LEMMA ProcessType == Typed /\ ProcessWork => Typed'
<1> SUFFICES ASSUME Typed PROVE ProcessWork => Typed'
  OBVIOUS
<1> USE DEF Typed, TypeOK, InHand, CaptureOnly, TimeoutOnly, ProcessOnly, captureVars,
       timeoutVars, processVars, history, BetweenAdds
<1>0. <<>> \in Text /\ <<>> \in Seq(Text) /\ CountWords(<<>>) < WordLimit
  BY NoWords DEF Text
<1>1. CASE ProcessLoop
  BY <1>0, <1>1 DEF ProcessLoop
<1>2. CASE ProcessGet
  <2>1. Head(queue) \in Text /\ Tail(queue) \in Seq(Text)
    BY <1>2 DEF ProcessGet
  <2> QED
    BY <1>2, <2>1 DEF ProcessGet
<1>3. CASE ProcessEmpty
  BY <1>0, <1>3 DEF ProcessEmpty
<1>4. CASE Translated
  BY <1>0, <1>4 DEF Translated
<1>5. CASE Spoken
  BY <1>0, <1>5 DEF Spoken
<1>6. CASE ProcessFails
  BY <1>0, <1>6 DEF ProcessFails
<1> QED
  BY <1>1, <1>2, <1>3, <1>4, <1>5, <1>6 DEF ProcessWork

LEMMA StepType == Typed /\ [Next]_vars => Typed'
<1> SUFFICES ASSUME Typed, [Next]_vars PROVE Typed'
  OBVIOUS
<1> USE DEF Typed, TypeOK, InHand, BetweenAdds
<1>1. ASSUME NEW kinds \in Fragments, CaptureSegment(kinds)
      PROVE  Typed'
  <2>1. Tokens(kinds, seg + 1) \in Text
    BY TokensType
  <2>2. seg' \in Nat
    BY <1>1 DEF CaptureSegment
  <2> QED
    BY <1>1, <2>1, <2>2 DEF CaptureSegment, CaptureOnly, timeoutVars, processVars, history
<1>2. CASE CaptureWork \/ CaptureFails
  BY <1>2, CaptureType
<1>3. CASE TimeoutWork
  BY <1>3, TimeoutType
<1>4. CASE ProcessWork
  BY <1>4, ProcessType
<1>5. CASE RequestStop
  BY <1>5 DEF RequestStop, captureVars, timeoutVars, processVars, history
<1>6. CASE PauseExceeded
  BY <1>6 DEF PauseExceeded, captureVars, timeoutVars, processVars, history
<1>7. CASE UNCHANGED vars
  BY <1>7 DEF vars, captureVars, timeoutVars, processVars, history
<1> QED
  BY <1>1, <1>2, <1>3, <1>4, <1>5, <1>6, <1>7 DEF Next, Finished

\* The worker's variables keep their types.
THEOREM WorkerTypes == Spec => []TypeOK
<1>1. Typed => TypeOK
  BY DEF Typed
<1> QED
  BY InitType, StepType, <1>1, PTL DEF Spec
-----------------------------------------------------------------------------
(***************************************************************************)
(* The numbering of the sentences.  What the process thread has in hand is *)
(* the counter-th sentence; until it is translated, nothing shown or       *)
(* spoken bears its number, and until it is spoken, nothing newer is shown.*)
(***************************************************************************)
Stages ==
  /\ shown.id <= counter /\ spoken.id <= counter
  /\ ppc = "translate" => shown.id < counter /\ spoken.id < counter
  /\ ppc = "speak" => shown = [id |-> counter, text |-> current] /\ spoken.id < counter

Numbering == Typed /\ NumbersMatchSentences /\ Stages

numberVars == <<queue, puts, processVars, shown, spoken>>

LEMMA InitNumbering == Init => Numbering
<1> SUFFICES ASSUME Init PROVE Numbering
  OBVIOUS
<1>1. Typed
  BY InitType
<1>2. NumbersMatchSentences
  BY DEF Init, NumbersMatchSentences
<1>3. Stages
  BY DEF Init, Stages, NoEvent
<1> QED
  BY <1>1, <1>2, <1>3 DEF Numbering

\* A sentence at the end of the queue is the last one put.
LEMMA PutNumbering ==
  ASSUME Numbering, NEW s \in Text, Put(s), UNCHANGED <<processVars, shown, spoken>>
  PROVE  NumbersMatchSentences' /\ Stages'
<1> USE DEF Numbering, Typed, TypeOK, processVars
<1>1. /\ queue' = Append(queue, s) /\ puts' = Append(puts, s)
      /\ queue \in Seq(Text) /\ puts \in Seq(Text)
      /\ Len(queue') = Len(queue) + 1 /\ Len(puts') = Len(puts) + 1
  BY DEF Put
<1>2. Len(puts') = counter' + Len(queue')
  BY <1>1 DEF NumbersMatchSentences
<1>3. \A i \in 1 .. Len(puts) : puts'[i] = puts[i]
  BY <1>1
<1>4. ASSUME NEW i \in 1 .. Len(queue')
      PROVE  queue'[i] = puts'[counter' + i]
  <2>1. CASE i <= Len(queue)
    <3>1. i \in 1 .. Len(queue) /\ counter + i \in 1 .. Len(puts)
      BY <2>1 DEF NumbersMatchSentences
    <3>2. queue'[i] = queue[i]
      BY <1>1, <3>1
    <3>3. queue[i] = puts[counter + i]
      BY <3>1 DEF NumbersMatchSentences
    <3>4. puts'[counter + i] = puts[counter + i]
      BY <1>3, <3>1
    <3> QED
      BY <3>2, <3>3, <3>4
  <2>2. CASE i = Len(queue) + 1
    <3>1. counter + i = Len(puts) + 1
      BY <2>2 DEF NumbersMatchSentences
    <3>2. queue'[i] = s /\ puts'[counter + i] = s
      BY <1>1, <2>2, <3>1
    <3> QED
      BY <3>2
  <2>3. i <= Len(queue) \/ i = Len(queue) + 1
    BY <1>1
  <2> QED
    BY <2>1, <2>2, <2>3, Zenon
<1>5. ppc' \in {"translate", "speak"} => counter' > 0 /\ current' = puts'[counter']
  <2> SUFFICES ASSUME ppc \in {"translate", "speak"}
               PROVE  counter > 0 /\ current = puts'[counter]
    BY <1>1
  <2>1. counter > 0 /\ current = puts[counter] /\ counter <= Len(puts)
    BY DEF NumbersMatchSentences
  <2>2. counter \in 1 .. Len(puts)
    BY <2>1
  <2> QED
    BY <1>3, <2>1, <2>2, Zenon
<1>6. ASSUME NEW event \in {shown, spoken}, event # NoEvent
      PROVE  event.id \in 1 .. counter /\ event.text = puts'[event.id]
  <2>1. event.id \in 1 .. counter /\ event.text = puts[event.id] /\ counter <= Len(puts)
    BY <1>6 DEF NumbersMatchSentences
  <2>2. event.id \in 1 .. Len(puts)
    BY <2>1
  <2> QED
    BY <1>3, <2>1, <2>2
<1>7. NumbersMatchSentences'
  BY <1>2, <1>4, <1>5, <1>6 DEF NumbersMatchSentences, NoEvent
<1>8. Stages'
  BY DEF Stages
<1> QED
  BY <1>7, <1>8

LEMMA QuietNumbering ==
  Numbering /\ UNCHANGED numberVars => NumbersMatchSentences' /\ Stages'
BY DEF Numbering, numberVars, processVars, NumbersMatchSentences, Stages, NoEvent

LEMMA CaptureNumbering ==
  Numbering /\ (CaptureWork \/ CaptureFails) => NumbersMatchSentences' /\ Stages'
<1> SUFFICES ASSUME Numbering, CaptureWork \/ CaptureFails
             PROVE  NumbersMatchSentences' /\ Stages'
  OBVIOUS
<1>1. ASSUME CapturePut \/ FinalFlushPut
      PROVE  NumbersMatchSentences' /\ Stages'
  <2>1. Put(Head(cready)) /\ UNCHANGED <<processVars, shown, spoken>>
    BY <1>1 DEF CapturePut, FinalFlushPut, CaptureOnly
  <2>2. Head(cready) \in Text
    BY <1>1 DEF CapturePut, FinalFlushPut, Numbering, Typed, TypeOK, InHand
  <2> QED
    BY <2>1, <2>2, PutNumbering
<1>2. ASSUME ~(CapturePut \/ FinalFlushPut)
      PROVE  UNCHANGED numberVars
  BY <1>2 DEF CaptureWork, CaptureFails, CaptureEnds, AddHasText, AddJoin, AddStore, AddTouch,
       DrainSplit, DrainRemainder, DrainLimit, DrainGuard, DrainTake, DrainClear,
       CaptureEmit, Transcript, FinalFlushRead, FinalFlushClear, FinalFlushTouch,
       CaptureOnly, numberVars
<1> QED
  BY <1>1, <1>2, QuietNumbering

LEMMA TimeoutNumbering ==
  Numbering /\ TimeoutWork => NumbersMatchSentences' /\ Stages'
<1> SUFFICES ASSUME Numbering, TimeoutWork
             PROVE  NumbersMatchSentences' /\ Stages'
  OBVIOUS
<1>1. ASSUME TimeoutPut
      PROVE  NumbersMatchSentences' /\ Stages'
  <2>1. Put(Head(tready)) /\ UNCHANGED <<processVars, shown, spoken>>
    BY <1>1 DEF TimeoutPut, TimeoutOnly
  <2>2. Head(tready) \in Text
    BY <1>1 DEF TimeoutPut, Numbering, Typed, TypeOK, InHand
  <2> QED
    BY <2>1, <2>2, PutNumbering
<1>2. ASSUME ~TimeoutPut
      PROVE  UNCHANGED numberVars
  BY <1>2 DEF TimeoutWork, TimeoutLoop, TimeoutHasText, TimeoutAge, TimeoutRead, TimeoutClear,
       TimeoutTouch, TimeoutEmit, Transcript, TimeoutOnly, numberVars
<1> QED
  BY <1>1, <1>2, QuietNumbering

LEMMA ProcessNumbering ==
  Numbering /\ ProcessWork => NumbersMatchSentences' /\ Stages'
<1> SUFFICES ASSUME Numbering, ProcessWork
             PROVE  NumbersMatchSentences' /\ Stages'
  OBVIOUS
<1> USE DEF Numbering, Typed, TypeOK, ProcessOnly, processVars, NoEvent
<1>1. CASE ProcessLoop \/ ProcessEmpty \/ ProcessFails
  BY <1>1 DEF ProcessLoop, ProcessEmpty, ProcessFails, NumbersMatchSentences, Stages
<1>2. CASE ProcessGet
  <2>1. /\ queue # <<>> /\ queue \in Seq(Text) /\ queue' = Tail(queue)
        /\ current' = queue[1] /\ counter' = counter + 1 /\ ppc' = "translate"
        /\ Len(queue') = Len(queue) - 1 /\ Len(queue) >= 1
        /\ UNCHANGED <<puts, shown, spoken>>
    BY <1>2 DEF ProcessGet
  <2>2. \A i \in 1 .. Len(queue') : queue'[i] = queue[i + 1] /\ i + 1 \in 1 .. Len(queue)
    BY <2>1
  <2>3. Len(puts') = counter' + Len(queue')
    <3>1. Len(puts) = counter + Len(queue) /\ counter \in Nat /\ Len(queue) \in Nat
      BY <2>1 DEF NumbersMatchSentences
    <3>2. puts' = puts /\ counter' = counter + 1 /\ Len(queue') = Len(queue) - 1
      BY <2>1
    <3>3. counter' + Len(queue') = counter + Len(queue)
      BY <3>1, <3>2, SMT
    <3>4. Len(puts') = Len(puts)
      BY <3>2, Zenon
    <3> QED
      BY <3>1, <3>3, <3>4, Zenon
  <2>4. \A i \in 1 .. Len(queue') : queue'[i] = puts'[counter' + i]
    <3> SUFFICES ASSUME NEW i \in 1 .. Len(queue')
                 PROVE  queue'[i] = puts'[counter' + i]
      OBVIOUS
    <3>1. i + 1 \in 1 .. Len(queue) /\ queue'[i] = queue[i + 1]
      BY <2>2, Zenon
    <3>2. queue[i + 1] = puts[counter + (i + 1)]
      BY <3>1, Zenon DEF NumbersMatchSentences
    <3>3. i \in Nat /\ counter \in Nat
      OBVIOUS
    <3>4. counter + (i + 1) = counter' + i
      BY <2>1, <3>3
    <3>5. puts' = puts
      BY <2>1
    <3> QED
      BY <3>1, <3>2, <3>4, <3>5, Zenon
  <2>5. counter' > 0 /\ current' = puts'[counter']
    BY <2>1 DEF NumbersMatchSentences
  <2>6. \A event \in {shown', spoken'} :
          event # NoEvent => event.id \in 1 .. counter' /\ event.text = puts'[event.id]
    BY <2>1 DEF NumbersMatchSentences
  <2>7. NumbersMatchSentences'
    BY <2>1, <2>3, <2>4, <2>5, <2>6 DEF NumbersMatchSentences
  <2>8. Stages'
    BY <2>1 DEF Stages
  <2> QED
    BY <2>7, <2>8
<1>3. CASE Translated
  <2>1. NumbersMatchSentences'
    BY <1>3 DEF Translated, NumbersMatchSentences
  <2>2. Stages'
    BY <1>3 DEF Translated, Stages
  <2> QED
    BY <2>1, <2>2
<1>4. CASE Spoken
  <2>1. NumbersMatchSentences'
    BY <1>4 DEF Spoken, NumbersMatchSentences
  <2>2. Stages'
    BY <1>4 DEF Spoken, Stages
  <2> QED
    BY <2>1, <2>2
<1> QED
  BY <1>1, <1>2, <1>3, <1>4 DEF ProcessWork

LEMMA StepNumbering == Numbering /\ [Next]_vars => Numbering'
<1> SUFFICES ASSUME Numbering, [Next]_vars PROVE Numbering'
  OBVIOUS
<1>0. Typed'
  BY StepType DEF Numbering
<1>1. ASSUME NEW kinds \in Fragments, CaptureSegment(kinds)
      PROVE  UNCHANGED numberVars
  BY <1>1 DEF CaptureSegment, CaptureOnly, numberVars
<1>2. CASE CaptureWork \/ CaptureFails
  BY <1>0, <1>2, CaptureNumbering DEF Numbering
<1>3. CASE TimeoutWork
  BY <1>0, <1>3, TimeoutNumbering DEF Numbering
<1>4. CASE ProcessWork
  BY <1>0, <1>4, ProcessNumbering DEF Numbering
<1>5. ASSUME RequestStop \/ PauseExceeded \/ UNCHANGED vars
      PROVE  UNCHANGED numberVars
  BY <1>5 DEF RequestStop, PauseExceeded, vars, numberVars
<1>6. ASSUME UNCHANGED numberVars
      PROVE  Numbering'
  BY <1>0, <1>6, QuietNumbering DEF Numbering
<1> QED
  BY <1>1, <1>2, <1>3, <1>4, <1>5, <1>6 DEF Next, Finished

\* Every event carries the text of the sentence whose number it bears, and no
\* sentence is skipped or taken twice, whatever fails (_process_sentence).
THEOREM WorkerNumbers == Spec => []NumbersMatchSentences
<1>1. Numbering => NumbersMatchSentences
  BY DEF Numbering
<1> QED
  BY InitNumbering, StepNumbering, <1>1, PTL DEF Spec

\* Each sentence is shown at most once and in order, and spoken right after it
\* is shown, before any other is.
THEOREM WorkerSpeech == Spec => SpeechFollowsTranslation
<1> DEFINE Step == /\ shown' # shown => shown'.id > shown.id /\ shown'.id > spoken.id
                   /\ spoken' # spoken => spoken'.id > spoken.id /\ spoken' = shown
<1>1. Numbering /\ [Next]_vars => [Step]_vars
  <2> SUFFICES ASSUME Numbering, [Next]_vars PROVE Step
    OBVIOUS
  <2>1. CASE Translated
    BY <2>1 DEF Translated, Numbering, Stages, Typed, TypeOK
  <2>2. CASE Spoken
    BY <2>2 DEF Spoken, Numbering, Stages, Typed, TypeOK
  <2>3. ASSUME ~(Translated \/ Spoken)
        PROVE  UNCHANGED <<shown, spoken>>
    <3>1. ASSUME NEW kinds \in Fragments, CaptureSegment(kinds)
          PROVE  UNCHANGED <<shown, spoken>>
      BY <3>1 DEF CaptureSegment
    <3>2. CaptureWork \/ CaptureFails => UNCHANGED <<shown, spoken>>
      BY DEF CaptureWork, CaptureFails, CaptureEnds, AddHasText, AddJoin, AddStore, AddTouch,
           DrainSplit, DrainRemainder, DrainLimit, DrainGuard, DrainTake, DrainClear,
           CaptureEmit, CapturePut, FinalFlushRead, FinalFlushClear, FinalFlushTouch, FinalFlushPut
    <3>3. TimeoutWork => UNCHANGED <<shown, spoken>>
      BY DEF TimeoutWork, TimeoutLoop, TimeoutHasText, TimeoutAge, TimeoutRead, TimeoutClear,
           TimeoutTouch, TimeoutEmit, TimeoutPut
    <3>4. ProcessWork => UNCHANGED <<shown, spoken>>
      BY <2>3 DEF ProcessWork, ProcessLoop, ProcessGet, ProcessEmpty, ProcessFails
    <3>5. RequestStop \/ PauseExceeded \/ UNCHANGED vars => UNCHANGED <<shown, spoken>>
      BY DEF RequestStop, PauseExceeded, vars
    <3> QED
      BY <3>1, <3>2, <3>3, <3>4, <3>5 DEF Next, Finished
  <2> QED
    BY <2>1, <2>2, <2>3
<1>2. Spec => [][Step]_vars
  BY InitNumbering, StepNumbering, <1>1, PTL DEF Spec
<1> QED
  BY <1>2 DEF SpeechFollowsTranslation

-----------------------------------------------------------------------------
(***************************************************************************)
(* The order of the words.  A text that was spoken up to segment n has its *)
(* tokens in the order they were spoken, none later than n.  The fragment  *)
(* of the last segment is joined to what is older than it, whatever the    *)
(* flush of the other thread takes away in between.                        *)
(***************************************************************************)
SpokenUpTo(n) ==
  {s \in Text : /\ \A i \in 1 .. Len(s) : s[i].seg <= n
                /\ \A i, j \in 1 .. Len(s) :
                     i < j => \/ s[i].seg < s[j].seg
                              \/ s[i].seg = s[j].seg /\ s[i].pos < s[j].pos}

\* The words of segment n, in the order they were spoken.
SpokenAt(n) == {s \in SpokenUpTo(n) : \A i \in 1 .. Len(s) : s[i].seg = n}

InSpeechOrder ==
  /\ buffer \in SpokenUpTo(seg) /\ copy \in SpokenUpTo(seg) /\ text \in SpokenUpTo(seg)
  /\ cready \in Seq(SpokenUpTo(seg)) /\ tready \in Seq(SpokenUpTo(seg))
  /\ puts \in Seq(SpokenUpTo(seg))
  /\ cpc \in {"hasText", "join", "store"} =>
       /\ fragment \in SpokenAt(seg)
       /\ buffer \in SpokenUpTo(seg - 1) /\ copy \in SpokenUpTo(seg - 1)

Ordered == Typed /\ InSpeechOrder

LEMMA EmptySpoken == \A n : <<>> \in SpokenUpTo(n) /\ <<>> \in Seq(SpokenUpTo(n))
  BY DEF SpokenUpTo, Text

\* Every token of a text knows the segment it was spoken in.
LEMMA SegType == \A s \in Seq(Token) : \A i \in 1 .. Len(s) : s[i].seg \in Nat
<1>1. \A s \in Seq(Token) : \A i \in 1 .. Len(s) : s[i] \in Token
  OBVIOUS
<1> QED
  BY <1>1 DEF Token

\* What was spoken up to an earlier segment was spoken up to a later one.
LEMMA LaterSpoken ==
  ASSUME NEW m \in Int, NEW n \in Int, m <= n
  PROVE  SpokenUpTo(m) \subseteq SpokenUpTo(n) /\ Seq(SpokenUpTo(m)) \subseteq Seq(SpokenUpTo(n))
<1>1. ASSUME NEW s \in SpokenUpTo(m)
      PROVE  s \in SpokenUpTo(n)
  <2>0. s \in Seq(Token) /\ \A i \in 1 .. Len(s) : s[i].seg <= m
    BY DEF SpokenUpTo, Text
  <2>1. s \in Text /\ \A i \in 1 .. Len(s) : s[i].seg \in Nat /\ s[i].seg <= m
    BY <2>0, SegType DEF Text
  <2>2. \A i \in 1 .. Len(s) : s[i].seg <= n
    BY <2>1
  <2> QED
    BY <2>1, <2>2 DEF SpokenUpTo
<1>2. SpokenUpTo(m) \subseteq SpokenUpTo(n)
  BY <1>1
<1>3. \A A, B : A \subseteq B => Seq(A) \subseteq Seq(B)
  OBVIOUS
<1> QED
  BY <1>2, <1>3

\* A part of a text is in the order of the text.
LEMMA PartSpoken ==
  ASSUME NEW n \in Int, NEW t \in SpokenUpTo(n), NEW a \in 0 .. Len(t), NEW b \in 0 .. Len(t)
  PROVE  SubSeq(t, a + 1, b) \in SpokenUpTo(n)
<1> DEFINE u == SubSeq(t, a + 1, b)
<1>1. t \in Seq(Token) /\ Len(t) \in Nat
  BY DEF SpokenUpTo, Text
<1>2. u \in Seq(Token)
  BY <1>1
<1>3. \A i \in 1 .. Len(u) : u[i] = t[a + i] /\ a + i \in 1 .. Len(t)
  BY <1>1
<1> HIDE DEF u
<1>4. \A i \in 1 .. Len(u) : u[i].seg <= n
  BY <1>3 DEF SpokenUpTo
<1>5. ASSUME NEW i \in 1 .. Len(u), NEW j \in 1 .. Len(u), i < j
      PROVE  u[i].seg < u[j].seg \/ (u[i].seg = u[j].seg /\ u[i].pos < u[j].pos)
  <2>1. a + i < a + j /\ a + i \in 1 .. Len(t) /\ a + j \in 1 .. Len(t)
    BY <1>3, <1>5
  <2>2. u[i] = t[a + i] /\ u[j] = t[a + j]
    BY <1>3
  <2> QED
    BY <2>1, <2>2 DEF SpokenUpTo
<1>6. u \in SpokenUpTo(n)
  BY <1>2, <1>4, <1>5 DEF SpokenUpTo, Text
<1> QED
  BY <1>6 DEF u

\* So are the sentences it is split into, those that pass the guard, and the tail.
LEMMA DrainSpoken ==
  ASSUME NEW n \in Int, NEW t \in SpokenUpTo(n)
  PROVE  /\ Translatable(CompleteSentences(t)) \in Seq(SpokenUpTo(n))
         /\ Remainder(t) \in SpokenUpTo(n)
<1> DEFINE c == Cardinality(Marks(t))
<1>1. t \in Seq(Token) /\ Len(t) \in Nat
  BY DEF SpokenUpTo, Text
<1>2. c \in Nat
  <2>1. IsFiniteSet(1 .. Len(t))
    BY <1>1, FS_Interval
  <2>2. IsFiniteSet(Marks(t))
    BY <2>1, FS_Subset DEF Marks
  <2> QED
    BY <2>2, FS_CardinalityType
<1> HIDE DEF c
<1>3. \A k \in Int : SentenceEnd(t, k) \in 0 .. Len(t)
  BY <1>1, NthBound DEF SentenceEnd
<1>4. ASSUME NEW k \in 1 .. c
      PROVE  SubSeq(t, SentenceEnd(t, k - 1) + 1, SentenceEnd(t, k)) \in SpokenUpTo(n)
  <2>1. SentenceEnd(t, k - 1) \in 0 .. Len(t) /\ SentenceEnd(t, k) \in 0 .. Len(t)
    BY <1>2, <1>3
  <2> QED
    BY <2>1, PartSpoken
<1>5. CompleteSentences(t) \in [1 .. c -> SpokenUpTo(n)]
  BY <1>4 DEF CompleteSentences, c
<1>6. \A T : \A f \in [1 .. c -> T] : f \in Seq(T)
  BY <1>2
<1>7. CompleteSentences(t) \in Seq(SpokenUpTo(n))
  BY <1>5, <1>6
<1>8. Translatable(CompleteSentences(t)) \in Seq(SpokenUpTo(n))
  BY <1>7, TranslatableType
<1>9. Remainder(t) \in SpokenUpTo(n)
  <2>1. SentenceEnd(t, c) \in 0 .. Len(t) /\ Len(t) \in 0 .. Len(t)
    BY <1>1, <1>2, <1>3
  <2>2. SubSeq(t, SentenceEnd(t, c) + 1, Len(t)) \in SpokenUpTo(n)
    BY <2>1, PartSpoken
  <2> QED
    BY <2>2 DEF Remainder, c
<1> QED
  BY <1>8, <1>9

\* The words of a segment after what was spoken before it.
LEMMA JoinSpoken ==
  ASSUME NEW n \in Int, NEW s \in SpokenUpTo(n - 1), NEW t \in SpokenAt(n)
  PROVE  s \o t \in SpokenUpTo(n)
<1> DEFINE u == s \o t
<1>0. /\ s \in Seq(Token) /\ t \in Seq(Token)
      /\ \A i \in 1 .. Len(s) : s[i].seg <= n - 1
      /\ \A i \in 1 .. Len(t) : t[i].seg = n
  BY DEF SpokenUpTo, SpokenAt, Text
<1>1. /\ s \in Seq(Token) /\ t \in Seq(Token)
      /\ \A i \in 1 .. Len(s) : s[i].seg <= n - 1 /\ s[i].seg \in Nat
      /\ \A i \in 1 .. Len(t) : t[i].seg = n
  BY <1>0, SegType
<1>2. u \in Seq(Token) /\ Len(u) = Len(s) + Len(t) /\ Len(s) \in Nat /\ Len(t) \in Nat
  BY <1>1
<1>3. ASSUME NEW i \in 1 .. Len(u)
      PROVE  \/ i \in 1 .. Len(s) /\ u[i] = s[i]
             \/ i > Len(s) /\ i - Len(s) \in 1 .. Len(t) /\ u[i] = t[i - Len(s)]
  BY <1>1, <1>2
<1> HIDE DEF u
<1>4. ASSUME NEW i \in 1 .. Len(u)
      PROVE  u[i].seg <= n
  <2>1. CASE i \in 1 .. Len(s) /\ u[i] = s[i]
    <3>1. s[i].seg <= n - 1 /\ s[i].seg \in Nat
      BY <2>1, <1>1
    <3> QED
      BY <2>1, <3>1
  <2>2. CASE i - Len(s) \in 1 .. Len(t) /\ u[i] = t[i - Len(s)]
    BY <2>2, <1>1
  <2> QED
    BY <1>3, <2>1, <2>2
<1>5. ASSUME NEW i \in 1 .. Len(u), NEW j \in 1 .. Len(u), i < j
      PROVE  u[i].seg < u[j].seg \/ (u[i].seg = u[j].seg /\ u[i].pos < u[j].pos)
  <2>1. CASE j \in 1 .. Len(s) /\ u[j] = s[j]
    <3>1. i \in 1 .. Len(s) /\ u[i] = s[i]
      BY <1>2, <1>3, <1>5, <2>1
    <3> QED
      BY <1>5, <2>1, <3>1 DEF SpokenUpTo
  <2>2. CASE j > Len(s) /\ j - Len(s) \in 1 .. Len(t) /\ u[j] = t[j - Len(s)]
    <3>1. CASE i \in 1 .. Len(s) /\ u[i] = s[i]
      <4>1. s[i].seg <= n - 1 /\ s[i].seg \in Nat /\ t[j - Len(s)].seg = n
        BY <1>1, <2>2, <3>1
      <4>2. s[i].seg < t[j - Len(s)].seg
        BY <4>1
      <4> QED
        BY <2>2, <3>1, <4>2
    <3>2. CASE i > Len(s) /\ i - Len(s) \in 1 .. Len(t) /\ u[i] = t[i - Len(s)]
      <4>1. i - Len(s) < j - Len(s)
        BY <1>2, <1>5
      <4> QED
        BY <2>2, <3>2, <4>1 DEF SpokenAt, SpokenUpTo
    <3> QED
      BY <1>3, <3>1, <3>2
  <2> QED
    BY <1>3, <2>1, <2>2
<1>6. u \in SpokenUpTo(n)
  BY <1>2, <1>4, <1>5 DEF SpokenUpTo, Text
<1> QED
  BY <1>6 DEF u

\* What speech-to-text returns for segment n was spoken then, word by word.
LEMMA TokensSpoken ==
  ASSUME NEW kinds \in Fragments, NEW n \in Nat
  PROVE  Tokens(kinds, n) \in SpokenAt(n)
<1>1. kinds \in Seq(STRING)
  BY WorkerAssumption
<1>2. Tokens(kinds, n) \in Text /\ Len(Tokens(kinds, n)) = Len(kinds)
  BY <1>1, TokensType DEF Tokens
<1>3. \A i \in 1 .. Len(kinds) : Tokens(kinds, n)[i].seg = n /\ Tokens(kinds, n)[i].pos = i
  BY DEF Tokens
<1> QED
  BY <1>2, <1>3 DEF SpokenAt, SpokenUpTo

LEMMA InitOrder == Init => Ordered
<1> SUFFICES ASSUME Init PROVE Ordered
  OBVIOUS
<1>1. Typed
  BY InitType
<1>2. InSpeechOrder
  BY EmptySpoken DEF Init, InSpeechOrder
<1> QED
  BY <1>1, <1>2 DEF Ordered

\* The sentence at the head of a list was spoken in order; so was the rest.
LEMMA HeadSpoken ==
  ASSUME NEW l \in Seq(SpokenUpTo(seg)), l # <<>>, NEW p \in Seq(SpokenUpTo(seg))
  PROVE  Tail(l) \in Seq(SpokenUpTo(seg)) /\ Append(p, Head(l)) \in Seq(SpokenUpTo(seg))
<1>1. Head(l) \in SpokenUpTo(seg) /\ Tail(l) \in Seq(SpokenUpTo(seg))
  OBVIOUS
<1> QED
  BY <1>1

\* Listening: what was spoken before is older than the segment that comes.
LEMMA SegmentOrder ==
  ASSUME Ordered, NEW kinds \in Fragments, CaptureSegment(kinds)
  PROVE  InSpeechOrder'
<1> USE DEF Ordered, Typed, TypeOK, InSpeechOrder
<1>1. seg \in Nat /\ seg' = seg + 1 /\ seg' - 1 = seg
  BY LimitType DEF CaptureSegment
<1>2. SpokenUpTo(seg) \subseteq SpokenUpTo(seg') /\ Seq(SpokenUpTo(seg)) \subseteq Seq(SpokenUpTo(seg'))
  BY <1>1, LaterSpoken
<1>3. fragment' \in SpokenAt(seg')
  BY <1>1, TokensSpoken DEF CaptureSegment
<1> QED
  BY <1>1, <1>2, <1>3 DEF CaptureSegment, CaptureOnly, timeoutVars

LEMMA CaptureOrder ==
  Ordered /\ (CaptureWork \/ CaptureFails) => InSpeechOrder'
<1> SUFFICES ASSUME Ordered, CaptureWork \/ CaptureFails PROVE InSpeechOrder'
  OBVIOUS
<1> USE EmptySpoken DEF Ordered, InSpeechOrder, CaptureOnly, timeoutVars
<1>0. seg \in Nat
  BY LimitType DEF Typed, TypeOK
<1>1. CASE CaptureFails
  BY <1>1 DEF CaptureFails
<1>2. CASE CaptureEnds
  BY <1>2 DEF CaptureEnds
<1>3. CASE AddHasText
  BY <1>3 DEF AddHasText
<1>4. CASE AddJoin
  BY <1>4 DEF AddJoin
<1>5. CASE AddStore
  <2>1. copy \o fragment \in SpokenUpTo(seg)
    BY <1>0, <1>5, JoinSpoken DEF AddStore
  <2> QED
    BY <1>5, <2>1 DEF AddStore
<1>6. CASE AddTouch
  BY <1>6 DEF AddTouch
<1>7. CASE DrainSplit
  <2>1. cready' \in Seq(SpokenUpTo(seg)) /\ copy' \in SpokenUpTo(seg)
    BY <1>0, <1>7, DrainSpoken DEF DrainSplit
  <2> QED
    BY <1>7, <2>1 DEF DrainSplit
<1>8. CASE DrainRemainder
  BY <1>8 DEF DrainRemainder
<1>9. CASE DrainLimit
  BY <1>9 DEF DrainLimit
<1>10. CASE DrainGuard
  BY <1>10 DEF DrainGuard
<1>11. CASE DrainTake
  <2>1. Append(cready, buffer) \in Seq(SpokenUpTo(seg))
    OBVIOUS
  <2> QED
    BY <1>11, <2>1 DEF DrainTake
<1>12. CASE DrainClear
  BY <1>12 DEF DrainClear
<1>13. CASE CaptureEmit
  BY <1>13 DEF CaptureEmit
<1>14. CASE CapturePut
  <2>1. cready # <<>>
    BY <1>14 DEF CapturePut, Typed, InHand
  <2>2. Tail(cready) \in Seq(SpokenUpTo(seg)) /\ Append(puts, Head(cready)) \in Seq(SpokenUpTo(seg))
    BY <2>1, HeadSpoken
  <2> QED
    BY <1>14, <2>2 DEF CapturePut, Put
<1>15. CASE FinalFlushRead
  BY <1>15 DEF FinalFlushRead
<1>16. CASE FinalFlushClear
  <2>1. <<copy>> \in Seq(SpokenUpTo(seg))
    OBVIOUS
  <2> QED
    BY <1>16, <2>1 DEF FinalFlushClear
<1>17. CASE FinalFlushTouch
  BY <1>17 DEF FinalFlushTouch
<1>18. CASE FinalFlushPut
  <2>1. cready # <<>>
    BY <1>18 DEF FinalFlushPut, Typed, InHand
  <2>2. Append(puts, Head(cready)) \in Seq(SpokenUpTo(seg))
    BY <2>1, HeadSpoken
  <2> QED
    BY <1>18, <2>2 DEF FinalFlushPut, Put
<1> QED
  BY <1>1, <1>2, <1>3, <1>4, <1>5, <1>6, <1>7, <1>8, <1>9, <1>10, <1>11, <1>12, <1>13, <1>14, <1>15, <1>16, <1>17, <1>18 DEF CaptureWork

LEMMA TimeoutOrder == Ordered /\ TimeoutWork => InSpeechOrder'
<1> SUFFICES ASSUME Ordered, TimeoutWork PROVE InSpeechOrder'
  OBVIOUS
<1> USE EmptySpoken DEF Ordered, InSpeechOrder, TimeoutOnly, captureVars
<1>1. CASE TimeoutLoop
  BY <1>1 DEF TimeoutLoop
<1>2. CASE TimeoutHasText
  BY <1>2 DEF TimeoutHasText
<1>3. CASE TimeoutAge
  BY <1>3 DEF TimeoutAge
<1>4. CASE TimeoutRead
  BY <1>4 DEF TimeoutRead
<1>5. CASE TimeoutClear
  <2>1. <<text>> \in Seq(SpokenUpTo(seg))
    OBVIOUS
  <2> QED
    BY <1>5, <2>1 DEF TimeoutClear
<1>6. CASE TimeoutTouch
  BY <1>6 DEF TimeoutTouch
<1>7. CASE TimeoutEmit
  BY <1>7 DEF TimeoutEmit
<1>8. CASE TimeoutPut
  <2>1. tready # <<>>
    BY <1>8 DEF TimeoutPut, Typed, InHand
  <2>2. Append(puts, Head(tready)) \in Seq(SpokenUpTo(seg))
    BY <2>1, HeadSpoken
  <2> QED
    BY <1>8, <2>2 DEF TimeoutPut, Put
<1> QED
  BY <1>1, <1>2, <1>3, <1>4, <1>5, <1>6, <1>7, <1>8 DEF TimeoutWork

LEMMA StepOrder == Ordered /\ [Next]_vars => Ordered'
<1> SUFFICES ASSUME Ordered, [Next]_vars PROVE InSpeechOrder'
  BY StepType DEF Ordered
<1>1. ASSUME NEW kinds \in Fragments, CaptureSegment(kinds)
      PROVE  InSpeechOrder'
  BY <1>1, SegmentOrder
<1>2. CASE CaptureWork \/ CaptureFails
  BY <1>2, CaptureOrder
<1>3. CASE TimeoutWork
  BY <1>3, TimeoutOrder
<1>4. ASSUME ProcessWork \/ RequestStop \/ PauseExceeded \/ UNCHANGED vars
      PROVE  UNCHANGED <<buffer, captureVars, timeoutVars, puts>>
  <2>1. ProcessWork => UNCHANGED <<buffer, captureVars, timeoutVars, puts>>
    BY DEF ProcessWork, ProcessLoop, ProcessGet, ProcessEmpty, Translated, Spoken, ProcessFails, ProcessOnly
  <2> QED
    BY <1>4, <2>1 DEF RequestStop, PauseExceeded, vars
<1>5. ASSUME UNCHANGED <<buffer, captureVars, timeoutVars, puts>>
      PROVE  InSpeechOrder'
  BY <1>5 DEF Ordered, InSpeechOrder, captureVars, timeoutVars
<1> QED
  BY <1>1, <1>2, <1>3, <1>4, <1>5 DEF Next, Finished

\* What a sentence says is in the order it was spoken, however a flush of the
\* timeout thread and an add of the capture thread interleave.
THEOREM WorkerOrder == Spec => []WordsInSpeechOrder
<1>1. Ordered => WordsInSpeechOrder
  <2> SUFFICES ASSUME Ordered, NEW s \in ToSet(puts)
               PROVE  s \in SpokenUpTo(seg)
    BY DEF WordsInSpeechOrder, SpokenUpTo
  <2>1. puts \in Seq(SpokenUpTo(seg))
    BY DEF Ordered, InSpeechOrder
  <2> QED
    BY <2>1 DEF ToSet
<1> QED
  BY InitOrder, StepOrder, <1>1, PTL DEF Spec

-----------------------------------------------------------------------------
(***************************************************************************)
(* Nothing accepted is lost or doubled while the flushes and the adds do   *)
(* not come between each other's accesses.  Then at most one of the two is *)
(* inside the buffer, what it has read is still what the buffer holds, and *)
(* each accepted token is queued, on its way there in one of the two       *)
(* threads' lists, pending or rejected.                                    *)
(***************************************************************************)

\* What is still to be released: after the split that is the tail alone, and
\* nothing once the buffer at the word limit has been taken or rejected.
Pending == IF cpc = "remainder" THEN copy ELSE IF cpc = "clear" THEN <<>> ELSE buffer

\* A thread fills its list only when the list is empty.
Filled ==
  /\ cpc \in {"listen", "hasText", "limit", "guard", "take", "clear", "emit", "put"} => copy = <<>>
  /\ cpc \in {"listen", "hasText", "join", "store", "touch", "split", "flushRead", "flushClear", "done"}
       => cready = <<>>
  /\ cpc \in {"flushTouch", "flushPut"} => Len(cready) <= 1
  /\ tpc \in {"loop", "awake", "age", "read", "clear", "done"} => tready = <<>>
  /\ Len(tready) <= 1

\* The fragment in hand was spoken after everything that was accepted.
Older ==
  /\ \A token \in accepted : token.seg <= seg
  /\ cpc \in {"hasText", "join", "store"} => \A token \in accepted : token.seg < seg

Alone ==
  /\ ~(CaptureInBuffer /\ TimeoutInBuffer)
  /\ tpc = "clear" => text = buffer
  /\ cpc \in {"store", "flushClear"} => copy = buffer

InOnePlace(all, p, c, t, b, d) ==
  /\ all = p \cup c \cup t \cup b \cup d
  /\ p \cap (c \cup t \cup b \cup d) = {}
  /\ c \cap (t \cup b \cup d) = {}
  /\ t \cap (b \cup d) = {}
  /\ b \cap d = {}

Accounted ==
  /\ InOnePlace(accepted, AllTokens(puts), AllTokens(cready), AllTokens(tready),
                ToSet(Pending), dropped)
  /\ Apart(puts) /\ Apart(cready)

Kept ==
  /\ Ordered /\ Filled /\ Older
  /\ ~overlapped => Alone /\ Accounted

LEMMA InitKept == Init => Kept
<1> SUFFICES ASSUME Init PROVE Kept
  OBVIOUS
<1>1. Ordered
  BY InitOrder
<1>2. Filled /\ Older
  BY DEF Init, Filled, Older
<1>3. Alone
  BY DEF Init, Alone, CaptureInBuffer, TimeoutInBuffer
<1>4. Accounted
  <2>1. /\ puts = <<>> /\ cready = <<>> /\ tready = <<>> /\ Pending = <<>>
        /\ accepted = {} /\ dropped = {}
    BY DEF Init, Pending
  <2>2. ToSet(<<>>) = {}
    BY DEF ToSet
  <2> QED
    BY <2>1, <2>2, SingleTokens DEF Accounted, InOnePlace
<1> QED
  BY <1>1, <1>2, <1>3, <1>4 DEF Kept

\* What the steps that move tokens do to the five places.
LEMMA Moves ==
  ASSUME NEW a, NEW p, NEW c, NEW t, NEW b, NEW d, InOnePlace(a, p, c, t, b, d)
  PROVE  /\ \A f : f \cap a = {} => InOnePlace(a \cup f, p, c, t, b \cup f, d)
         /\ InOnePlace(a, p, c \cup b, t, {}, d)
         /\ InOnePlace(a, p, c, t \cup b, {}, d)
         /\ InOnePlace(a, p, c, t, {}, d \cup b)
         /\ \A h, r : c = h \cup r /\ h \cap r = {} => InOnePlace(a, p \cup h, r, t, b, d)
         /\ \A h, r : t = h \cup r /\ h \cap r = {} => InOnePlace(a, p \cup h, c, r, b, d)
<1>1. /\ InOnePlace(a, p, c \cup b, t, {}, d)
      /\ InOnePlace(a, p, c, t \cup b, {}, d)
      /\ InOnePlace(a, p, c, t, {}, d \cup b)
  BY DEF InOnePlace
<1>2. ASSUME NEW f, f \cap a = {}
      PROVE  InOnePlace(a \cup f, p, c, t, b \cup f, d)
  BY <1>2 DEF InOnePlace
<1>3. ASSUME NEW h, NEW r, c = h \cup r, h \cap r = {}
      PROVE  InOnePlace(a, p \cup h, r, t, b, d)
  BY <1>3 DEF InOnePlace
<1>4. ASSUME NEW h, NEW r, t = h \cup r, h \cap r = {}
      PROVE  InOnePlace(a, p \cup h, c, r, b, d)
  BY <1>4 DEF InOnePlace
<1> QED
  BY <1>1, <1>2, <1>3, <1>4

\* The split: the pending text falls into sentences kept, sentences refused and a tail.
LEMMA SplitMoves ==
  ASSUME NEW a, NEW p, NEW t, NEW b, NEW d, InOnePlace(a, p, {}, t, b, d),
         NEW kept, NEW refused, NEW tail, b = kept \cup refused \cup tail,
         kept \cap refused = {}, (kept \cup refused) \cap tail = {}
  PROVE  InOnePlace(a, p, kept, t, tail, d \cup refused)
BY DEF InOnePlace

\* Words in speech order are all different.
LEMMA SpokenDistinct ==
  ASSUME NEW n \in Int, NEW s \in SpokenUpTo(n)
  PROVE  Distinct(s)
<1>1. \A i \in 1 .. Len(s) : s[i].seg \in Nat /\ s[i].pos \in Nat
  <2>1. \A i \in 1 .. Len(s) : s[i] \in Token
    BY DEF SpokenUpTo, Text
  <2> QED
    BY <2>1 DEF Token
<1>2. \A i, j \in 1 .. Len(s) : i < j => s[i] # s[j]
  <2> SUFFICES ASSUME NEW i \in 1 .. Len(s), NEW j \in 1 .. Len(s), i < j, s[i] = s[j]
               PROVE  FALSE
    OBVIOUS
  <2>1. s[i].seg < s[j].seg \/ (s[i].seg = s[j].seg /\ s[i].pos < s[j].pos)
    BY DEF SpokenUpTo
  <2> QED
    BY <1>1, <2>1
<1>3. \A i, j \in 1 .. Len(s) : i = j \/ i < j \/ j < i
  OBVIOUS
<1> QED
  BY <1>2, <1>3 DEF Distinct

\* Steps that move no token.
LEMMA QuietAccounted ==
  ASSUME Accounted, Pending' = Pending, UNCHANGED <<puts, cready, tready, accepted, dropped>>
  PROVE  Accounted'
BY DEF Accounted

-----------------------------------------------------------------------------
LEMMA SegmentKept ==
  ASSUME Kept, NEW kinds \in Fragments, CaptureSegment(kinds)
  PROVE  Filled' /\ Older' /\ (~overlapped' => Alone' /\ Accounted')
<1> USE DEF CaptureSegment, CaptureOnly, timeoutVars, history
<1>1. Filled'
  BY DEF Kept, Filled
<1>2. Older'
  <2>1. seg \in Nat /\ \A token \in accepted : token.seg \in Nat
    BY LimitType DEF Kept, Ordered, Typed, TypeOK, Token
  <2>2. seg' = seg + 1 /\ accepted' = accepted
    OBVIOUS
  <2>3. \A token \in accepted : token.seg <= seg
    BY DEF Kept, Older
  <2>4. \A token \in accepted : token.seg < seg + 1 /\ token.seg <= seg + 1
    BY <2>1, <2>3
  <2> QED
    BY <2>2, <2>4 DEF Older
<1>3. ~overlapped' => Alone'
  BY DEF Kept, Alone, CaptureInBuffer, TimeoutInBuffer
<1>4. ~overlapped' => Accounted'
  <2>1. Pending' = Pending
    BY DEF Pending
  <2> QED
    BY <2>1, QuietAccounted DEF Kept
<1> QED
  BY <1>1, <1>2, <1>3, <1>4

LEMMA CaptureFilled ==
  Kept /\ (CaptureWork \/ CaptureFails) => Filled'
<1> SUFFICES ASSUME Kept, CaptureWork \/ CaptureFails PROVE Filled'
  OBVIOUS
<1> USE DEF Kept, Filled, CaptureOnly, timeoutVars
<1>0. tready' = tready /\ tpc' = tpc
  BY DEF CaptureWork, CaptureFails, CaptureEnds, AddHasText, AddJoin, AddStore, AddTouch,
       DrainSplit, DrainRemainder, DrainLimit, DrainGuard, DrainTake, DrainClear,
       CaptureEmit, CapturePut, FinalFlushRead, FinalFlushClear, FinalFlushTouch, FinalFlushPut
<1>1. CASE CaptureFails
  BY <1>0, <1>1 DEF CaptureFails
<1>2. CASE CaptureEnds
  BY <1>0, <1>2 DEF CaptureEnds
<1>3. CASE AddHasText
  BY <1>0, <1>3 DEF AddHasText
<1>4. CASE AddJoin
  BY <1>0, <1>4 DEF AddJoin
<1>5. CASE AddStore
  BY <1>0, <1>5 DEF AddStore
<1>6. CASE AddTouch
  BY <1>0, <1>6 DEF AddTouch
<1>7. CASE DrainSplit
  BY <1>0, <1>7 DEF DrainSplit
<1>8. CASE DrainRemainder
  BY <1>0, <1>8 DEF DrainRemainder
<1>9. CASE DrainLimit
  BY <1>0, <1>9 DEF DrainLimit
<1>10. CASE DrainGuard
  BY <1>0, <1>10 DEF DrainGuard
<1>11. CASE DrainTake
  BY <1>0, <1>11 DEF DrainTake
<1>12. CASE DrainClear
  BY <1>0, <1>12 DEF DrainClear
<1>13. CASE CaptureEmit
  BY <1>0, <1>13 DEF CaptureEmit
<1>14. CASE CapturePut
  BY <1>0, <1>14 DEF CapturePut
<1>15. CASE FinalFlushRead
  BY <1>0, <1>15 DEF FinalFlushRead
<1>16. CASE FinalFlushClear
  <2>1. Len(<<copy>>) <= 1 /\ Len(<<>>) <= 1
    OBVIOUS
  <2>2. Len(cready') <= 1
    BY <1>16, <2>1 DEF FinalFlushClear
  <2> QED
    BY <1>0, <1>16, <2>2 DEF FinalFlushClear
<1>17. CASE FinalFlushTouch
  BY <1>0, <1>17 DEF FinalFlushTouch
<1>18. CASE FinalFlushPut
  BY <1>0, <1>18 DEF FinalFlushPut
<1> QED
  BY <1>1, <1>2, <1>3, <1>4, <1>5, <1>6, <1>7, <1>8, <1>9, <1>10, <1>11, <1>12, <1>13, <1>14, <1>15, <1>16, <1>17, <1>18 DEF CaptureWork

LEMMA CaptureOlder ==
  Kept /\ (CaptureWork \/ CaptureFails) => Older'
<1> SUFFICES ASSUME Kept, CaptureWork \/ CaptureFails PROVE Older'
  OBVIOUS
<1>1. CASE AddStore
  <2>1. /\ accepted' = accepted \cup ToSet(fragment) /\ seg' = seg /\ cpc' = "touch"
        /\ cpc = "store"
    BY <1>1 DEF AddStore
  <2>2. \A token \in ToSet(fragment) : token.seg <= seg
    <3>1. fragment \in SpokenUpTo(seg)
      BY <2>1 DEF Kept, Ordered, InSpeechOrder, SpokenAt
    <3>2. \A i \in 1 .. Len(fragment) : fragment[i].seg <= seg
      BY <3>1 DEF SpokenUpTo
    <3>3. DOMAIN fragment = 1 .. Len(fragment)
      BY <3>1 DEF SpokenUpTo, Text
    <3> QED
      BY <3>2, <3>3 DEF ToSet
  <2> QED
    BY <2>1, <2>2 DEF Kept, Older
<1>2. ASSUME ~AddStore
      PROVE  /\ accepted' = accepted /\ seg' = seg
             /\ cpc' \in {"hasText", "join", "store"} => cpc \in {"hasText", "join", "store"}
  BY <1>2 DEF CaptureWork, CaptureFails, CaptureEnds, AddHasText, AddJoin, AddTouch,
       DrainSplit, DrainRemainder, DrainLimit, DrainGuard, DrainTake, DrainClear,
       CaptureEmit, CapturePut, FinalFlushRead, FinalFlushClear, FinalFlushTouch, FinalFlushPut,
       history
<1> QED
  BY <1>1, <1>2 DEF Kept, Older

LEMMA CaptureAlone ==
  Kept /\ ~overlapped' /\ (CaptureWork \/ CaptureFails) => ~overlapped /\ Alone'
<1> SUFFICES ASSUME Kept, ~overlapped', CaptureWork \/ CaptureFails PROVE ~overlapped /\ Alone'
  OBVIOUS
<1>a. ~overlapped
  BY DEF CaptureWork, CaptureFails, CaptureEnds, AddHasText, AddJoin, AddStore, AddTouch,
       DrainSplit, DrainRemainder, DrainLimit, DrainGuard, DrainTake, DrainClear,
       CaptureEmit, CapturePut, FinalFlushRead, FinalFlushClear, FinalFlushTouch, FinalFlushPut,
       history
<1>0. ~overlapped /\ Alone
  BY <1>a DEF Kept
<1> USE DEF Alone, CaptureInBuffer, TimeoutInBuffer, CaptureOnly, timeoutVars
<1>1. CASE CaptureFails
  BY <1>0, <1>1 DEF CaptureFails
<1>2. CASE CaptureEnds
  BY <1>0, <1>2 DEF CaptureEnds
<1>3. CASE AddHasText
  <2>1. copy = <<>>
    BY <1>3 DEF AddHasText, Kept, Filled
  <2> QED
    BY <1>0, <1>3, <2>1 DEF AddHasText
<1>4. CASE AddJoin
  BY <1>0, <1>4 DEF AddJoin
<1>5. CASE AddStore
  BY <1>0, <1>5 DEF AddStore
<1>6. CASE AddTouch
  BY <1>0, <1>6 DEF AddTouch
<1>7. CASE DrainSplit
  BY <1>0, <1>7 DEF DrainSplit
<1>8. CASE DrainRemainder
  BY <1>0, <1>8 DEF DrainRemainder
<1>9. CASE DrainLimit
  BY <1>0, <1>9 DEF DrainLimit
<1>10. CASE DrainGuard
  BY <1>0, <1>10 DEF DrainGuard
<1>11. CASE DrainTake
  BY <1>0, <1>11 DEF DrainTake
<1>12. CASE DrainClear
  BY <1>0, <1>12 DEF DrainClear
<1>13. CASE CaptureEmit
  BY <1>0, <1>13 DEF CaptureEmit
<1>14. CASE CapturePut
  BY <1>0, <1>14 DEF CapturePut
<1>15. CASE FinalFlushRead
  BY <1>0, <1>15 DEF FinalFlushRead
<1>16. CASE FinalFlushClear
  BY <1>0, <1>16 DEF FinalFlushClear
<1>17. CASE FinalFlushTouch
  BY <1>0, <1>17 DEF FinalFlushTouch
<1>18. CASE FinalFlushPut
  BY <1>0, <1>18 DEF FinalFlushPut
<1> QED
  BY <1>0, <1>1, <1>2, <1>3, <1>4, <1>5, <1>6, <1>7, <1>8, <1>9, <1>10, <1>11, <1>12, <1>13, <1>14, <1>15, <1>16, <1>17, <1>18 DEF CaptureWork

LEMMA SplitAccounted ==
  ASSUME Kept, Alone, Accounted, DrainSplit
  PROVE  Accounted'
<1> DEFINE l == CompleteSentences(buffer)
           kept == Translatable(l)
           refused == UNION {ToSet(s) : s \in {c \in ToSet(l) : ~ShouldTranslate(c)}}
           tail == Remainder(buffer)
<1>1. buffer \in Seq(Token) /\ buffer \in SpokenUpTo(seg) /\ seg \in Int
  BY LimitType DEF Kept, Ordered, Typed, TypeOK, Text, InSpeechOrder
<1>2. Distinct(buffer)
  BY <1>1, SpokenDistinct
<1>3. l \in Seq(Seq(Token))
  BY <1>1, SplitType
<1>4. /\ ToSet(buffer) = AllTokens(l) \cup ToSet(tail)
      /\ Apart(l) /\ AllTokens(l) \cap ToSet(tail) = {}
  BY <1>1, <1>2, SplitKeepsTokens
<1>5. AllTokens(l) = AllTokens(kept) \cup refused /\ Apart(kept) /\ AllTokens(kept) \cap refused = {}
  BY <1>3, <1>4, TranslatableKeepsTokens
<1>6. /\ Pending = buffer /\ Pending' = tail /\ cready = <<>> /\ cready' = kept
      /\ dropped' = dropped \cup refused
      /\ UNCHANGED <<puts, tready, accepted>>
  BY DEF DrainSplit, Pending, CaptureOnly, timeoutVars, Kept, Filled
<1> HIDE DEF l, kept, refused, tail
<1>7. InOnePlace(accepted, AllTokens(puts), {}, AllTokens(tready), ToSet(buffer), dropped)
  BY <1>6, SingleTokens, Zenon DEF Accounted
<1>8. /\ ToSet(buffer) = AllTokens(kept) \cup refused \cup ToSet(tail)
      /\ (AllTokens(kept) \cup refused) \cap ToSet(tail) = {}
  BY <1>4, <1>5, Zenon
<1>9. InOnePlace(accepted, AllTokens(puts), AllTokens(kept), AllTokens(tready), ToSet(tail),
                 dropped \cup refused)
  BY <1>5, <1>7, <1>8, SplitMoves, Zenon
<1>10. Apart(puts)
  BY DEF Accounted
<1> QED
  BY <1>5, <1>6, <1>9, <1>10, Zenon DEF Accounted

\* The sentence at the head of a list goes to the queue.
LEMMA HeadMoves ==
  ASSUME NEW l \in Seq(Text), l # <<>>, NEW q \in Seq(Text), Apart(l), Apart(q),
         AllTokens(q) \cap AllTokens(l) = {}
  PROVE  /\ AllTokens(l) = ToSet(Head(l)) \cup AllTokens(Tail(l))
         /\ ToSet(Head(l)) \cap AllTokens(Tail(l)) = {} /\ Apart(Tail(l))
         /\ AllTokens(Append(q, Head(l))) = AllTokens(q) \cup ToSet(Head(l))
         /\ Apart(Append(q, Head(l)))
<1>1. Head(l) \in Text
  OBVIOUS
<1>2. /\ AllTokens(l) = ToSet(Head(l)) \cup AllTokens(Tail(l))
      /\ ToSet(Head(l)) \cap AllTokens(Tail(l)) = {} /\ Apart(Tail(l))
  BY HeadTokens
<1>3. AllTokens(q) \cap ToSet(Head(l)) = {}
  BY <1>2, Zenon
<1>4. /\ AllTokens(Append(q, Head(l))) = AllTokens(q) \cup ToSet(Head(l))
      /\ (Apart(q) /\ AllTokens(q) \cap ToSet(Head(l)) = {}) => Apart(Append(q, Head(l)))
  BY <1>1, AppendedTokens
<1> QED
  BY <1>2, <1>3, <1>4, Zenon

\* A list of one sentence has nothing else.
LEMMA OnlySentence ==
  ASSUME NEW l \in Seq(Text), Len(l) <= 1, l # <<>>
  PROVE  Tail(l) = <<>> /\ Apart(l)
<1>1. Len(l) = 1
  <2>1. Len(l) \in Nat /\ (Len(l) = 0 => l = <<>>)
    OBVIOUS
  <2> QED
    BY <2>1
<1>2. Tail(l) = <<>>
  <2>1. Tail(l) \in Seq(Text) /\ Len(Tail(l)) = 0
    BY <1>1
  <2>2. \A k \in Seq(Text) : Len(k) = 0 => k = <<>>
    OBVIOUS
  <2> QED
    BY <2>1, <2>2, Zenon
<1>3. Apart(l)
  BY <1>1 DEF Apart
<1> QED
  BY <1>2, <1>3

LEMMA CaptureAccounted ==
  Kept /\ Alone /\ Accounted /\ (CaptureWork \/ CaptureFails) => Accounted'
<1> SUFFICES ASSUME Kept, Alone, Accounted, CaptureWork \/ CaptureFails PROVE Accounted'
  OBVIOUS
<1> DEFINE p == AllTokens(puts)
           c == AllTokens(cready)
           t == AllTokens(tready)
           b == ToSet(Pending)
<1>0. InOnePlace(accepted, p, c, t, b, dropped) /\ Apart(puts) /\ Apart(cready)
  BY DEF Accounted
<1>t. /\ buffer \in Text /\ copy \in Text /\ fragment \in Text
      /\ cready \in Seq(Text) /\ puts \in Seq(Text)
  BY DEF Kept, Ordered, Typed, TypeOK
<1>e. ToSet(<<>>) = {}
  BY DEF ToSet
<1>s. tready' = tready
  BY DEF CaptureWork, CaptureFails, CaptureEnds, AddHasText, AddJoin, AddStore, AddTouch,
       DrainSplit, DrainRemainder, DrainLimit, DrainGuard, DrainTake, DrainClear,
       CaptureEmit, CapturePut, FinalFlushRead, FinalFlushClear, FinalFlushTouch, FinalFlushPut,
       CaptureOnly, timeoutVars
<1>1. CASE AddStore
  <2>1. /\ Pending = buffer /\ Pending' = buffer \o fragment
        /\ accepted' = accepted \cup ToSet(fragment)
        /\ UNCHANGED <<puts, cready, dropped>> /\ cpc = "store"
    BY <1>1 DEF AddStore, Pending, Alone
  <2>2. ToSet(fragment) \cap accepted = {}
    <3>1. \A i \in 1 .. Len(fragment) : fragment[i].seg = seg
      BY <2>1 DEF Kept, Ordered, InSpeechOrder, SpokenAt
    <3>2. \A token \in accepted : token.seg < seg /\ token.seg \in Nat /\ seg \in Nat
      BY <2>1, LimitType DEF Kept, Older, Ordered, Typed, TypeOK, Token
    <3>3. DOMAIN fragment = 1 .. Len(fragment)
      BY <1>t DEF Text
    <3>4. \A token \in ToSet(fragment) : token.seg = seg
      BY <3>1, <3>3 DEF ToSet
    <3> QED
      BY <3>2, <3>4
  <2>3. ToSet(buffer \o fragment) = ToSet(buffer) \cup ToSet(fragment)
    BY <1>t, JoinedTokens DEF Text
  <2>4. InOnePlace(accepted \cup ToSet(fragment), p, c, t, b \cup ToSet(fragment), dropped)
    BY <1>0, <2>2, Moves
  <2> QED
    BY <1>0, <1>s, <2>1, <2>3, <2>4 DEF Accounted
<1>2. CASE DrainSplit
  BY <1>2, SplitAccounted
<1>3. CASE DrainGuard
  <2>1. CASE ShouldTranslate(buffer)
    <3>1. Pending' = Pending /\ UNCHANGED <<puts, cready, accepted, dropped>>
      BY <1>3, <2>1 DEF DrainGuard, Pending
    <3> QED
      BY <1>s, <3>1, QuietAccounted
  <2>2. CASE ~ShouldTranslate(buffer)
    <3>1. /\ Pending = buffer /\ Pending' = <<>> /\ dropped' = dropped \cup ToSet(buffer)
          /\ UNCHANGED <<puts, cready, accepted>>
      BY <1>3, <2>2 DEF DrainGuard, Pending
    <3>2. InOnePlace(accepted, p, c, t, {}, dropped \cup b)
      BY <1>0, Moves
    <3> QED
      BY <1>0, <1>e, <1>s, <3>1, <3>2 DEF Accounted
  <2> QED
    BY <2>1, <2>2
<1>4. CASE DrainTake
  <2>1. /\ Pending = buffer /\ Pending' = <<>> /\ cready' = Append(cready, buffer)
        /\ UNCHANGED <<puts, accepted, dropped>>
    BY <1>4 DEF DrainTake, Pending, history
  <2>2. InOnePlace(accepted, p, c \cup b, t, {}, dropped)
    BY <1>0, Moves
  <2>3. c \cap b = {}
    BY <1>0 DEF InOnePlace
  <2>4. AllTokens(Append(cready, buffer)) = c \cup b /\ Apart(Append(cready, buffer))
    BY <1>0, <1>t, <2>1, <2>3, AppendedTokens
  <2> QED
    BY <1>0, <1>e, <1>s, <2>1, <2>2, <2>4 DEF Accounted
<1>5. CASE CapturePut
  <2>1. /\ cready # <<>> /\ cready' = Tail(cready) /\ puts' = Append(puts, Head(cready))
        /\ Pending' = Pending /\ UNCHANGED <<accepted, dropped>>
    BY <1>5 DEF CapturePut, Put, Pending, history, Kept, Ordered, Typed, InHand
  <2>2. p \cap c = {}
    BY <1>0 DEF InOnePlace
  <2>3. /\ c = ToSet(Head(cready)) \cup AllTokens(Tail(cready))
        /\ ToSet(Head(cready)) \cap AllTokens(Tail(cready)) = {} /\ Apart(Tail(cready))
        /\ AllTokens(Append(puts, Head(cready))) = p \cup ToSet(Head(cready))
        /\ Apart(Append(puts, Head(cready)))
    BY <1>0, <1>t, <2>1, <2>2, HeadMoves
  <2>4. InOnePlace(accepted, p \cup ToSet(Head(cready)), AllTokens(Tail(cready)), t, b, dropped)
    BY <1>0, <2>3, Moves
  <2> QED
    BY <1>s, <2>1, <2>3, <2>4 DEF Accounted
<1>6. CASE FinalFlushClear
  <2>1. /\ cpc = "flushClear" /\ copy = buffer /\ Pending = buffer /\ Pending' = <<>>
        /\ cready = <<>> /\ UNCHANGED <<puts, accepted>>
    BY <1>6 DEF FinalFlushClear, Pending, Alone, Kept, Filled
  <2>2. CASE copy # <<>> /\ ShouldTranslate(copy)
    <3>1. cready' = <<copy>> /\ dropped' = dropped
      BY <1>6, <2>2 DEF FinalFlushClear
    <3>2. InOnePlace(accepted, p, c \cup b, t, {}, dropped)
      BY <1>0, Moves
    <3>3. c = {} /\ AllTokens(<<copy>>) = b /\ Apart(<<copy>>)
      BY <2>1, SingleTokens
    <3> QED
      BY <1>0, <1>e, <1>s, <2>1, <3>1, <3>2, <3>3 DEF Accounted
  <2>3. CASE ~(copy # <<>> /\ ShouldTranslate(copy))
    <3>1. cready' = <<>> /\ dropped' = dropped \cup ToSet(copy)
      BY <1>6, <2>3 DEF FinalFlushClear
    <3>2. InOnePlace(accepted, p, c, t, {}, dropped \cup b)
      BY <1>0, Moves
    <3> QED
      BY <1>0, <1>e, <1>s, <2>1, <3>1, <3>2 DEF Accounted
  <2> QED
    BY <2>2, <2>3
<1>7. CASE FinalFlushPut
  <2>1. /\ cready # <<>> /\ Len(cready) <= 1 /\ cready' = <<>> /\ puts' = Append(puts, Head(cready))
        /\ Pending' = Pending /\ UNCHANGED <<accepted, dropped>>
    BY <1>7 DEF FinalFlushPut, Put, Pending, history, Kept, Filled, Ordered, Typed, InHand
  <2>2. p \cap c = {}
    BY <1>0 DEF InOnePlace
  <2>3. /\ c = ToSet(Head(cready)) \cup AllTokens(Tail(cready))
        /\ ToSet(Head(cready)) \cap AllTokens(Tail(cready)) = {} /\ Apart(Tail(cready))
        /\ AllTokens(Append(puts, Head(cready))) = p \cup ToSet(Head(cready))
        /\ Apart(Append(puts, Head(cready)))
    BY <1>0, <1>t, <2>1, <2>2, HeadMoves
  <2>4. InOnePlace(accepted, p \cup ToSet(Head(cready)), AllTokens(Tail(cready)), t, b, dropped)
    BY <1>0, <2>3, Moves
  <2>5. Tail(cready) = <<>>
    BY <1>t, <2>1, OnlySentence
  <2> QED
    BY <1>s, <2>1, <2>3, <2>4, <2>5 DEF Accounted
<1>8. ASSUME ~(AddStore \/ DrainSplit \/ DrainGuard \/ DrainTake \/ CapturePut
                 \/ FinalFlushClear \/ FinalFlushPut)
      PROVE  UNCHANGED <<puts, cready, accepted, dropped>> /\ Pending' = Pending
  <2>1. UNCHANGED <<puts, cready, accepted, dropped>>
    BY <1>8 DEF CaptureWork, CaptureFails, CaptureEnds, AddHasText, AddJoin, AddTouch,
       DrainRemainder, DrainLimit, DrainClear, CaptureEmit, FinalFlushRead, FinalFlushTouch, history
  <2>2. Pending' = Pending
    BY <1>8 DEF CaptureWork, CaptureFails, CaptureEnds, AddHasText, AddJoin, AddTouch,
       DrainRemainder, DrainLimit, DrainClear, CaptureEmit, FinalFlushRead, FinalFlushTouch, Pending
  <2> QED
    BY <2>1, <2>2
<1>9. ASSUME UNCHANGED <<puts, cready, accepted, dropped>>, Pending' = Pending
      PROVE  Accounted'
  BY <1>9, <1>s, QuietAccounted
<1> QED
  BY <1>1, <1>2, <1>3, <1>4, <1>5, <1>6, <1>7, <1>8, <1>9

-----------------------------------------------------------------------------
LEMMA TimeoutKept ==
  Kept /\ TimeoutWork => Filled' /\ Older' /\ (~overlapped' => Alone' /\ Accounted')
<1> SUFFICES ASSUME Kept, TimeoutWork
             PROVE  Filled' /\ Older' /\ (~overlapped' => Alone' /\ Accounted')
  OBVIOUS
<1>u. UNCHANGED <<cpc, seg, copy, cready, accepted>>
  BY DEF TimeoutWork, TimeoutLoop, TimeoutHasText, TimeoutAge, TimeoutRead, TimeoutClear,
       TimeoutTouch, TimeoutEmit, TimeoutPut, TimeoutOnly, captureVars, history
<1>1. Older'
  BY <1>u DEF Kept, Older
<1>2. Filled'
  <2>1. \A s : Len(<<s>>) <= 1
    OBVIOUS
  <2>2. TimeoutClear => Len(tready') <= 1
    BY <2>1 DEF TimeoutClear
  <2> USE <1>u DEF Kept, Filled
  <2>3. CASE TimeoutClear
    BY <2>2, <2>3 DEF TimeoutClear
  <2>4. CASE TimeoutTouch
    BY <2>4 DEF TimeoutTouch
  <2>5. CASE TimeoutEmit \/ TimeoutPut
    BY <2>5 DEF TimeoutEmit, TimeoutPut
  <2>6. CASE TimeoutLoop \/ TimeoutHasText \/ TimeoutAge \/ TimeoutRead
    BY <2>6 DEF TimeoutLoop, TimeoutHasText, TimeoutAge, TimeoutRead
  <2> QED
    BY <2>3, <2>4, <2>5, <2>6 DEF TimeoutWork
<1> SUFFICES ASSUME ~overlapped' PROVE Alone' /\ Accounted'
  BY <1>1, <1>2
<1>a. ~overlapped
  BY DEF TimeoutWork, TimeoutLoop, TimeoutHasText, TimeoutAge, TimeoutRead, TimeoutClear,
       TimeoutTouch, TimeoutEmit, TimeoutPut, history
<1>0. Alone /\ Accounted
  BY <1>a DEF Kept
<1>3. Alone'
  <2> USE <1>0, <1>u DEF Alone, CaptureInBuffer, TimeoutInBuffer
  <2>1. CASE TimeoutRead
    BY <2>1 DEF TimeoutRead
  <2>2. CASE TimeoutClear
    BY <2>2 DEF TimeoutClear
  <2>3. CASE TimeoutTouch \/ TimeoutEmit \/ TimeoutPut
    BY <2>3 DEF TimeoutTouch, TimeoutEmit, TimeoutPut
  <2>4. CASE TimeoutLoop \/ TimeoutHasText \/ TimeoutAge
    BY <2>4 DEF TimeoutLoop, TimeoutHasText, TimeoutAge
  <2> QED
    BY <2>1, <2>2, <2>3, <2>4 DEF TimeoutWork
<1>4. Accounted'
  <2> DEFINE p == AllTokens(puts)
             c == AllTokens(cready)
             t == AllTokens(tready)
             b == ToSet(Pending)
  <2>0. InOnePlace(accepted, p, c, t, b, dropped) /\ Apart(puts) /\ Apart(cready)
    BY <1>0 DEF Accounted
  <2>t. tready \in Seq(Text) /\ puts \in Seq(Text)
    BY DEF Kept, Ordered, Typed, TypeOK
  <2>e. ToSet(<<>>) = {}
    BY DEF ToSet
  <2>1. CASE TimeoutClear
    <3>1. /\ text = buffer /\ Pending = buffer /\ Pending' = <<>> /\ tready = <<>>
          /\ UNCHANGED puts
      BY <1>0, <1>u, <2>1 DEF TimeoutClear, Pending, Alone, CaptureInBuffer, TimeoutInBuffer,
           Kept, Filled
    <3>2. CASE text # <<>> /\ ShouldTranslate(text)
      <4>1. tready' = <<text>> /\ dropped' = dropped
        BY <2>1, <3>2 DEF TimeoutClear
      <4>2. InOnePlace(accepted, p, c, t \cup b, {}, dropped)
        BY <2>0, Moves
      <4>3. t = {} /\ AllTokens(<<text>>) = b
        BY <3>1, SingleTokens
      <4> QED
        BY <1>u, <2>0, <2>e, <3>1, <4>1, <4>2, <4>3 DEF Accounted
    <3>3. CASE ~(text # <<>> /\ ShouldTranslate(text))
      <4>1. tready' = <<>> /\ dropped' = dropped \cup ToSet(text)
        BY <2>1, <3>3 DEF TimeoutClear
      <4>2. InOnePlace(accepted, p, c, t, {}, dropped \cup b)
        BY <2>0, Moves
      <4> QED
        BY <1>u, <2>0, <2>e, <3>1, <4>1, <4>2 DEF Accounted
    <3> QED
      BY <3>2, <3>3
  <2>2. CASE TimeoutPut
    <3>1. /\ tready # <<>> /\ Len(tready) <= 1 /\ tready' = <<>>
          /\ puts' = Append(puts, Head(tready))
          /\ Pending' = Pending /\ UNCHANGED dropped
      BY <1>u, <2>2 DEF TimeoutPut, Put, Pending, history, Kept, Filled, Ordered, Typed, InHand
    <3>2. p \cap t = {}
      BY <2>0 DEF InOnePlace
    <3>3. Tail(tready) = <<>> /\ Apart(tready)
      BY <2>t, <3>1, OnlySentence
    <3>4. /\ t = ToSet(Head(tready)) \cup AllTokens(Tail(tready))
          /\ ToSet(Head(tready)) \cap AllTokens(Tail(tready)) = {}
          /\ AllTokens(Append(puts, Head(tready))) = p \cup ToSet(Head(tready))
          /\ Apart(Append(puts, Head(tready)))
      BY <2>0, <2>t, <3>1, <3>2, <3>3, HeadMoves
    <3>5. InOnePlace(accepted, p \cup ToSet(Head(tready)), c, AllTokens(Tail(tready)), b, dropped)
      BY <2>0, <3>4, Moves
    <3> QED
      BY <1>u, <2>0, <3>1, <3>3, <3>4, <3>5 DEF Accounted
  <2>3. ASSUME ~(TimeoutClear \/ TimeoutPut)
        PROVE  UNCHANGED <<puts, tready, dropped>> /\ Pending' = Pending
    BY <1>u, <2>3 DEF TimeoutWork, TimeoutLoop, TimeoutHasText, TimeoutAge, TimeoutRead,
         TimeoutTouch, TimeoutEmit, Pending, history
  <2> QED
    BY <1>0, <1>u, <2>1, <2>2, <2>3, QuietAccounted
<1> QED
  BY <1>3, <1>4

LEMMA StepKept == Kept /\ [Next]_vars => Kept'
<1> SUFFICES ASSUME Kept, [Next]_vars
             PROVE  Filled' /\ Older' /\ (~overlapped' => Alone' /\ Accounted')
  BY StepOrder DEF Kept
<1>1. ASSUME NEW kinds \in Fragments, CaptureSegment(kinds)
      PROVE  Filled' /\ Older' /\ (~overlapped' => Alone' /\ Accounted')
  BY <1>1, SegmentKept
<1>2. CASE CaptureWork \/ CaptureFails
  BY <1>2, CaptureFilled, CaptureOlder, CaptureAlone, CaptureAccounted DEF Kept
<1>3. CASE TimeoutWork
  BY <1>3, TimeoutKept
<1>4. ASSUME ProcessWork \/ RequestStop \/ PauseExceeded \/ UNCHANGED vars
      PROVE  UNCHANGED <<buffer, captureVars, timeoutVars, puts, history>>
  <2>1. ProcessWork => UNCHANGED <<buffer, captureVars, timeoutVars, puts, history>>
    BY DEF ProcessWork, ProcessLoop, ProcessGet, ProcessEmpty, Translated, Spoken, ProcessFails, ProcessOnly
  <2> QED
    BY <1>4, <2>1 DEF RequestStop, PauseExceeded, vars
<1>5. ASSUME UNCHANGED <<buffer, captureVars, timeoutVars, puts, history>>
      PROVE  Filled' /\ Older' /\ (~overlapped' => Alone' /\ Accounted')
  <2> USE <1>5 DEF captureVars, timeoutVars, history, Kept
  <2>1. Filled' /\ Older'
    BY DEF Filled, Older
  <2>2. ~overlapped' => Alone'
    BY DEF Alone, CaptureInBuffer, TimeoutInBuffer
  <2>3. Pending' = Pending
    BY DEF Pending
  <2>4. ~overlapped' => Accounted'
    BY <2>3, QuietAccounted
  <2> QED
    BY <2>1, <2>2, <2>4
<1> QED
  BY <1>1, <1>2, <1>3, <1>4, <1>5 DEF Next, Finished

-----------------------------------------------------------------------------
(* And what the guards have let pass is what the threads queue.             *)

Passed(sentences) == \A i \in 1 .. Len(sentences) : ShouldTranslate(sentences[i])

Guarded ==
  ~overlapped =>
    /\ Passed(puts) /\ Passed(cready) /\ Passed(tready)
    /\ cpc = "take" => ShouldTranslate(buffer)

\* The last guard lets the sentences pass that it should.
LEMMA GuardPasses ==
  ASSUME NEW l \in Seq(Text)
  PROVE  Passed(Translatable(l))
<1> DEFINE P == {k \in 1 .. Len(l) : ShouldTranslate(l[k])}
<1>1. Len(l) \in Nat /\ P \in SUBSET (1 .. Len(l))
  OBVIOUS
<1>2. Cardinality(P) \in Nat
  BY <1>1, RankFacts
<1>3. /\ Len(Translatable(l)) = Cardinality(P)
      /\ \A n \in 1 .. Cardinality(P) : Translatable(l)[n] = l[Nth(P, n, Len(l))]
  BY <1>2 DEF Translatable, Pick
<1>4. \A n \in 1 .. Cardinality(P) : Nth(P, n, Len(l)) \in P
  BY <1>1, NthMember
<1> QED
  BY <1>3, <1>4 DEF Passed

\* A list that has passed may grow by a sentence that has, and lose its first.
LEMMA PassedMoves ==
  /\ Passed(<<>>)
  /\ \A s \in Text : ShouldTranslate(s) => Passed(<<s>>)
  /\ \A l \in Seq(Text) : \A s \in Text : Passed(l) /\ ShouldTranslate(s) => Passed(Append(l, s))
  /\ \A l \in Seq(Text) : Passed(l) /\ l # <<>> => Passed(Tail(l)) /\ ShouldTranslate(Head(l))
BY DEF Passed

LEMMA CaptureGuarded ==
  ASSUME Kept, Guarded, ~overlapped', CaptureWork \/ CaptureFails
  PROVE  Passed(puts)' /\ Passed(cready)' /\ (cpc' = "take" => ShouldTranslate(buffer'))
<1>1. ~overlapped
  BY CaptureAlone
<1>2. Passed(puts) /\ Passed(cready) /\ (cpc = "take" => ShouldTranslate(buffer))
  BY <1>1 DEF Guarded
<1>3. /\ puts \in Seq(Text) /\ cready \in Seq(Text) /\ buffer \in Text /\ copy \in Text
      /\ cpc \in {"emit", "put", "flushPut"} => cready # <<>>
  BY DEF Kept, Ordered, Typed, TypeOK, InHand
<1>4. CASE DrainSplit
  <2>1. /\ cready' = Translatable(CompleteSentences(buffer))
        /\ puts' = puts /\ cpc' = "remainder"
    BY <1>4 DEF DrainSplit
  <2>2. CompleteSentences(buffer) \in Seq(Text)
    BY <1>3, DrainType
  <2> QED
    BY <1>2, <2>1, <2>2, GuardPasses
<1>5. CASE DrainGuard
  BY <1>2, <1>5 DEF DrainGuard
<1>6. CASE DrainTake
  <2>1. cready' = Append(cready, buffer) /\ puts' = puts /\ cpc' = "clear" /\ cpc = "take"
    BY <1>6 DEF DrainTake
  <2> QED
    BY <1>2, <1>3, <2>1, PassedMoves
<1>7. CASE CapturePut
  <2>1. /\ puts' = Append(puts, Head(cready)) /\ cready' = Tail(cready)
        /\ cpc' \in {"emit", "listen"} /\ cready # <<>>
    BY <1>3, <1>7 DEF CapturePut, Put
  <2>2. Head(cready) \in Text
    BY <1>3, <2>1
  <2> QED
    BY <1>2, <1>3, <2>1, <2>2, PassedMoves
<1>8. CASE FinalFlushClear
  <2>1. /\ cready' = IF copy # <<>> /\ ShouldTranslate(copy) THEN <<copy>> ELSE <<>>
        /\ puts' = puts /\ cpc' = "flushTouch"
    BY <1>8 DEF FinalFlushClear
  <2> QED
    BY <1>2, <1>3, <2>1, PassedMoves
<1>9. CASE FinalFlushPut
  <2>1. /\ puts' = Append(puts, Head(cready)) /\ cready' = <<>> /\ cpc' = "done" /\ cready # <<>>
    BY <1>3, <1>9 DEF FinalFlushPut, Put
  <2>2. Head(cready) \in Text
    BY <1>3, <2>1
  <2> QED
    BY <1>2, <1>3, <2>1, <2>2, PassedMoves
<1>10. ASSUME ~(DrainSplit \/ DrainGuard \/ DrainTake \/ CapturePut \/ FinalFlushClear \/ FinalFlushPut)
       PROVE  puts' = puts /\ cready' = cready /\ cpc' # "take"
  BY <1>10 DEF CaptureWork, CaptureFails, CaptureEnds, AddHasText, AddJoin, AddStore, AddTouch,
     DrainRemainder, DrainLimit, DrainClear, CaptureEmit, FinalFlushRead, FinalFlushTouch
<1> QED
  BY <1>2, <1>4, <1>5, <1>6, <1>7, <1>8, <1>9, <1>10

\* No flush empties the buffer between the guard and its use unless they overlap.
LEMMA TimeoutGuarded ==
  ASSUME Kept, Guarded, ~overlapped', TimeoutWork
  PROVE  Passed(puts)' /\ Passed(tready)' /\ (cpc' = "take" => ShouldTranslate(buffer'))
<1>1. ~overlapped
  BY DEF TimeoutWork, TimeoutLoop, TimeoutHasText, TimeoutAge, TimeoutRead, TimeoutClear,
       TimeoutTouch, TimeoutEmit, TimeoutPut, history
<1>2. /\ Passed(puts) /\ Passed(tready) /\ (cpc = "take" => ShouldTranslate(buffer))
      /\ Alone /\ cpc' = cpc
  BY <1>1 DEF Guarded, Kept, TimeoutWork, TimeoutLoop, TimeoutHasText, TimeoutAge, TimeoutRead,
       TimeoutClear, TimeoutTouch, TimeoutEmit, TimeoutPut, TimeoutOnly, captureVars
<1>3. /\ puts \in Seq(Text) /\ tready \in Seq(Text) /\ text \in Text
      /\ tpc \in {"emit", "put"} => tready # <<>>
  BY DEF Kept, Ordered, Typed, TypeOK, InHand
<1>4. CASE TimeoutClear
  <2>1. /\ tready' = IF text # <<>> /\ ShouldTranslate(text) THEN <<text>> ELSE <<>>
        /\ puts' = puts /\ cpc # "take"
    BY <1>2, <1>4 DEF TimeoutClear, Alone, CaptureInBuffer, TimeoutInBuffer
  <2> QED
    BY <1>2, <1>3, <2>1, PassedMoves
<1>5. CASE TimeoutPut
  <2>1. /\ puts' = Append(puts, Head(tready)) /\ tready' = <<>> /\ buffer' = buffer /\ tready # <<>>
    BY <1>3, <1>5 DEF TimeoutPut, Put
  <2>2. Head(tready) \in Text
    BY <1>3, <2>1
  <2> QED
    BY <1>2, <1>3, <2>1, <2>2, PassedMoves
<1>6. ASSUME ~(TimeoutClear \/ TimeoutPut)
      PROVE  puts' = puts /\ tready' = tready /\ buffer' = buffer
  BY <1>6 DEF TimeoutWork, TimeoutLoop, TimeoutHasText, TimeoutAge, TimeoutRead, TimeoutTouch, TimeoutEmit
<1> QED
  BY <1>2, <1>4, <1>5, <1>6

LEMMA StepGuarded == Kept /\ Guarded /\ [Next]_vars => Guarded'
<1> SUFFICES ASSUME Kept, Guarded, [Next]_vars, ~overlapped'
             PROVE  /\ Passed(puts)' /\ Passed(cready)' /\ Passed(tready)'
                    /\ cpc' = "take" => ShouldTranslate(buffer')
  BY DEF Guarded
<1>1. CASE CaptureWork \/ CaptureFails
  <2>1. ~overlapped /\ tready' = tready
    BY <1>1, CaptureAlone DEF CaptureWork, CaptureFails, CaptureEnds, AddHasText, AddJoin, AddStore,
       AddTouch, DrainSplit, DrainRemainder, DrainLimit, DrainGuard, DrainTake, DrainClear, CaptureEmit,
       CapturePut, FinalFlushRead, FinalFlushClear, FinalFlushTouch, FinalFlushPut, CaptureOnly, timeoutVars
  <2> QED
    BY <1>1, <2>1, CaptureGuarded DEF Guarded
<1>2. CASE TimeoutWork
  <2>1. cready' = cready
    BY <1>2 DEF TimeoutWork, TimeoutLoop, TimeoutHasText, TimeoutAge, TimeoutRead, TimeoutClear,
       TimeoutTouch, TimeoutEmit, TimeoutPut, TimeoutOnly, captureVars
  <2>2. ~overlapped
    BY <1>2 DEF TimeoutWork, TimeoutLoop, TimeoutHasText, TimeoutAge, TimeoutRead, TimeoutClear,
       TimeoutTouch, TimeoutEmit, TimeoutPut, history
  <2> QED
    BY <1>2, <2>1, <2>2, TimeoutGuarded DEF Guarded
<1>3. ASSUME NEW kinds \in Fragments, CaptureSegment(kinds)
      PROVE  /\ Passed(puts)' /\ Passed(cready)' /\ Passed(tready)'
             /\ cpc' = "take" => ShouldTranslate(buffer')
  BY <1>3 DEF CaptureSegment, CaptureOnly, timeoutVars, history, Guarded
<1>4. ASSUME UNCHANGED <<buffer, puts, cready, tready, cpc, overlapped>>
      PROVE  /\ Passed(puts)' /\ Passed(cready)' /\ Passed(tready)'
             /\ cpc' = "take" => ShouldTranslate(buffer')
  BY <1>4 DEF Guarded
<1>5. ProcessWork \/ RequestStop \/ PauseExceeded \/ UNCHANGED vars
        => UNCHANGED <<buffer, puts, cready, tready, cpc, overlapped>>
  BY DEF ProcessWork, ProcessLoop, ProcessGet, ProcessEmpty, Translated, Spoken, ProcessFails, ProcessOnly,
     RequestStop, PauseExceeded, vars, captureVars, timeoutVars, history
<1> QED
  BY <1>1, <1>2, <1>3, <1>4, <1>5 DEF Next, Finished

\* When no thread is inside the buffer, the four places of the text hold every
\* accepted token that no guard rejected, each of them once.
LEMMA KeptConserved == Kept /\ Guarded => ConservedUnlessOverlapped
<1> SUFFICES ASSUME Kept, Guarded, Quiet, ~overlapped
             PROVE  /\ Lost = {} /\ Held \cap dropped = {}
                    /\ \A m, n \in 1 .. Len(Pieces) :
                         \A i \in 1 .. Len(Pieces[m]), j \in 1 .. Len(Pieces[n]) :
                           Pieces[m][i] = Pieces[n][j] => m = n /\ i = j
  BY DEF ConservedUnlessOverlapped, OnlyGuardedQueued, Guarded, Passed
<1> DEFINE p == AllTokens(puts)
           c == AllTokens(cready)
           t == AllTokens(tready)
           b == ToSet(buffer)
           Up == SpokenUpTo(seg)
<1>0. Pending = buffer
  BY DEF Quiet, CaptureInBuffer, Pending
<1>1. InOnePlace(accepted, p, c, t, b, dropped) /\ Apart(puts) /\ Apart(cready)
  BY <1>0 DEF Kept, Accounted
<1>2. /\ puts \in Seq(Up) /\ cready \in Seq(Up) /\ tready \in Seq(Up) /\ <<buffer>> \in Seq(Up)
      /\ seg \in Int
  BY LimitType DEF Kept, Ordered, InSpeechOrder, Typed, TypeOK
<1>3. Apart(tready)
  <2>1. Len(tready) <= 1 /\ tready \in Seq(Text)
    BY DEF Kept, Filled, Ordered, Typed, TypeOK
  <2> QED
    BY <2>1, OnlySentence, SingleTokens
<1> HIDE DEF Up
<1>4. puts \o cready \in Seq(Up) /\ puts \o cready \o tready \in Seq(Up) /\ Pieces \in Seq(Up)
  BY <1>2 DEF Pieces
<1>l. \A l, k \in Seq(Up) :
        /\ AllTokens(l \o k) = AllTokens(l) \cup AllTokens(k)
        /\ (Apart(l) /\ Apart(k) /\ AllTokens(l) \cap AllTokens(k) = {}) => Apart(l \o k)
  BY ListsTokens, Zenon
<1>5. AllTokens(puts \o cready) = p \cup c /\ Apart(puts \o cready)
  <2>1. p \cap c = {}
    BY <1>1 DEF InOnePlace
  <2> QED
    BY <1>1, <1>2, <2>1, ListsTokens
<1>6. AllTokens(puts \o cready \o tready) = p \cup c \cup t /\ Apart(puts \o cready \o tready)
  <2>1. (p \cup c) \cap t = {}
    BY <1>1 DEF InOnePlace
  <2>2. AllTokens(puts \o cready) \cap AllTokens(tready) = {}
    BY <1>5, <2>1, Zenon
  <2>3. /\ AllTokens((puts \o cready) \o tready) = AllTokens(puts \o cready) \cup AllTokens(tready)
        /\ (Apart(puts \o cready) /\ Apart(tready)
             /\ AllTokens(puts \o cready) \cap AllTokens(tready) = {})
             => Apart((puts \o cready) \o tready)
    BY <1>2, <1>4, <1>l, Zenon
  <2> QED
    BY <1>3, <1>5, <2>2, <2>3, Zenon
<1>7. AllTokens(Pieces) = p \cup c \cup t \cup b /\ Apart(Pieces)
  <2>1. (p \cup c \cup t) \cap b = {}
    BY <1>1 DEF InOnePlace
  <2>2. AllTokens(<<buffer>>) = b /\ Apart(<<buffer>>)
    BY SingleTokens, Zenon
  <2>3. AllTokens(puts \o cready \o tready) \cap AllTokens(<<buffer>>) = {}
    BY <1>6, <2>1, <2>2, Zenon
  <2> QED
    <3> DEFINE most == puts \o cready \o tready
    <3>1. Pieces = most \o <<buffer>> /\ most \in Seq(Up)
      BY <1>4, Zenon DEF Pieces
    <3>2. AllTokens(most) = p \cup c \cup t /\ Apart(most) /\ AllTokens(most) \cap AllTokens(<<buffer>>) = {}
      BY <1>6, <2>3, Zenon
    <3> HIDE DEF most, p, c, t, b
    <3> QED
      BY <1>2, <1>l, <2>2, <3>1, <3>2, Zenon
<1>8. Held = AllTokens(Pieces)
  <2>1. DOMAIN Pieces = 1 .. Len(Pieces)
    BY <1>4
  <2> QED
    <3>1. ToSet(Pieces) = {Pieces[k] : k \in 1 .. Len(Pieces)}
      BY <2>1, Zenon DEF ToSet
    <3> QED
      BY <3>1 DEF Held, AllTokens
<1>9. Lost = {} /\ Held \cap dropped = {}
  <2>1. Held = p \cup c \cup t \cup b
    BY <1>7, <1>8, Zenon
  <2> HIDE DEF p, c, t, b
  <2> QED
    BY <1>1, <2>1 DEF InOnePlace, Lost
<1>10. ASSUME NEW m \in 1 .. Len(Pieces), NEW n \in 1 .. Len(Pieces),
              NEW i \in 1 .. Len(Pieces[m]), NEW j \in 1 .. Len(Pieces[n]),
              Pieces[m][i] = Pieces[n][j]
       PROVE  m = n /\ i = j
  <2>1. \A k \in 1 .. Len(Pieces) : Pieces[k] \in Up
    BY <1>4
  <2>a. \A s \in Up : DOMAIN s = 1 .. Len(s)
    BY DEF Up, SpokenUpTo, Text
  <2>b. \A s \in Up : Distinct(s)
    BY <1>2, SpokenDistinct, Zenon DEF Up
  <2>2. \A k \in 1 .. Len(Pieces) : DOMAIN Pieces[k] = 1 .. Len(Pieces[k]) /\ Distinct(Pieces[k])
    BY <2>1, <2>a, <2>b, Zenon
  <2>3. Pieces[m][i] \in ToSet(Pieces[m]) /\ Pieces[n][j] \in ToSet(Pieces[n])
    BY <2>2, Zenon DEF ToSet
  <2>4. m = n
    BY <1>7, <1>10, <2>3, Zenon DEF Apart
  <2>5. i = j
    BY <1>10, <2>2, <2>4, Zenon DEF Distinct
  <2> QED
    BY <2>4, <2>5
<1> QED
  BY <1>9, <1>10

\* As long as no flush overlaps an add, no accepted word is lost or said twice, and
\* no sentence is queued that the last guard has not let pass.
THEOREM WorkerConserves == Spec => []ConservedUnlessOverlapped
<1>1. Init => Guarded
  BY PassedMoves DEF Init, Guarded
<1> QED
  BY <1>1, InitKept, StepKept, StepGuarded, KeptConserved, PTL DEF Spec

-----------------------------------------------------------------------------
(***************************************************************************)
(* The transcripts.  A sentence that waits for the translation, or is      *)
(* translated, was announced by a TRANSCRIPT event, or is the one that the *)
(* flush at the end of the source has queued without one; a thread that is *)
(* about to queue a sentence has announced it.                             *)
(***************************************************************************)
Announced(s) == s \in captions \/ (cpc = "done" /\ s = copy)

Transcribed ==
  /\ \A i \in 1 .. Len(queue) : Announced(queue[i])
  /\ ppc = "translate" => Announced(current)
  /\ cpc = "put" => Head(cready) \in captions
  /\ tpc = "put" => Head(tready) \in captions
  /\ cpc \in {"flushTouch", "flushPut"} => cready \in {<<>>, <<copy>>}

Captioned == Typed /\ Transcribed

LEMMA InitCaptioned == Init => Captioned
<1> SUFFICES ASSUME Init PROVE Captioned
  OBVIOUS
<1>1. Transcribed
  BY DEF Init, Transcribed
<1> QED
  BY <1>1, InitType DEF Captioned

\* What was announced stays so: no transcript is taken back, and the flushed text
\* is not touched once the capture thread is done.
LEMMA StillAnnounced ==
  ASSUME captions \subseteq captions', cpc = "done" => cpc' = "done" /\ copy' = copy
  PROVE  \A s : Announced(s) => Announced(s)'
BY DEF Announced

\* A thread puts a sentence that it has announced.
LEMMA PutAnnounced ==
  ASSUME Captioned, NEW s \in Text, Put(s), Announced(s)', \A u : Announced(u) => Announced(u)'
  PROVE  \A i \in 1 .. Len(queue') : Announced(queue[i])'
<1>1. queue \in Seq(Text) /\ queue' = Append(queue, s)
  BY DEF Captioned, Typed, TypeOK, Put
<1>2. \A i \in 1 .. Len(queue') : queue'[i] = s \/ \E j \in 1 .. Len(queue) : queue'[i] = queue[j]
  BY <1>1
<1> SUFFICES ASSUME NEW i \in 1 .. Len(queue') PROVE Announced(queue[i])'
  OBVIOUS
<1>3. CASE queue'[i] = s
  BY <1>3 DEF Announced
<1>4. ASSUME NEW j \in 1 .. Len(queue), queue'[i] = queue[j] PROVE Announced(queue[i])'
  <2>1. Announced(queue[j])
    BY DEF Captioned, Transcribed
  <2> QED
    BY <1>4, <2>1 DEF Announced
<1> QED
  BY <1>2, <1>3, <1>4

\* A step that leaves the queue and what is translated.
LEMMA SameAnnounced ==
  ASSUME Captioned, UNCHANGED <<queue, current>>, ppc' = "translate" => ppc = "translate",
         \A u : Announced(u) => Announced(u)'
  PROVE  /\ \A i \in 1 .. Len(queue') : Announced(queue[i])'
         /\ ppc' = "translate" => Announced(current)'
<1>1. ASSUME NEW i \in 1 .. Len(queue) PROVE Announced(queue[i])'
  <2>1. Announced(queue[i])
    BY DEF Captioned, Transcribed
  <2> QED
    BY <2>1 DEF Announced
<1>2. ppc = "translate" => Announced(current)
  BY DEF Captioned, Transcribed
<1> QED
  BY <1>1, <1>2 DEF Announced

LEMMA CaptureCaptioned ==
  ASSUME Captioned, CaptureWork \/ CaptureFails \/ \E kinds \in Fragments : CaptureSegment(kinds)
  PROVE  Transcribed'
<1> USE DEF Captioned, Typed, TypeOK, InHand
<1>0. /\ tpc' = tpc /\ tready' = tready /\ ppc' = ppc /\ current' = current
      /\ captions \subseteq captions' /\ cpc # "done"
  BY DEF CaptureWork, CaptureFails, CaptureSegment, CaptureEnds, AddHasText, AddJoin, AddStore,
     AddTouch, DrainSplit, DrainRemainder, DrainLimit, DrainGuard, DrainTake, DrainClear,
     CaptureEmit, Transcript, CapturePut, FinalFlushRead, FinalFlushClear, FinalFlushTouch,
     FinalFlushPut, CaptureOnly, timeoutVars, processVars
<1>1. \A u : Announced(u) => Announced(u)'
  BY <1>0, StillAnnounced
<1>2. tpc' = "put" => Head(tready') \in captions'
  BY <1>0 DEF Transcribed
<1>3. CASE CapturePut
  <2>1. /\ Put(Head(cready)) /\ captions' = captions /\ cpc' \in {"emit", "listen"}
        /\ cready # <<>> /\ cpc = "put"
    BY <1>3 DEF CapturePut
  <2>2. PICK s \in Text : Put(s) /\ s \in captions
    BY <2>1 DEF Transcribed
  <2>3. Announced(s)'
    BY <2>1, <2>2 DEF Announced
  <2>4. \A i \in 1 .. Len(queue') : Announced(queue[i])'
    BY <1>1, <2>2, <2>3, PutAnnounced
  <2>5. ppc' = "translate" => Announced(current)'
    BY <1>0, <1>1 DEF Transcribed, Announced
  <2> QED
    BY <1>2, <2>1, <2>4, <2>5 DEF Transcribed
<1>4. CASE FinalFlushPut
  <2>1. /\ Put(Head(cready)) /\ captions' = captions /\ copy' = copy /\ cpc' = "done"
        /\ cready # <<>> /\ cpc = "flushPut"
    BY <1>4 DEF FinalFlushPut
  <2>2. Head(cready) = copy
    BY <2>1 DEF Transcribed
  <2>3. PICK s \in Text : s = copy
    OBVIOUS
  <2>4. Announced(s)' /\ Put(s)
    BY <2>1, <2>2, <2>3 DEF Announced
  <2>5. \A i \in 1 .. Len(queue') : Announced(queue[i])'
    BY <1>1, <2>4, PutAnnounced
  <2>6. ppc' = "translate" => Announced(current)'
    BY <1>0, <1>1 DEF Transcribed, Announced
  <2> QED
    BY <1>2, <2>1, <2>5, <2>6 DEF Transcribed
<1>5. ASSUME ~CapturePut, ~FinalFlushPut PROVE Transcribed'
  <2>1. /\ queue' = queue
        /\ cpc' = "put" => Head(cready') \in captions'
        /\ cpc' \in {"flushTouch", "flushPut"} => cready' \in {<<>>, <<copy'>>}
    BY <1>5 DEF CaptureWork, CaptureFails, CaptureSegment, CaptureEnds, AddHasText, AddJoin, AddStore,
       AddTouch, DrainSplit, DrainRemainder, DrainLimit, DrainGuard, DrainTake, DrainClear,
       CaptureEmit, Transcript, FinalFlushRead, FinalFlushClear, FinalFlushTouch,
       Transcribed
  <2>2. /\ \A i \in 1 .. Len(queue') : Announced(queue[i])'
        /\ ppc' = "translate" => Announced(current)'
    BY <1>0, <1>1, <2>1, SameAnnounced
  <2> QED
    BY <1>2, <2>1, <2>2 DEF Transcribed
<1> QED
  BY <1>3, <1>4, <1>5

LEMMA TimeoutCaptioned == ASSUME Captioned, TimeoutWork PROVE Transcribed'
<1> USE DEF Captioned, Typed, TypeOK, InHand
<1>0. /\ cpc' = cpc /\ copy' = copy /\ cready' = cready /\ ppc' = ppc /\ current' = current
      /\ captions \subseteq captions'
  BY DEF TimeoutWork, TimeoutLoop, TimeoutHasText, TimeoutAge, TimeoutRead, TimeoutClear,
     TimeoutTouch, TimeoutEmit, TimeoutPut, Transcript, TimeoutOnly, captureVars, processVars
<1>1. \A u : Announced(u) => Announced(u)'
  BY <1>0, StillAnnounced
<1>2. /\ cpc' = "put" => Head(cready') \in captions'
      /\ cpc' \in {"flushTouch", "flushPut"} => cready' \in {<<>>, <<copy'>>}
  BY <1>0 DEF Transcribed
<1>3. CASE TimeoutPut
  <2>1. /\ Put(Head(tready)) /\ captions' = captions /\ tpc' = "loop"
        /\ tready # <<>> /\ tpc = "put"
    BY <1>3 DEF TimeoutPut
  <2>2. PICK s \in Text : Put(s) /\ s \in captions
    BY <2>1 DEF Transcribed
  <2>3. Announced(s)'
    BY <2>1, <2>2 DEF Announced
  <2>4. \A i \in 1 .. Len(queue') : Announced(queue[i])'
    BY <1>1, <2>2, <2>3, PutAnnounced
  <2>5. ppc' = "translate" => Announced(current)'
    BY <1>0, <1>1 DEF Transcribed, Announced
  <2> QED
    BY <1>2, <2>1, <2>4, <2>5 DEF Transcribed
<1>4. ASSUME ~TimeoutPut PROVE Transcribed'
  <2>1. queue' = queue /\ (tpc' = "put" => Head(tready') \in captions')
    BY <1>4 DEF TimeoutWork, TimeoutLoop, TimeoutHasText, TimeoutAge, TimeoutRead, TimeoutClear,
       TimeoutTouch, TimeoutEmit, Transcript
  <2>2. /\ \A i \in 1 .. Len(queue') : Announced(queue[i])'
        /\ ppc' = "translate" => Announced(current)'
    BY <1>0, <1>1, <2>1, SameAnnounced
  <2> QED
    BY <1>2, <2>1, <2>2 DEF Transcribed
<1> QED
  BY <1>3, <1>4

LEMMA OtherCaptioned ==
  ASSUME Captioned, ProcessWork \/ RequestStop \/ PauseExceeded \/ UNCHANGED vars
  PROVE  Transcribed'
<1> USE DEF Captioned, Typed, TypeOK
<1>0. /\ cpc' = cpc /\ copy' = copy /\ cready' = cready /\ captions' = captions
      /\ tpc' = tpc /\ tready' = tready
  BY DEF ProcessWork, ProcessLoop, ProcessGet, ProcessEmpty, Translated, Spoken, ProcessFails,
     ProcessOnly, RequestStop, PauseExceeded, vars, captureVars, timeoutVars
<1>1. \A u : Announced(u) <=> Announced(u)'
  BY <1>0 DEF Announced
<1>2. /\ cpc' = "put" => Head(cready') \in captions'
      /\ tpc' = "put" => Head(tready') \in captions'
      /\ cpc' \in {"flushTouch", "flushPut"} => cready' \in {<<>>, <<copy'>>}
  BY <1>0 DEF Transcribed
<1>3. CASE ProcessGet
  <2>1. /\ queue \in Seq(Text) /\ queue # <<>> /\ queue' = Tail(queue) /\ current' = queue[1]
    BY <1>3 DEF ProcessGet
  <2>2. /\ 1 \in 1 .. Len(queue)
        /\ \A i \in 1 .. Len(queue') : queue'[i] = queue[i + 1] /\ i + 1 \in 1 .. Len(queue)
    BY <2>1
  <2>3. \A i \in 1 .. Len(queue) : Announced(queue[i])
    BY DEF Transcribed
  <2>4. \A i \in 1 .. Len(queue') : Announced(queue[i])'
    BY <1>0, <2>2, <2>3 DEF Announced
  <2>5. Announced(current)'
    BY <1>0, <2>1, <2>2, <2>3 DEF Announced
  <2> QED
    BY <1>2, <2>4, <2>5 DEF Transcribed
<1>4. ASSUME ~ProcessGet PROVE Transcribed'
  <2>1. queue' = queue /\ current' = current /\ (ppc' = "translate" => ppc = "translate")
    BY <1>4 DEF ProcessWork, ProcessLoop, ProcessEmpty, Translated, Spoken, ProcessFails,
       RequestStop, PauseExceeded, vars, processVars
  <2>2. /\ \A i \in 1 .. Len(queue') : Announced(queue[i])'
        /\ ppc' = "translate" => Announced(current)'
    BY <1>1, <2>1, SameAnnounced
  <2> QED
    BY <1>2, <2>2 DEF Transcribed
<1> QED
  BY <1>3, <1>4

LEMMA StepCaptioned == Captioned /\ [Next]_vars => Captioned'
<1> SUFFICES ASSUME Captioned, [Next]_vars PROVE Captioned'
  OBVIOUS
<1>1. Typed'
  BY StepType DEF Captioned
<1>2. Transcribed'
  BY CaptureCaptioned, TimeoutCaptioned, OtherCaptioned DEF Next, Finished
<1> QED
  BY <1>1, <1>2 DEF Captioned

\* Whatever is recognised, whenever the pauses and the stop come: a translation is
\* shown only after the TRANSCRIPT event of its sentence, except the one sentence
\* that the flush at the end of the source queues without an event
\* (_enqueue_sentence, _timeout_loop and the finally block of _capture_loop).
THEOREM WorkerTranscripts == Spec => TranscriptBeforeTranslation
<1> DEFINE Step == shown' # shown => \/ shown'.text \in captions
                                     \/ cpc = "done" /\ shown'.text = copy
<1>1. Captioned /\ [Next]_vars => [Step]_vars
  <2> SUFFICES ASSUME Captioned, [Next]_vars, shown' # shown
               PROVE  \/ shown'.text \in captions
                      \/ cpc = "done" /\ shown'.text = copy
    OBVIOUS
  <2>1. CASE Translated
    BY <2>1 DEF Translated, Captioned, Transcribed, Announced
  <2>2. ASSUME ~Translated PROVE FALSE
    <3>1. ~(\E kinds \in Fragments : CaptureSegment(kinds)) /\ ~CaptureWork /\ ~CaptureFails
      BY DEF CaptureSegment, CaptureWork, CaptureFails, CaptureEnds, AddHasText, AddJoin,
         AddStore, AddTouch, DrainSplit, DrainRemainder, DrainLimit, DrainGuard, DrainTake,
         DrainClear, CaptureEmit, CapturePut, FinalFlushRead, FinalFlushClear, FinalFlushTouch,
         FinalFlushPut
    <3>2. ~TimeoutWork
      BY DEF TimeoutWork, TimeoutLoop, TimeoutHasText, TimeoutAge, TimeoutRead, TimeoutClear,
         TimeoutTouch, TimeoutEmit, TimeoutPut
    <3>3. ~ProcessWork
      BY <2>2 DEF ProcessWork, ProcessLoop, ProcessGet, ProcessEmpty, Spoken, ProcessFails
    <3>4. ~RequestStop /\ ~PauseExceeded /\ ~UNCHANGED vars
      BY DEF RequestStop, PauseExceeded, vars
    <3> QED
      BY <3>1, <3>2, <3>3, <3>4 DEF Next, Finished
  <2> QED
    BY <2>1, <2>2
<1>2. Spec => [][Step]_vars
  BY InitCaptioned, StepCaptioned, <1>1, PTL DEF Spec
<1> QED
  BY <1>2 DEF TranscriptBeforeTranslation
=============================================================================
