--------------------------- MODULE DirectionWorker ---------------------------
(***************************************************************************)
(* One DirectionWorker of voicebridge/pipeline/worker.py with the          *)
(* SentenceBuffer it owns (pipeline/buffer.py).  Three threads share the   *)
(* buffer, the sentence queue and the stop event:                          *)
(*                                                                         *)
(*   capture   segments -> speech to text -> SentenceBuffer.add -> queue   *)
(*   timeout   every 0.5 s: SentenceBuffer.flush_on_timeout -> queue       *)
(*   process   queue -> translate -> speech -> lip sync -> events          *)
(*                                                                         *)
(* The buffer has no lock, so every read and every write of _buffer and    *)
(* _last_update is a step of its own: a pc value names the access that     *)
(* comes next.  queue.Queue and the emit callback are thread-safe and one  *)
(* call is one step.                                                       *)
(***************************************************************************)
EXTENDS TextUtils

CONSTANTS
  Fragments,    \* kind sequences speech-to-text may return for a segment
  MaxSegments,  \* bound: segments the source yields
  Finite,       \* TRUE for a WavFileSource, which ends by itself
  WordLimit,    \* buffer.word_limit
  Speaker       \* "me" (spoken translation) or "other" (text only)

ASSUME WorkerAssumption ==
  /\ Fragments \subseteq Seq(STRING)
  /\ MaxSegments \in Nat
  /\ Finite \in BOOLEAN
  /\ WordLimit \in Nat \ {0}
  /\ Speaker \in {"me", "other"}

VARIABLES
  stop,        \* the stop event shared with the orchestrator
  buffer,      \* SentenceBuffer._buffer
  stale,       \* clock() - _last_update >= timeout
  cpc, seg, fragment, copy, cready,   \* capture thread: pc and locals
  tpc, text, tready,                  \* timeout thread
  ppc, counter, current,              \* process thread
  queue,       \* _sentence_queue
  captions,    \* texts of the TRANSCRIPT events emitted so far
  shown,       \* the latest TRANSLATION event emitted: number and text
  spoken,      \* the latest SPEECH_READY event emitted
  puts,        \* history: every sentence ever put on the queue
  accepted,    \* history: every token the buffer accepted
  dropped,     \* history: every token a should_translate_sentence guard rejected
  overlapped   \* history: a flush once overlapped an add between their accesses

captureVars == <<cpc, seg, fragment, copy, cready>>
timeoutVars == <<tpc, text, tready>>
processVars == <<ppc, counter, current>>
history     == <<accepted, dropped, overlapped>>
vars == <<stop, buffer, stale, captureVars, timeoutVars, processVars,
          queue, captions, shown, spoken, puts, history>>

-----------------------------------------------------------------------------
(* The emit callback: TRANSCRIPT events of two threads, TRANSLATION and     *)
(* SPEECH_READY of the process thread.  ERROR and STATUS carry no sentence. *)

Transcript(sentence) == captions' = captions \cup {sentence}

NoEvent == [id |-> 0, text |-> <<>>]

Put(sentence) ==
  /\ queue' = Append(queue, sentence)
  /\ puts'  = Append(puts, sentence)

Tokens(kinds, n) ==
  [i \in 1 .. Len(kinds) |-> [seg |-> n, pos |-> i, kind |-> kinds[i]]]

SegmentLimit == IF Finite THEN 1 ELSE MaxSegments

\* Between its first and its last access to the buffer, an add or the final
\* flush relies on what it has read; so does a flush between read and clear.
CaptureInBuffer == cpc \in {"join", "store", "touch", "split", "remainder",
                            "limit", "guard", "take", "clear", "flushClear"}
TimeoutInBuffer == tpc = "clear"

Init ==
  /\ stop = FALSE
  /\ buffer = <<>> /\ stale = FALSE
  /\ cpc = "listen" /\ seg = 0 /\ fragment = <<>> /\ copy = <<>> /\ cready = <<>>
  /\ tpc = "loop" /\ text = <<>> /\ tready = <<>>
  /\ ppc = "loop" /\ counter = 0 /\ current = <<>>
  /\ queue = <<>> /\ captions = {} /\ shown = NoEvent /\ spoken = NoEvent /\ puts = <<>>
  /\ accepted = {} /\ dropped = {} /\ overlapped = FALSE

-----------------------------------------------------------------------------
(* The capture thread: _capture_loop, _handle_segment, SentenceBuffer.add. *)

CaptureOnly == UNCHANGED <<stop, timeoutVars, processVars>>

\* The source yields a segment, no stop is set yet, and STT returns text for
\* it; an empty result leaves the buffer alone and the loop asks for the next.
CaptureSegment(kinds) ==
  /\ cpc = "listen" /\ ~stop /\ seg < SegmentLimit
  /\ seg' = seg + 1
  /\ fragment' = Tokens(kinds, seg + 1)
  /\ cpc' = IF kinds = <<>> THEN "listen" ELSE "hasText"
  /\ CaptureOnly
  /\ UNCHANGED <<buffer, stale, copy, cready, queue, captions, shown, spoken, puts, history>>

\* Reading the source, saving the segment or transcribing it raises: the loop
\* is over, and so is this direction's hearing.
CaptureFails ==
  /\ cpc = "listen" /\ ~stop /\ seg < SegmentLimit
  /\ cpc' = "flushRead"
  /\ CaptureOnly
  /\ UNCHANGED <<buffer, stale, seg, fragment, copy, cready, queue, captions, shown, spoken, puts, history>>

\* Faulty variant of CaptureEnds: the loop returns without the final flush.
CaptureEndsUnflushed ==
  /\ cpc = "listen"
  /\ stop \/ (Finite /\ seg = SegmentLimit)
  /\ cpc' = "done"
  /\ CaptureOnly
  /\ UNCHANGED <<buffer, stale, seg, fragment, copy, cready, queue, captions, shown, spoken, puts, history>>

\* The source ends: at stop, or by itself when it is a file.
CaptureEnds ==
  /\ cpc = "listen"
  /\ stop \/ (Finite /\ seg = SegmentLimit)
  /\ cpc' = "flushRead"
  /\ CaptureOnly
  /\ UNCHANGED <<buffer, stale, seg, fragment, copy, cready, queue, captions, shown, spoken, puts, history>>

AddHasText ==
  /\ cpc = "hasText"
  /\ IF ShouldAccept(fragment, buffer # <<>>)
     THEN /\ cpc' = IF buffer # <<>> THEN "join" ELSE "store"
          /\ overlapped' = (overlapped \/ TimeoutInBuffer)
     ELSE cpc' = "listen" /\ UNCHANGED overlapped
  /\ fragment' = IF cpc' = "listen" THEN <<>> ELSE fragment
  /\ CaptureOnly
  /\ UNCHANGED <<buffer, stale, seg, copy, cready, queue, captions, shown, spoken, puts, accepted, dropped>>

AddJoin ==
  /\ cpc = "join"
  /\ copy' = buffer
  /\ cpc' = "store"
  /\ CaptureOnly
  /\ UNCHANGED <<buffer, stale, seg, fragment, cready, queue, captions, shown, spoken, puts, history>>

\* Faulty variant of AddStore: the new fragment in front of the pending text.
AddStoreInFront ==
  /\ cpc = "store"
  /\ buffer' = fragment \o copy
  /\ accepted' = accepted \cup ToSet(fragment)
  /\ cpc' = "touch"
  /\ fragment' = <<>> /\ copy' = <<>>
  /\ CaptureOnly
  /\ UNCHANGED <<stale, seg, cready, queue, captions, shown, spoken, puts, dropped, overlapped>>

AddStore ==
  /\ cpc = "store"
  /\ buffer' = copy \o fragment
  /\ accepted' = accepted \cup ToSet(fragment)
  /\ cpc' = "touch"
  /\ fragment' = <<>> /\ copy' = <<>>
  /\ CaptureOnly
  /\ UNCHANGED <<stale, seg, cready, queue, captions, shown, spoken, puts, dropped, overlapped>>

AddTouch ==
  /\ cpc = "touch"
  /\ stale' = FALSE
  /\ cpc' = "split"
  /\ CaptureOnly
  /\ UNCHANGED <<buffer, seg, fragment, copy, cready, queue, captions, shown, spoken, puts, history>>

DrainSplit ==
  /\ cpc = "split"
  /\ LET complete == CompleteSentences(buffer)
     IN  /\ cready'  = Translatable(complete)
         /\ dropped' = dropped \cup
              UNION {ToSet(s) : s \in {c \in ToSet(complete) : ~ShouldTranslate(c)}}
  /\ copy' = Remainder(buffer)
  /\ cpc' = "remainder"
  /\ CaptureOnly
  /\ UNCHANGED <<buffer, stale, seg, fragment, queue, captions, shown, spoken, puts, accepted, overlapped>>

DrainRemainder ==
  /\ cpc = "remainder"
  /\ buffer' = copy
  /\ copy' = <<>>
  /\ cpc' = "limit"
  /\ CaptureOnly
  /\ UNCHANGED <<stale, seg, fragment, cready, queue, captions, shown, spoken, puts, history>>

\* Faulty variant of DrainLimit: a text of just as many words stays pending.
DrainLimitLate ==
  /\ cpc = "limit"
  /\ cpc' = IF CountWords(buffer) > WordLimit THEN "guard"
            ELSE IF cready # <<>> THEN "emit" ELSE "listen"
  /\ CaptureOnly
  /\ UNCHANGED <<buffer, stale, seg, fragment, copy, cready, queue, captions, shown, spoken, puts, history>>

DrainLimit ==
  /\ cpc = "limit"
  /\ cpc' = IF CountWords(buffer) >= WordLimit THEN "guard"
            ELSE IF cready # <<>> THEN "emit" ELSE "listen"
  /\ CaptureOnly
  /\ UNCHANGED <<buffer, stale, seg, fragment, copy, cready, queue, captions, shown, spoken, puts, history>>

DrainGuard ==
  /\ cpc = "guard"
  /\ IF ShouldTranslate(buffer)
     THEN cpc' = "take" /\ UNCHANGED dropped
     ELSE cpc' = "clear" /\ dropped' = dropped \cup ToSet(buffer)
  /\ CaptureOnly
  /\ UNCHANGED <<buffer, stale, seg, fragment, copy, cready, queue, captions, shown, spoken, puts,
                 accepted, overlapped>>

DrainTake ==
  /\ cpc = "take"
  /\ cready' = Append(cready, buffer)
  /\ cpc' = "clear"
  /\ CaptureOnly
  /\ UNCHANGED <<buffer, stale, seg, fragment, copy, queue, captions, shown, spoken, puts, history>>

\* Faulty variant of DrainClear: the buffer is not reset after the word limit.
DrainKeep ==
  /\ cpc = "clear"
  /\ cpc' = IF cready # <<>> THEN "emit" ELSE "listen"
  /\ CaptureOnly
  /\ UNCHANGED <<buffer, stale, seg, fragment, copy, cready, queue, captions, shown, spoken, puts, history>>

DrainClear ==
  /\ cpc = "clear"
  /\ buffer' = <<>>
  /\ cpc' = IF cready # <<>> THEN "emit" ELSE "listen"
  /\ CaptureOnly
  /\ UNCHANGED <<stale, seg, fragment, copy, cready, queue, captions, shown, spoken, puts, history>>

\* Faulty variant of CaptureEmit: the sentence is queued without its event.
CaptureEmitNothing ==
  /\ cpc = "emit"
  /\ cpc' = "put"
  /\ CaptureOnly
  /\ UNCHANGED <<buffer, stale, seg, fragment, copy, cready, queue, captions, shown, spoken, puts, history>>

\* _enqueue_sentence: the TRANSCRIPT event first, then the queue.
CaptureEmit ==
  /\ cpc = "emit"
  /\ Transcript(Head(cready))
  /\ cpc' = "put"
  /\ CaptureOnly
  /\ UNCHANGED <<buffer, stale, seg, fragment, copy, cready, queue, shown, spoken, puts, history>>

CapturePut ==
  /\ cpc = "put"
  /\ Put(Head(cready))
  /\ cready' = Tail(cready)
  /\ cpc' = IF cready' # <<>> THEN "emit" ELSE "listen"
  /\ CaptureOnly
  /\ UNCHANGED <<buffer, stale, seg, fragment, copy, captions, shown, spoken, history>>

\* The finally block: force_flush, then the queue with no TRANSCRIPT event.
FinalFlushRead ==
  /\ cpc = "flushRead"
  /\ copy' = buffer
  /\ overlapped' = (overlapped \/ TimeoutInBuffer)
  /\ cpc' = "flushClear"
  /\ CaptureOnly
  /\ UNCHANGED <<buffer, stale, seg, fragment, cready, queue, captions, shown, spoken, puts, accepted, dropped>>

FinalFlushClear ==
  /\ cpc = "flushClear"
  /\ buffer' = <<>>
  /\ cready' = IF copy # <<>> /\ ShouldTranslate(copy) THEN <<copy>> ELSE <<>>
  /\ dropped' = IF cready' = <<>> THEN dropped \cup ToSet(copy) ELSE dropped
  /\ cpc' = "flushTouch"
  /\ CaptureOnly
  /\ UNCHANGED <<stale, seg, fragment, copy, queue, captions, shown, spoken, puts, accepted, overlapped>>

FinalFlushTouch ==
  /\ cpc = "flushTouch"
  /\ stale' = FALSE
  /\ cpc' = IF cready # <<>> THEN "flushPut" ELSE "done"
  /\ CaptureOnly
  /\ UNCHANGED <<buffer, seg, fragment, copy, cready, queue, captions, shown, spoken, puts, history>>

FinalFlushPut ==
  /\ cpc = "flushPut"
  /\ Put(Head(cready))
  /\ cready' = <<>>
  /\ cpc' = "done"
  /\ CaptureOnly
  /\ UNCHANGED <<buffer, stale, seg, fragment, copy, captions, shown, spoken, history>>

CaptureWork ==
  \/ CaptureEnds \/ AddHasText \/ AddJoin \/ AddStore \/ AddTouch
  \/ DrainSplit \/ DrainRemainder \/ DrainLimit \/ DrainGuard \/ DrainTake \/ DrainClear
  \/ CaptureEmit \/ CapturePut
  \/ FinalFlushRead \/ FinalFlushClear \/ FinalFlushTouch \/ FinalFlushPut

-----------------------------------------------------------------------------
(* The timeout thread: _timeout_loop, SentenceBuffer.flush_on_timeout.     *)

TimeoutOnly == UNCHANGED <<stop, captureVars, processVars>>

\* Faulty variant of TimeoutLoop: the thread does not look at the stop event.
TimeoutLoopForever ==
  /\ tpc = "loop"
  /\ tpc' = "awake"
  /\ TimeoutOnly
  /\ UNCHANGED <<buffer, stale, text, tready, queue, captions, shown, spoken, puts, history>>

TimeoutLoop ==
  /\ tpc = "loop"
  /\ tpc' = IF stop THEN "done" ELSE "awake"
  /\ TimeoutOnly
  /\ UNCHANGED <<buffer, stale, text, tready, queue, captions, shown, spoken, puts, history>>

TimeoutHasText ==
  /\ tpc = "awake"
  /\ tpc' = IF buffer # <<>> THEN "age" ELSE "loop"
  /\ TimeoutOnly
  /\ UNCHANGED <<buffer, stale, text, tready, queue, captions, shown, spoken, puts, history>>

TimeoutAge ==
  /\ tpc = "age"
  /\ tpc' = IF stale THEN "read" ELSE "loop"
  /\ TimeoutOnly
  /\ UNCHANGED <<buffer, stale, text, tready, queue, captions, shown, spoken, puts, history>>

TimeoutRead ==
  /\ tpc = "read"
  /\ text' = buffer
  /\ overlapped' = (overlapped \/ CaptureInBuffer)
  /\ tpc' = "clear"
  /\ TimeoutOnly
  /\ UNCHANGED <<buffer, stale, tready, queue, captions, shown, spoken, puts, accepted, dropped>>

TimeoutClear ==
  /\ tpc = "clear"
  /\ buffer' = <<>>
  /\ tready' = IF text # <<>> /\ ShouldTranslate(text) THEN <<text>> ELSE <<>>
  /\ dropped' = IF tready' = <<>> THEN dropped \cup ToSet(text) ELSE dropped
  /\ text' = <<>>
  /\ tpc' = "touch"
  /\ TimeoutOnly
  /\ UNCHANGED <<stale, queue, captions, shown, spoken, puts, accepted, overlapped>>

TimeoutTouch ==
  /\ tpc = "touch"
  /\ stale' = FALSE
  /\ tpc' = IF tready # <<>> THEN "emit" ELSE "loop"
  /\ TimeoutOnly
  /\ UNCHANGED <<buffer, text, tready, queue, captions, shown, spoken, puts, history>>

TimeoutEmit ==
  /\ tpc = "emit"
  /\ Transcript(Head(tready))
  /\ tpc' = "put"
  /\ TimeoutOnly
  /\ UNCHANGED <<buffer, stale, text, tready, queue, shown, spoken, puts, history>>

TimeoutPut ==
  /\ tpc = "put"
  /\ Put(Head(tready))
  /\ tready' = <<>>
  /\ tpc' = "loop"
  /\ TimeoutOnly
  /\ UNCHANGED <<buffer, stale, text, captions, shown, spoken, history>>

TimeoutWork ==
  \/ TimeoutLoop \/ TimeoutHasText \/ TimeoutAge \/ TimeoutRead
  \/ TimeoutClear \/ TimeoutTouch \/ TimeoutEmit \/ TimeoutPut

-----------------------------------------------------------------------------
(* The process thread: _process_loop and _process_sentence.                *)

ProcessOnly ==
  UNCHANGED <<stop, buffer, stale, captureVars, timeoutVars, captions, puts, history>>

ProcessLoop ==
  /\ ppc = "loop"
  /\ ppc' = IF stop THEN "done" ELSE "get"
  /\ ProcessOnly
  /\ UNCHANGED <<counter, current, queue, shown, spoken>>

\* Faulty variant of ProcessGet: the newest sentence is taken first.
ProcessGetNewest ==
  /\ ppc = "get" /\ queue # <<>>
  /\ current' = Last(queue)
  /\ queue' = Front(queue)
  /\ counter' = counter + 1
  /\ ppc' = "translate"
  /\ ProcessOnly
  /\ UNCHANGED <<shown, spoken>>

\* get(timeout=0.3): a sentence, or queue.Empty and another look at the stop.
ProcessGet ==
  /\ ppc = "get" /\ queue # <<>>
  /\ current' = Head(queue)
  /\ queue' = Tail(queue)
  /\ counter' = counter + 1
  /\ ppc' = "translate"
  /\ ProcessOnly
  /\ UNCHANGED <<shown, spoken>>

ProcessEmpty ==
  /\ ppc = "get" /\ queue = <<>>
  /\ ppc' = "loop"
  /\ ProcessOnly
  /\ UNCHANGED <<counter, current, queue, shown, spoken>>

Translated ==
  /\ ppc = "translate"
  /\ shown' = [id |-> counter, text |-> current]
  /\ ppc' = IF Speaker = "other" THEN "loop" ELSE "speak"
  /\ ProcessOnly
  /\ UNCHANGED <<counter, current, queue, spoken>>

\* Speech synthesis and lip sync succeed; the metrics are recorded on the way.
Spoken ==
  /\ ppc = "speak"
  /\ spoken' = [id |-> counter, text |-> current]
  /\ ppc' = "loop"
  /\ ProcessOnly
  /\ UNCHANGED <<counter, current, queue, shown>>

\* Faulty variant of ProcessFails: an exception ends the process thread.
ProcessFailsForGood ==
  /\ ppc \in {"translate", "speak"}
  /\ ppc' = "done"
  /\ ProcessOnly
  /\ UNCHANGED <<counter, current, queue, shown, spoken>>

\* A TranslationError, or any exception of a later stage: an ERROR event, and
\* the sentence is abandoned where it is.
ProcessFails ==
  /\ ppc \in {"translate", "speak"}
  /\ ppc' = "loop"
  /\ ProcessOnly
  /\ UNCHANGED <<counter, current, queue, shown, spoken>>

ProcessWork ==
  \/ ProcessLoop \/ ProcessGet \/ ProcessEmpty
  \/ Translated \/ Spoken \/ ProcessFails

-----------------------------------------------------------------------------
(* The orchestrator sets the stop event.  Time passes: the age of the last  *)
(* update is looked at only while the buffer has text.                      *)

RequestStop ==
  /\ ~stop
  /\ stop' = TRUE
  /\ UNCHANGED <<buffer, stale, captureVars, timeoutVars, processVars,
                 queue, captions, shown, spoken, puts, history>>

PauseExceeded ==
  /\ ~stale /\ buffer # <<>>
  /\ stale' = TRUE
  /\ UNCHANGED <<stop, buffer, captureVars, timeoutVars, processVars,
                 queue, captions, shown, spoken, puts, history>>

AllDone == cpc = "done" /\ tpc = "done" /\ ppc = "done"

\* The three threads have returned: nothing more can happen.
Finished == AllDone /\ UNCHANGED vars

Next ==
  \/ \E kinds \in Fragments : CaptureSegment(kinds)
  \/ CaptureFails
  \/ CaptureWork
  \/ TimeoutWork
  \/ ProcessWork
  \/ RequestStop
  \/ PauseExceeded
  \/ Finished

\* Threads that can run do run, and time passes.  Nobody is bound to speak or
\* to press stop.
Fairness ==
  /\ WF_vars(CaptureWork)
  /\ WF_vars(TimeoutWork)
  /\ WF_vars(ProcessWork)
  /\ WF_vars(PauseExceeded)

Spec == Init /\ [][Next]_vars /\ Fairness

-----------------------------------------------------------------------------
(* Properties.                                                             *)

Token == [seg : Nat, pos : Nat, kind : STRING]
Text  == Seq(Token)

\* No add is between its store to the buffer and its return.
BetweenAdds == cpc \notin {"touch", "split", "remainder", "limit", "guard", "take", "clear"}

\* Type correctness of the worker's state: among it that no add leaves as many
\* words pending as the limit allows, whatever the timeout thread does meanwhile
\* (SentenceBuffer._drain).
TypeOK ==
  /\ stop \in BOOLEAN /\ stale \in BOOLEAN /\ overlapped \in BOOLEAN
  /\ BetweenAdds => CountWords(buffer) < WordLimit
  /\ buffer \in Text /\ fragment \in Text /\ copy \in Text /\ text \in Text
  /\ current \in Text
  /\ cready \in Seq(Text) /\ tready \in Seq(Text) /\ queue \in Seq(Text) /\ puts \in Seq(Text)
  /\ cpc \in {"listen", "hasText", "join", "store", "touch", "split", "remainder",
              "limit", "guard", "take", "clear", "emit", "put",
              "flushRead", "flushClear", "flushTouch", "flushPut", "done"}
  /\ tpc \in {"loop", "awake", "age", "read", "clear", "touch", "emit", "put", "done"}
  /\ ppc \in {"loop", "get", "translate", "speak", "done"}
  /\ seg \in Nat /\ counter \in Nat
  /\ captions \subseteq Text
  /\ shown \in [id : Nat, text : Text] /\ spoken \in [id : Nat, text : Text]
  /\ accepted \subseteq Token /\ dropped \subseteq Token

\* Sentence n of the direction is the n-th sentence put on the queue: whatever
\* fails on the way, none is skipped or taken twice, and no event carries the
\* text of one sentence under the number of another (_process_sentence).
NumbersMatchSentences ==
  /\ Len(puts) = counter + Len(queue)
  /\ \A i \in 1 .. Len(queue) : queue[i] = puts[counter + i]
  /\ ppc \in {"translate", "speak"} => counter > 0 /\ current = puts[counter]
  /\ \A event \in {shown, spoken} :
       event # NoEvent => event.id \in 1 .. counter /\ event.text = puts[event.id]

\* The listener reads and hears each sentence at most once and in queue order,
\* and hears it right after reading it, before anything else is shown.
SpeechFollowsTranslation ==
  [][/\ shown' # shown => shown'.id > shown.id /\ shown'.id > spoken.id
     /\ spoken' # spoken => spoken'.id > spoken.id /\ spoken' = shown]_vars

\* A translation is never shown before the transcript it translates, though two
\* other threads emit the transcripts; only the flush at the end of the source
\* queues a sentence without a TRANSCRIPT (_enqueue_sentence, _capture_loop).
TranscriptBeforeTranslation ==
  [][shown' # shown => \/ shown'.text \in captions
                       \/ cpc = "done" /\ shown'.text = copy]_vars

\* What a sentence says is in the order it was spoken, whatever the two threads
\* that touch the buffer do to each other (SentenceBuffer.add, force_flush).
WordsInSpeechOrder ==
  \A s \in ToSet(puts) : \A i, j \in 1 .. Len(s) :
    i < j => \/ s[i].seg < s[j].seg
             \/ s[i].seg = s[j].seg /\ s[i].pos < s[j].pos

\* Where the accepted tokens are when no thread is inside the buffer: in what
\* was queued, in what is on its way to the queue, or pending.
Pieces == puts \o cready \o tready \o <<buffer>>
Held == UNION {ToSet(s) : s \in ToSet(Pieces)}
Quiet == ~CaptureInBuffer /\ ~TimeoutInBuffer

\* The accepted tokens that are nowhere: not released, not pending and not
\* rejected by a guard.
Lost == accepted \ (Held \cup dropped)

\* Every queued sentence has passed "Final guard before translation"
\* (text_utils.py:141).
OnlyGuardedQueued == \A i \in 1 .. Len(puts) : ShouldTranslate(puts[i])

\* As long as no flush has come between the accesses of an add (or the reverse),
\* every accepted token is in exactly one place: pending, on its way to the
\* queue, queued once, or rejected by should_translate_sentence; and what is queued
\* is what that guard has looked at, though _drain reads the buffer again after it.
ConservedUnlessOverlapped ==
  Quiet /\ ~overlapped =>
    /\ Lost = {}
    /\ \A m, n \in 1 .. Len(Pieces) :
         \A i \in 1 .. Len(Pieces[m]), j \in 1 .. Len(Pieces[n]) :
           Pieces[m][i] = Pieces[n][j] => m = n /\ i = j
    /\ Held \cap dropped = {}
    /\ OnlyGuardedQueued

\* "Unconditionally release whatever is buffered" (buffer.py:95): accepted text
\* never vanishes.
NothingLost == Quiet => Lost = {}

\* After the stop event every thread returns, so Orchestrator.stop can join them.
StopEndsThreads == stop ~> AllDone

\* A queued sentence is taken up unless the call is stopped first.
SentencesProcessed ==
  \A n \in 1 .. 2 * MaxSegments :
    (Len(puts) >= n) ~> (stop \/ (counter >= n /\ (counter = n => ppc \notin {"translate", "speak"})))

\* A pause releases what is pending: text does not stay in the buffer, with or
\* without a stop (_timeout_loop, the finally of _capture_loop).
PendingTextLeaves == (buffer # <<>>) ~> (buffer = <<>>)
=============================================================================
