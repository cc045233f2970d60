------------------------------ MODULE Prototype ------------------------------
(***************************************************************************)
(* The earlier single-file program, main.py: two directions, each a line   *)
(* of threads joined by unbounded queues,                                  *)
(*                                                                         *)
(*   producer -> audio -> STT -> text -> buffer -> sentence -> translator  *)
(*            -> translated -> speech                                      *)
(*                                                                         *)
(* and ended by a sentinel that each stage hands on to the next.  "me" is  *)
(* the microphone, "other" an optional WAV file.  The directions share the *)
(* stop event and the lock of the Whisper model.  Every text is local to   *)
(* one thread, so what a stage does with one item is one step.             *)
(*                                                                         *)
(* An item is a record of a number and a text; the sentinel is number 0.   *)
(***************************************************************************)
EXTENDS TextUtils

CONSTANTS
  Transcripts,  \* what Whisper may return for a chunk: sequences of segments
  ChunksAlone,  \* bound: chunks the microphone records without a WAV file
  ChunksBeside, \* bound: chunks the microphone records beside a WAV file
  StraysAlone,  \* bound: files left behind by faults of the disk, and
  StraysBeside, \* bound: the same beside a WAV file
  WordLimit     \* BUFFER_WORD_LIMIT

VARIABLES
  active,    \* the directions in use: "other" only if a WAV file was named
  main,      \* the main thread: where it is
  stop,      \* stop_event
  lock,      \* whisper_lock: the direction that holds it, or "free"
  pc,        \* where each thread of each direction is
  queue,     \* the four queues of each PipelineContext
  hold,      \* the item a stage has taken and not finished
  buffer,    \* buffer_text of sentence_buffer_worker
  count,     \* chunks recorded and sentences emitted so far
  files,     \* the numbers of the chunks whose temporary file was written
  strays,    \* files nobody will delete: torn by a failed save, or kept by a
             \* failed deletion, by the numbers of their chunks
  heard,     \* history: the tokens the buffer accepted
  gone,      \* history: tokens that a guard or a failed translation dropped
  reached    \* history: tokens that reached the speech thread

history == <<heard, gone, reached>>
disk == <<files, strays>>
vars == <<active, main, stop, lock, pc, queue, hold, buffer, count, disk, history>>

Directions == {"me", "other"}
MaxChunks  == IF "other" \in active THEN ChunksBeside ELSE ChunksAlone
MaxStrays  == IF "other" \in active THEN StraysBeside ELSE StraysAlone
Stages     == {"producer", "stt", "buffer", "translator", "speech"}
Queues     == {"audio", "text", "sentence", "translated"}

Item(n, text) == [id |-> n, text |-> text]
Sentinel == Item(0, <<>>)

-----------------------------------------------------------------------------
(* The rules of main.py on texts: the same as those of text_utils.py.       *)

Noise(text) == LooksLikeNoise(text)

Accepted(text, pending) == ShouldAccept(text, pending # <<>>)

Worthwhile(sentence) == ShouldTranslate(sentence)

Sentences(text) == CompleteSentences(text)

Unfinished(text) == Remainder(text)

\* Whisper's three signs of text that nobody spoke.
IsReliable(segment) ==
  ~segment.silent /\ ~segment.unsure /\ ~segment.repetitive

\* The kinds of the tokens that the reliable segments of a chunk say.
Said(segments) ==
  FlattenSeq([i \in 1 .. Len(segments) |->
                IF IsReliable(segments[i]) THEN segments[i].kinds ELSE <<>>])

ASSUME PrototypeAssumption ==
  /\ ChunksAlone \in Nat /\ ChunksBeside \in Nat
  /\ StraysAlone \in Nat /\ StraysBeside \in Nat
  /\ WordLimit \in Nat \ {0}
  /\ \A segments \in Transcripts : Said(segments) \in Seq(STRING)

Spoken(segments, n) ==
  LET kinds == Said(segments)
  IN  [i \in 1 .. Len(kinds) |-> [seg |-> n, pos |-> i, kind |-> kinds[i]]]

-----------------------------------------------------------------------------
Fresh ==
  /\ active \in {{"me"}, Directions}
  /\ stop = FALSE /\ lock = "free"
  /\ pc = [d \in Directions |-> [s \in Stages |-> "off"]]
  /\ queue = [d \in Directions |-> [q \in Queues |-> <<>>]]
  /\ hold = [d \in Directions |-> [s \in Stages |-> Sentinel]]
  /\ buffer = [d \in Directions |-> <<>>]
  /\ count = [d \in Directions |-> [chunk |-> 0, sentence |-> 0]]
  /\ files = [d \in Directions |-> {}] /\ strays = [torn |-> {}, kept |-> {}]
  /\ heard = [d \in Directions |-> {}]
  /\ gone = heard /\ reached = heard

Init == Fresh /\ main = "load"

-----------------------------------------------------------------------------
(* The main thread.                                                        *)

MainOnly == UNCHANGED <<active, lock, hold, buffer, count, disk, history>>

\* The model on CUDA or on the CPU; the program ends when neither loads.
LoadModel ==
  /\ main = "load"
  /\ main' \in {"start", "exited"}
  /\ MainOnly /\ UNCHANGED <<stop, pc, queue>>

StartWorkers(d) ==
  /\ main = "start" /\ d \in active /\ pc[d].stt = "off"
  /\ d = "other" => pc["me"].stt # "off"
  /\ pc' = [pc EXCEPT ![d] = [s \in Stages |-> "loop"]]
  /\ main' = IF \A e \in active : pc'[e].stt # "off" THEN "run" ELSE "start"
  /\ MainOnly /\ UNCHANGED <<stop, queue>>

\* Ctrl+C before the main loop, or again in its handler, is caught by nobody:
\* the program ends.
InterruptUncaught ==
  /\ main \in {"load", "start"} \cup Directions
  /\ main' = "exited"
  /\ MainOnly /\ UNCHANGED <<stop, pc, queue>>

\* Faulty variant of Interrupt: the stop event is not set.
InterruptUnset ==
  /\ main = "run"
  /\ main' = "me"
  /\ MainOnly /\ UNCHANGED <<stop, pc, queue>>

\* stop_pipelines: the event, then a sentinel for each direction in turn
\* (main holds the direction whose turn it is).
Interrupt ==
  /\ main = "run"
  /\ stop' = TRUE
  /\ main' = "me"
  /\ MainOnly /\ UNCHANGED <<pc, queue>>

WakeStt(d) ==
  /\ main = d
  /\ queue' = [queue EXCEPT ![d].audio = Append(@, Sentinel)]
  /\ main' = IF d = "me" /\ "other" \in active THEN "other" ELSE "join"
  /\ MainOnly /\ UNCHANGED <<stop, pc>>

\* The joins are over, by the end of the threads or after 5 s each; then the
\* program ends, and with it the threads, which are daemons.
Leave ==
  /\ main = "join"
  /\ main' = "exited"
  /\ MainOnly /\ UNCHANGED <<stop, pc, queue>>

-----------------------------------------------------------------------------
(* The threads.                                                            *)

CanStray == Cardinality(strays.torn) + Cardinality(strays.kept) < MaxStrays

At(d, stage, place) == main # "exited" /\ pc[d][stage] = place
Goto(d, stage, place) == pc' = [pc EXCEPT ![d][stage] = place]

ThreadOnly == UNCHANGED <<active, main, stop>>
ProducerOnly == ThreadOnly /\ UNCHANGED <<lock, hold, buffer, history>>

\* microphone_recorder_worker.
RecorderLoop ==
  /\ At("me", "producer", "loop")
  /\ Goto("me", "producer", IF stop THEN "done" ELSE "recording")
  /\ ProducerOnly /\ UNCHANGED <<queue, count, disk>>

\* Four seconds are over, or sd.stop cut them short.
RecorderCheck ==
  /\ At("me", "producer", "recording")
  /\ stop \/ count["me"].chunk < MaxChunks
  /\ Goto("me", "producer", IF stop THEN "done" ELSE "save")
  /\ ProducerOnly /\ UNCHANGED <<queue, count, disk>>

RecorderPut ==
  /\ At("me", "producer", "save")
  /\ LET n == count["me"].chunk + 1
     IN  /\ count' = [count EXCEPT !["me"].chunk = n]
         /\ files' = [files EXCEPT !["me"] = @ \cup {n}]
         /\ queue' = [queue EXCEPT !["me"].audio = Append(@, Item(n, <<>>))]
  /\ Goto("me", "producer", "loop")
  /\ ProducerOnly /\ UNCHANGED strays

\* An exception of the device: the same chunk again after 0.5 s.
RecordingFails ==
  /\ At("me", "producer", "recording")
  /\ Goto("me", "producer", "loop")
  /\ ProducerOnly /\ UNCHANGED <<queue, count, disk>>

\* An exception of the disk, before or after the file was opened: what was
\* written of it stays, and the next attempt takes a file of another name.
SaveChunkFails ==
  /\ At("me", "producer", "save")
  /\ Goto("me", "producer", "loop")
  /\ \/ UNCHANGED strays
     \/ /\ CanStray
        /\ strays' = [strays EXCEPT !.torn = @ \cup {count["me"].chunk + 1}]
  /\ ProducerOnly /\ UNCHANGED <<queue, count, files>>

\* wav_file_producer_worker: the file, then the sentinel.
WavPut ==
  /\ At("other", "producer", "loop")
  /\ queue' = [queue EXCEPT !["other"].audio = Append(@, Item(1, <<>>))]
  /\ count' = [count EXCEPT !["other"].chunk = 1]
  /\ Goto("other", "producer", "end")
  /\ ProducerOnly /\ UNCHANGED disk

WavEnd ==
  /\ At("other", "producer", "end")
  /\ queue' = [queue EXCEPT !["other"].audio = Append(@, Sentinel)]
  /\ Goto("other", "producer", "done")
  /\ ProducerOnly /\ UNCHANGED <<count, disk>>

Producer == RecorderLoop \/ RecorderCheck \/ RecorderPut \/ WavPut \/ WavEnd

-----------------------------------------------------------------------------
(* stt_worker.                                                             *)

SttOnly == ThreadOnly /\ UNCHANGED <<buffer, count, history>>

SttTake(d) ==
  /\ At(d, "stt", "loop") /\ queue[d].audio # <<>>
  /\ Head(queue[d].audio) # Sentinel
  /\ queue' = [queue EXCEPT ![d].audio = Tail(@)]
  /\ hold' = [hold EXCEPT ![d].stt = Head(queue[d].audio)]
  /\ Goto(d, "stt", "lock")
  /\ SttOnly /\ UNCHANGED <<lock, disk>>

\* Faulty variant of SttEnds: the sentinel is not handed on.
SttEndsSilently(d) ==
  /\ At(d, "stt", "loop") /\ queue[d].audio # <<>>
  /\ Head(queue[d].audio) = Sentinel
  /\ queue' = [queue EXCEPT ![d].audio = Tail(@)]
  /\ Goto(d, "stt", "done")
  /\ SttOnly /\ UNCHANGED <<lock, hold, disk>>

SttEnds(d) ==
  /\ At(d, "stt", "loop") /\ queue[d].audio # <<>>
  /\ Head(queue[d].audio) = Sentinel
  /\ queue' = [queue EXCEPT ![d].audio = Tail(@), ![d].text = Append(@, Sentinel)]
  /\ Goto(d, "stt", "done")
  /\ SttOnly /\ UNCHANGED <<lock, hold, disk>>

SttLock(d) ==
  /\ At(d, "stt", "lock") /\ lock = "free"
  /\ lock' = d
  /\ Goto(d, "stt", "transcribe")
  /\ SttOnly /\ UNCHANGED <<queue, hold, disk>>

\* The finally block deletes the chunk's file; a deletion that fails is logged.
\* The WAV file of "other" is left alone.
Deleted(d) ==
  \/ /\ files' = [files EXCEPT ![d] = @ \ {hold[d].stt.id}]
     /\ UNCHANGED strays
  \/ /\ d = "me" /\ CanStray /\ UNCHANGED files
     /\ strays' = [strays EXCEPT !.kept = @ \cup {hold[d].stt.id}]

\* Faulty variant of SttFinish: noise leaves before its file is deleted.
SttFinishEarly(d, text) ==
  /\ At(d, "stt", "transcribe")
  /\ lock' = "free"
  /\ queue' = IF Noise(text) THEN queue
              ELSE [queue EXCEPT ![d].text = Append(@, Item(hold[d].stt.id, text))]
  /\ IF Noise(text) THEN UNCHANGED disk ELSE Deleted(d)
  /\ hold' = [hold EXCEPT ![d].stt = Sentinel]
  /\ Goto(d, "stt", "loop")
  /\ SttOnly

\* The lock is released, the text queued unless it is noise, the file deleted.
SttFinish(d, text) ==
  /\ At(d, "stt", "transcribe")
  /\ lock' = "free"
  /\ queue' = IF Noise(text) THEN queue
              ELSE [queue EXCEPT ![d].text = Append(@, Item(hold[d].stt.id, text))]
  /\ Deleted(d)
  /\ hold' = [hold EXCEPT ![d].stt = Sentinel]
  /\ Goto(d, "stt", "loop")
  /\ SttOnly

Transcribes(d) ==
  \E segments \in Transcripts : SttFinish(d, Spoken(segments, hold[d].stt.id))

\* Whisper raises: the finally block does the same, without a text.
SttFails(d) == SttFinish(d, <<>>)

Stt(d) == SttTake(d) \/ SttEnds(d) \/ SttLock(d) \/ Transcribes(d) \/ SttFails(d)

-----------------------------------------------------------------------------
(* sentence_buffer_worker.                                                 *)

BufferOnly == ThreadOnly /\ UNCHANGED <<lock, hold, disk, reached>>

Numbered(sentences, n) ==
  [i \in 1 .. Len(sentences) |-> Item(n + i, sentences[i])]

Tokens(sentences) == UNION {ToSet(s) : s \in ToSet(sentences)}

\* emit_sentence for each of the candidates in turn, then more; texts is what
\* remains of the text queue.
Emit(d, texts, candidates, then) ==
  LET emitted == Translatable(candidates)
  IN  /\ queue' = [queue EXCEPT
           ![d].text = texts,
           ![d].sentence = @ \o Numbered(emitted, count[d].sentence) \o then]
      /\ count' = [count EXCEPT ![d].sentence = @ + Len(emitted)]
      /\ gone' = [gone EXCEPT ![d] = @ \cup
                     UNION {ToSet(s) : s \in {t \in ToSet(candidates) : ~Worthwhile(t)}}]

IgnoreFragment(d) ==
  /\ At(d, "buffer", "loop") /\ queue[d].text # <<>>
  /\ Head(queue[d].text) # Sentinel
  /\ ~Accepted(Head(queue[d].text).text, buffer[d])
  /\ queue' = [queue EXCEPT ![d].text = Tail(@)]
  /\ BufferOnly /\ UNCHANGED <<pc, buffer, count, heard, gone>>

\* What is left of the pending text, and whether it is full.
Pending(d) == buffer[d] \o Head(queue[d].text).text
Full(text) == text # <<>> /\ CountWords(text) >= WordLimit

\* Faulty variant of AddFragment: the new fragment in front of the pending text.
AddFragmentInFront(d) ==
  /\ At(d, "buffer", "loop") /\ queue[d].text # <<>>
  /\ Head(queue[d].text) # Sentinel
  /\ LET fragment == Head(queue[d].text).text
         text == fragment \o buffer[d]
         rest == Unfinished(text)
     IN  /\ Accepted(fragment, buffer[d])
         /\ heard' = [heard EXCEPT ![d] = @ \cup ToSet(fragment)]
         /\ buffer' = [buffer EXCEPT ![d] = IF Full(rest) THEN <<>> ELSE rest]
         /\ Emit(d, Tail(queue[d].text), IF Full(rest) THEN Append(Sentences(text), rest) ELSE Sentences(text), <<>>)
  /\ BufferOnly /\ UNCHANGED pc

AddFragment(d) ==
  /\ At(d, "buffer", "loop") /\ queue[d].text # <<>>
  /\ Head(queue[d].text) # Sentinel
  /\ LET fragment == Head(queue[d].text).text
         text == Pending(d)
         rest == Unfinished(text)
     IN  /\ Accepted(fragment, buffer[d])
         /\ heard' = [heard EXCEPT ![d] = @ \cup ToSet(fragment)]
         /\ buffer' = [buffer EXCEPT ![d] = IF Full(rest) THEN <<>> ELSE rest]
         /\ Emit(d, Tail(queue[d].text), IF Full(rest) THEN Append(Sentences(text), rest) ELSE Sentences(text), <<>>)
  /\ BufferOnly /\ UNCHANGED pc

\* flush_if_timed_out: no text came for 0.5 s, and none was added for 4 s.
BufferTimeout(d) ==
  /\ At(d, "buffer", "loop") /\ queue[d].text = <<>> /\ buffer[d] # <<>>
  /\ Emit(d, <<>>, <<buffer[d]>>, <<>>)
  /\ buffer' = [buffer EXCEPT ![d] = <<>>]
  /\ BufferOnly /\ UNCHANGED <<pc, heard>>

\* Faulty variant of BufferEnds: the sentinel goes out before the pending text.
BufferEndsFirst(d) ==
  /\ At(d, "buffer", "loop") /\ queue[d].text # <<>>
  /\ Head(queue[d].text) = Sentinel
  /\ LET emitted == Translatable(IF buffer[d] # <<>> THEN <<buffer[d]>> ELSE <<>>)
     IN  /\ queue' = [queue EXCEPT
              ![d].text = Tail(@),
              ![d].sentence = Append(@, Sentinel) \o Numbered(emitted, count[d].sentence)]
         /\ gone' = [gone EXCEPT ![d] = IF emitted = <<>> THEN @ \cup ToSet(buffer[d]) ELSE @]
  /\ buffer' = [buffer EXCEPT ![d] = <<>>]
  /\ Goto(d, "buffer", "done")
  /\ BufferOnly /\ UNCHANGED <<count, heard>>

\* The sentinel: what is pending goes out first.
BufferEnds(d) ==
  /\ At(d, "buffer", "loop") /\ queue[d].text # <<>>
  /\ Head(queue[d].text) = Sentinel
  /\ Emit(d, Tail(queue[d].text), IF buffer[d] # <<>> THEN <<buffer[d]>> ELSE <<>>, <<Sentinel>>)
  /\ buffer' = [buffer EXCEPT ![d] = <<>>]
  /\ Goto(d, "buffer", "done")
  /\ BufferOnly /\ UNCHANGED heard

Buffer(d) == IgnoreFragment(d) \/ AddFragment(d) \/ BufferTimeout(d) \/ BufferEnds(d)

-----------------------------------------------------------------------------
(* translation_worker.                                                     *)

TranslatorOnly == ThreadOnly /\ UNCHANGED <<lock, buffer, count, disk, heard, reached>>

TranslatorTake(d) ==
  /\ At(d, "translator", "loop") /\ queue[d].sentence # <<>>
  /\ Head(queue[d].sentence) # Sentinel
  /\ queue' = [queue EXCEPT ![d].sentence = Tail(@)]
  /\ hold' = [hold EXCEPT ![d].translator = Head(queue[d].sentence)]
  /\ Goto(d, "translator", "translate")
  /\ TranslatorOnly /\ UNCHANGED gone

Translated(d) ==
  /\ At(d, "translator", "translate")
  /\ queue' = [queue EXCEPT ![d].translated = Append(@, hold[d].translator)]
  /\ hold' = [hold EXCEPT ![d].translator = Sentinel]
  /\ Goto(d, "translator", "loop")
  /\ TranslatorOnly /\ UNCHANGED gone

\* An exception, or an empty translation: the sentence is given up.
TranslatorFails(d) ==
  /\ At(d, "translator", "translate")
  /\ gone' = [gone EXCEPT ![d] = @ \cup ToSet(hold[d].translator.text)]
  /\ hold' = [hold EXCEPT ![d].translator = Sentinel]
  /\ Goto(d, "translator", "loop")
  /\ TranslatorOnly /\ UNCHANGED queue

TranslatorEnds(d) ==
  /\ At(d, "translator", "loop") /\ queue[d].sentence # <<>>
  /\ Head(queue[d].sentence) = Sentinel
  /\ queue' = [queue EXCEPT ![d].sentence = Tail(@), ![d].translated = Append(@, Sentinel)]
  /\ Goto(d, "translator", "done")
  /\ TranslatorOnly /\ UNCHANGED <<hold, gone>>

Translator(d) ==
  TranslatorTake(d) \/ Translated(d) \/ TranslatorFails(d) \/ TranslatorEnds(d)

-----------------------------------------------------------------------------
(* tts_worker.  It does not unpack the item, and translated_text and         *)
(* sentence_id are unbound.  For "other" the first use is outside of the    *)
(* try block.  For "me" it is inside, and its handler formats sentence_id   *)
(* again.  Either way a NameError ends the thread at its first sentence,    *)
(* nothing is spoken, and what follows stays on the queue.                  *)

SpeechOnly == ThreadOnly /\ UNCHANGED <<lock, hold, buffer, count, disk, heard, gone>>

SpeechDies(d) ==
  /\ At(d, "speech", "loop") /\ queue[d].translated # <<>>
  /\ Head(queue[d].translated) # Sentinel
  /\ queue' = [queue EXCEPT ![d].translated = Tail(@)]
  /\ reached' = [reached EXCEPT ![d] = @ \cup ToSet(Head(queue[d].translated).text)]
  /\ Goto(d, "speech", "dead")
  /\ SpeechOnly

SpeechEnds(d) ==
  /\ At(d, "speech", "loop") /\ queue[d].translated # <<>>
  /\ Head(queue[d].translated) = Sentinel
  /\ queue' = [queue EXCEPT ![d].translated = Tail(@)]
  /\ Goto(d, "speech", "done")
  /\ SpeechOnly /\ UNCHANGED reached

Speak(d) == SpeechDies(d) \/ SpeechEnds(d)

-----------------------------------------------------------------------------
Ended(d) == \A s \in Stages : pc[d][s] \in {"done", "dead"}

Finished == main = "exited" /\ UNCHANGED vars

\* Any of the threads, and the handler of Ctrl+C once it has begun.
Work ==
  \/ Producer
  \/ \E d \in Directions : WakeStt(d) \/ Stt(d) \/ Buffer(d) \/ Translator(d) \/ Speak(d)

Next ==
  \/ LoadModel \/ InterruptUncaught \/ Interrupt \/ Leave
  \/ \E d \in Directions : StartWorkers(d)
  \/ Work \/ RecordingFails \/ SaveChunkFails
  \/ Finished

\* Some thread goes on as long as one can: after a stop the threads have only so
\* many steps left.  Nobody is bound to press Ctrl+C, and the 5 s of a join need
\* not pass before the threads have ended.
Fairness == WF_vars(Work)

Spec == Init /\ [][Next]_vars /\ Fairness

-----------------------------------------------------------------------------
(* Properties.                                                             *)

Token == [seg : Nat, pos : Nat, kind : STRING]
Items == [id : Nat, text : Seq(Token)]

\* Type correctness of the program's state.
TypeOK ==
  /\ active \in {{"me"}, Directions} /\ stop \in BOOLEAN
  /\ main \in {"load", "start", "run", "join", "exited"} \cup Directions
  /\ lock \in Directions \cup {"free"}
  /\ pc \in [Directions -> [Stages -> {"off", "loop", "recording", "save", "end", "lock",
                                     "transcribe", "translate", "done", "dead"}]]
  /\ queue \in [Directions -> [Queues -> Seq(Items)]]
  /\ hold \in [Directions -> [Stages -> Items]]
  /\ buffer \in [Directions -> Seq(Token)]
  /\ count \in [Directions -> [chunk : Nat, sentence : Nat]]
  /\ files \in [Directions -> SUBSET Nat] /\ strays \in [torn : SUBSET Nat, kept : SUBSET Nat]
  /\ heard \in [Directions -> SUBSET Token]
  /\ gone \in [Directions -> SUBSET Token]
  /\ reached \in [Directions -> SUBSET Token]

Texts(items) == [i \in 1 .. Len(items) |-> items[i].text]

\* What was accepted and is still on its way to the speech thread, in order.
OnTheWay(d) ==
  Texts(queue[d].translated) \o <<hold[d].translator.text>>
    \o Texts(queue[d].sentence) \o <<buffer[d]>>

Before(a, b) == a.seg < b.seg \/ (a.seg = b.seg /\ a.pos < b.pos)

\* From the text queue to the speech thread every word is behind those spoken
\* before it, and what reached the speech thread is ahead of all that follows.
LineInOrder(d) ==
  LET line == OnTheWay(d) \o Texts(queue[d].text)
  IN  \A i \in 1 .. Len(line) : \A a \in 1 .. Len(line[i]) :
        /\ \A b \in a + 1 .. Len(line[i]) : Before(line[i][a], line[i][b])
        /\ \A j \in i + 1 .. Len(line) :
             \A b \in 1 .. Len(line[j]) : Before(line[i][a], line[j][b])
        /\ \A token \in reached[d] : Before(token, line[i][a])

\* What the buffer accepted is on its way, has reached the speech thread, or was
\* dropped by a guard or a failed translation, and is in one of the three only.
Conserved(d) ==
  LET coming == Tokens(OnTheWay(d))
  IN  /\ heard[d] = coming \cup reached[d] \cup gone[d]
      /\ reached[d] \cap gone[d] = {}
      /\ coming \cap (reached[d] \cup gone[d]) = {}

\* With one owner for each text nothing is lost, doubled or overtaken on the way to
\* the speech thread, and what a dead one leaves is still on its queue (the stages
\* of main.py from sentence_buffer_worker to tts_worker).
LineKept == \A d \in Directions : LineInOrder(d) /\ Conserved(d)

Writer == [text |-> "stt", sentence |-> "buffer", translated |-> "translator"]
Reader == [text |-> "buffer", sentence |-> "translator", translated |-> "speech"]

\* Between two stages the sentinel comes last and only from a stage that is done:
\* a stage that ends by it has handled everything that was ever queued for it.  A
\* speech thread ends by it only when nothing was translated, else it is dead.
SentinelComesLast ==
  \A d \in Directions, q \in DOMAIN Writer :
    /\ \A i \in 1 .. Len(queue[d][q]) :
         queue[d][q][i] = Sentinel => i = Len(queue[d][q]) /\ pc[d][Writer[q]] = "done"
    /\ pc[d][Reader[q]] = "done" => queue[d][q] = <<>> /\ pc[d][Writer[q]] = "done"

\* The chunks of the microphone that nobody will transcribe: behind a sentinel.
Late ==
  LET audio == queue["me"].audio
  IN  {j \in 1 .. Len(audio) :
         /\ audio[j] # Sentinel
         /\ pc["me"].stt = "done" \/ \E i \in 1 .. j - 1 : audio[i] = Sentinel}

\* At most one chunk comes behind the sentinel, the one that was being saved when
\* the stop came (stop_pipelines, microphone_recorder_worker).  What is queued in
\* front of it is lost only if the joins' 5 s pass.
OneChunkLate == \A i, j \in Late : i = j

\* The chunks that are queued or at Whisper's.
Waiting ==
  {n \in 1 .. count["me"].chunk :
     \/ n = hold["me"].stt.id
     \/ \E i \in 1 .. Len(queue["me"].audio) : queue["me"].audio[i].id = n}

\* A chunk has its temporary file as long as it waits, and no other chunk has one,
\* unless its deletion failed; so when the STT thread has ended, all files of queued
\* chunks have gone but those and the one of a late chunk.  (What a failed save left
\* belongs to no queued chunk: nobody will delete it.  save_microphone_chunk,
\* stt_worker.)
FilesFollowChunks ==
  /\ files["me"] = Waiting \cup strays.kept
  /\ Waiting \cap strays.kept = {}
  /\ pc["me"].stt = "done" => \A m, n \in files["me"] \ strays.kept : m = n

\* What a stop, a failing disk and a failing Whisper may leave of the microphone's
\* chunks: one late chunk, and no file but its own and those that would not go.
ChunksAccounted == OneChunkLate /\ FilesFollowChunks

\* After Ctrl+C the sentinel goes through all stages, and every thread of every
\* direction ends, unless the program has left before (the joins' 5 s).
StopEndsStages == stop ~> (main = "exited" \/ \A d \in active : Ended(d))
=============================================================================
