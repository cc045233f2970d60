---------------------------- MODULE AsyncPipeline ----------------------------
(***************************************************************************)
(* AsyncPipelineOrchestrator (voicebridge/pipeline/async_pipeline.py): a   *)
(* chain of stage workers (pipeline/workers/) linked by BoundedAsyncQueue  *)
(* (pipeline/async_queue.py).  Worker 1 reads frames from the source;      *)
(* worker w > 1 takes from queue w - 1, works, and puts what it makes, if  *)
(* anything, on queue w; the last worker plays.  In the code the chain is  *)
(* VAD, STT, LLM, TTS, Playback.                                           *)
(*                                                                         *)
(* put looks at the queue without its mutex, then makes room under the     *)
(* mutex, then inserts: the consumer may take an item in between.          *)
(***************************************************************************)
EXTENDS Naturals, Sequences, SequencesExt

CONSTANTS
  Stages,        \* number of workers, 5 in the code
  Stt, Llm,      \* the workers that transcribe and translate: 2 and 3 of 5; a
                 \* shorter chain may have one worker do both
  Capacity,      \* maxsize of a queue
  MaxOutputs,    \* most items a stage makes of one: the LLM's sentences
  MaxFrames      \* bound: speech frames the source yields

ASSUME PipelineAssumption ==
  /\ Stages \in Nat /\ Stt \in 2 .. (Stages - 1) /\ Llm \in 2 .. (Stages - 1)
  /\ Capacity \in Nat \ {0}
  /\ MaxOutputs \in Nat \ {0} /\ MaxFrames \in Nat

Workers == 1 .. Stages
Queues  == 1 .. (Stages - 1)

VARIABLES
  backpressure,  \* enable_backpressure of the configuration
  stop,       \* stop_event
  frames,     \* frames with speech read so far
  queue,      \* the items in a queue, oldest first
  pc, todo,   \* a worker's step, and the items it has still to put
  made,       \* items a worker has made so far: numbers its items
  overload_count, dropped_count, compacted_count,
  sent, taken \* history: how many put and get calls on a queue have returned

countVars == <<overload_count, dropped_count, compacted_count>>
vars == <<backpressure, stop, frames, queue, pc, todo, made, countVars, sent, taken>>

\* An item is known by its number among the items of its producer.  A transcript
\* is partial when its confidence is below 1.0.
Item(n, partial) == [number |-> n, partial |-> partial]

Init ==
  /\ backpressure \in BOOLEAN
  /\ stop = FALSE /\ frames = 0
  /\ queue = [k \in Queues |-> <<>>]
  /\ pc = [w \in Workers |-> "loop"] /\ todo = [w \in Workers |-> <<>>]
  /\ made = [w \in Workers |-> 0]
  /\ overload_count = [k \in Queues |-> 0] /\ dropped_count = [k \in Queues |-> 0]
  /\ compacted_count = [k \in Queues |-> 0]
  /\ sent = [k \in Queues |-> 0] /\ taken = [k \in Queues |-> 0]

At(w, step) == pc[w] = step
Goto(w, step) == pc' = [pc EXCEPT ![w] = step]

\* What a worker does when it has made items: put them one by one.
Make(w, items) ==
  /\ todo' = [todo EXCEPT ![w] = items]
  /\ made' = [made EXCEPT ![w] = @ + Len(items)]
  /\ Goto(w, IF items = <<>> THEN "loop" ELSE "check")

-----------------------------------------------------------------------------
(* BaseWorker._run_loop and the steps of the stages.                        *)

\* Faulty variant of Loop: the worker does not look at the stop event.
LoopOn(w) ==
  /\ At(w, "loop")
  /\ Goto(w, "ready")
  /\ UNCHANGED <<backpressure, stop, frames, queue, todo, made, countVars, sent, taken>>

Loop(w) ==
  /\ At(w, "loop")
  /\ Goto(w, IF stop THEN "done" ELSE "ready")
  /\ UNCHANGED <<backpressure, stop, frames, queue, todo, made, countVars, sent, taken>>

\* The VAD worker reads a frame with speech in it, or one without.
Capture ==
  /\ At(1, "ready") /\ frames < MaxFrames
  /\ frames' = frames + 1
  /\ Make(1, <<Item(made[1] + 1, FALSE)>>)
  /\ UNCHANGED <<backpressure, stop, queue, countVars, sent, taken>>

Silence ==
  /\ At(1, "ready")
  /\ Goto(1, "loop")
  /\ UNCHANGED <<backpressure, stop, frames, queue, todo, made, countVars, sent, taken>>

\* get: an item, or queue.Empty after 0.2 s.
Get(w) ==
  /\ w > 1 /\ At(w, "ready") /\ queue[w - 1] # <<>>
  /\ queue' = [queue EXCEPT ![w - 1] = Tail(@)]
  /\ taken' = [taken EXCEPT ![w - 1] = @ + 1]
  /\ Goto(w, "work")
  /\ UNCHANGED <<backpressure, stop, frames, todo, made, countVars, sent>>

GetNothing(w) ==
  /\ w > 1 /\ At(w, "ready") /\ queue[w - 1] = <<>>
  /\ Goto(w, "loop")
  /\ UNCHANGED <<backpressure, stop, frames, queue, todo, made, countVars, sent, taken>>

\* process_item: items for the next queue, fewer when the text is empty or held
\* back in the sentence buffer, or when an exception ends it.  The last worker
\* plays the item.
Process(w, n, partial) ==
  /\ w > 1 /\ At(w, "work")
  /\ n <= IF w = Stages THEN 0 ELSE IF w = Llm THEN MaxOutputs ELSE 1
  /\ partial => w = Stt
  /\ Make(w, [i \in 1 .. n |-> Item(made[w] + i, partial)])
  /\ UNCHANGED <<backpressure, stop, frames, queue, countVars, sent, taken>>

-----------------------------------------------------------------------------
(* BoundedAsyncQueue.put by worker w on queue w.                            *)

Full(k) == Len(queue[k]) >= Capacity

\* Faulty variant of Check: a queue about to be full is full.
CheckLate(w) ==
  /\ At(w, "check")
  /\ Goto(w, IF Len(queue[w]) > Capacity /\ backpressure THEN "overload" ELSE "insert")
  /\ UNCHANGED <<backpressure, stop, frames, queue, todo, made, countVars, sent, taken>>

Check(w) ==
  /\ At(w, "check")
  /\ Goto(w, IF Full(w) /\ backpressure THEN "overload" ELSE "insert")
  /\ UNCHANGED <<backpressure, stop, frames, queue, todo, made, countVars, sent, taken>>

Partials(k) == {i \in 1 .. Len(queue[k]) : queue[k][i].partial}

\* The oldest partial transcript, or else the oldest item.
Victim(k) ==
  IF Partials(k) = {} THEN 1
  ELSE CHOOSE i \in Partials(k) : \A j \in Partials(k) : i <= j

\* Faulty variant of Overload: an evicted item is not counted.
OverloadUncounted(w) ==
  /\ At(w, "overload")
  /\ Goto(w, "insert")
  /\ overload_count' = [overload_count EXCEPT ![w] = @ + 1]
  /\ IF queue[w] = <<>>
     THEN UNCHANGED <<queue, dropped_count, compacted_count>>
     ELSE /\ queue' = [queue EXCEPT ![w] = RemoveAt(@, Victim(w))]
          /\ UNCHANGED <<dropped_count, compacted_count>>
  /\ UNCHANGED <<backpressure, stop, frames, todo, made, sent, taken>>

\* _handle_overload makes room without looking again whether the queue is full.
Overload(w) ==
  /\ At(w, "overload")
  /\ Goto(w, "insert")
  /\ overload_count' = [overload_count EXCEPT ![w] = @ + 1]
  /\ IF queue[w] = <<>>
     THEN UNCHANGED <<queue, dropped_count, compacted_count>>
     ELSE /\ queue' = [queue EXCEPT ![w] = RemoveAt(@, Victim(w))]
          /\ IF Partials(w) # {}
             THEN /\ compacted_count' = [compacted_count EXCEPT ![w] = @ + 1]
                  /\ UNCHANGED dropped_count
             ELSE /\ dropped_count' = [dropped_count EXCEPT ![w] = @ + 1]
                  /\ UNCHANGED compacted_count
  /\ UNCHANGED <<backpressure, stop, frames, todo, made, sent, taken>>

\* The call of put is over: the next item, or back to the loop.
PutReturns(w) ==
  /\ sent' = [sent EXCEPT ![w] = @ + 1]
  /\ todo' = [todo EXCEPT ![w] = Tail(@)]
  /\ Goto(w, IF Len(todo[w]) = 1 THEN "loop" ELSE "check")

\* Faulty variant of Insert: it does not wait for room.
InsertAnyway(w) ==
  /\ At(w, "insert")
  /\ queue' = [queue EXCEPT ![w] = Append(@, Head(todo[w]))]
  /\ PutReturns(w)
  /\ UNCHANGED <<backpressure, stop, frames, made, countVars, taken>>

\* Faulty variant of Insert: at the wrong end.
InsertInFront(w) ==
  /\ At(w, "insert") /\ ~Full(w)
  /\ queue' = [queue EXCEPT ![w] = <<Head(todo[w])>> \o @]
  /\ PutReturns(w)
  /\ UNCHANGED <<backpressure, stop, frames, made, countVars, taken>>

Insert(w) ==
  /\ At(w, "insert") /\ ~Full(w)
  /\ queue' = [queue EXCEPT ![w] = Append(@, Head(todo[w]))]
  /\ PutReturns(w)
  /\ UNCHANGED <<backpressure, stop, frames, made, countVars, taken>>

\* Still full after the timeout: the new item is dropped.
Refuse(w) ==
  /\ At(w, "insert") /\ Full(w)
  /\ overload_count' = [overload_count EXCEPT ![w] = @ + 1]
  /\ dropped_count' = [dropped_count EXCEPT ![w] = @ + 1]
  /\ PutReturns(w)
  /\ UNCHANGED <<backpressure, stop, frames, queue, made, compacted_count, taken>>

-----------------------------------------------------------------------------
\* AsyncPipelineOrchestrator.stop, or BaseWorker.cancel.
Stop ==
  /\ ~stop
  /\ stop' = TRUE
  /\ UNCHANGED <<backpressure, frames, queue, pc, todo, made, countVars, sent, taken>>

Step(w) ==
  \/ Loop(w) \/ Get(w) \/ GetNothing(w)
  \/ \E n \in 0 .. MaxOutputs, partial \in BOOLEAN : Process(w, n, partial)
  \/ (w \in Queues /\ (Check(w) \/ Overload(w) \/ Insert(w) \/ Refuse(w)))

Finished == (\A w \in Workers : At(w, "done")) /\ UNCHANGED vars

Next ==
  \/ \E w \in Workers : Step(w)
  \/ Capture \/ Silence
  \/ Stop
  \/ Finished

Fairness ==
  /\ \A w \in Workers : WF_vars(Step(w))
  /\ WF_vars(Capture \/ Silence)

Spec == Init /\ [][Next]_vars /\ Fairness

-----------------------------------------------------------------------------
(* Properties.                                                             *)

Items == [number : Nat \ {0}, partial : BOOLEAN]

\* Type correctness; no queue ever holds more than its capacity.
TypeOK ==
  /\ backpressure \in BOOLEAN /\ stop \in BOOLEAN /\ frames \in 0 .. MaxFrames
  /\ queue \in [Queues -> Seq(Items)] /\ todo \in [Workers -> Seq(Items)]
  /\ \A k \in Queues : Len(queue[k]) <= Capacity
  /\ pc \in [Workers -> {"loop", "ready", "work", "check", "overload", "insert", "done"}]
  /\ made \in [Workers -> Nat]
  /\ overload_count \in [Queues -> Nat] /\ dropped_count \in [Queues -> Nat]
  /\ compacted_count \in [Queues -> Nat]
  /\ sent \in [Queues -> Nat] /\ taken \in [Queues -> Nat]

\* Every item put is taken, queued, or counted as dropped or compacted, whatever
\* the consumer does while room is being made (put, _handle_overload, get).
CountersAccount ==
  \A k \in Queues :
    sent[k] = taken[k] + Len(queue[k]) + dropped_count[k] + compacted_count[k]

\* With backpressure on, a put never waits and never drops the new item: nobody
\* else fills the room that was made for it.
RoomForTheNew ==
  backpressure => \A w \in Queues : At(w, "insert") => ~Full(w)

\* Making room never reorders: a queue holds its items in the order in which
\* they were made, all older than what its producer has still to put.
QueueInOrder ==
  \A k \in Queues :
    LET line == queue[k] \o todo[k]
    IN  \A i, j \in 1 .. Len(line) : i < j => line[i].number < line[j].number

\* After the stop event every worker returns, with items left in the queues or
\* not: nobody waits for room for good.
StopEndsWorkers == stop ~> (\A w \in Workers : At(w, "done"))
=============================================================================
