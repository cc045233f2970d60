# VoiceBridge AI in TLA+

VoiceBridge AI translates a video call: it listens to a microphone (or a WAV
file), transcribes, gathers the text into sentences, translates them, speaks
the translation and shows everything in a browser. This directory holds TLA+
models of the parts of it where threads, the event loop, failures and bounds
meet, TLC configurations that check them on small instances, and proofs checked
by TLAPS for every size. Paths are relative to the repository; `voicebridge/` is
left out where it is clear.

## The system

| Component | State | Operations | Talks to |
|---|---|---|---|
| Text rules (`pipeline/text_utils.py`) | none | clean, count, split, accept, translate? | sentence buffer |
| Sentence buffer (`pipeline/buffer.py`) | `_buffer`, `_last_update`, **no lock** | `add`, `flush_on_timeout`, `force_flush` | called by two threads of its worker |
| Direction worker (`pipeline/worker.py`) | sentence queue, sentence counter, three threads | capture, timeout and process loops | source, STT, translation, TTS, lip sync, broker |
| Orchestrator (`pipeline/orchestrator.py`) | `_running`, stop event, workers | `add_direction`, `start`, `stop` | workers |
| API (`api/app.py`) | `state["orchestrator"]` | start, stop, info, `/ws`, lifespan | orchestrator, broker |
| Event broker (`api/broker.py`) | history ring, subscriber queues | `publish` from threads, `_deliver` on the loop, `subscribe` | sockets |
| Circuit breaker, fallback chain (`resilience/`, `routing/fallback_chain.py`) | state, failure count, last failure | `call`, `record_*`, `execute` | providers |
| Async pipeline (`pipeline/async_*.py`, `pipeline/workers/`) | bounded queues, counters, stop event | `put` with eviction, `get`, `start`, `stop` | stage engines |
| Translation manager and cache (`translation/`, `cache/`) | memory map, one JSON file | `translate`, `get`, `set`, `_save`, `_load` | backends, file |
| Urdu post-processor (`translation/urdu_postprocessor.py`) | none | `process` | translation manager |
| TTS, audio cache, lip sync (`tts/`, `cache/`, `lipsync/`) | chosen backends, one directory of files | `synthesize`, `get`, `store`, `sync` | engines, files |
| Audio capture, STT (`audio/`, `stt/`) | frame queue, segmenter's buffer, chosen backend, temporary files | callback, `segments`, `transcribe` | worker |
| Resource monitor (`metrics/resource_monitor.py`) | samples, lock, monitoring thread | `start`, `stop`, `sample_now`, `get_summary` | dashboard, benchmarks |
| Prototype (`main.py`) | four queues and five threads per direction, stop event, lock of the model | stages, stop with a sentinel | Whisper, translator |
| Router, rate limiters, collector (`routing/`, `resilience/`, `api/security.py`, `metrics/`) | scores, tokens, records | rank, acquire, record | |

What makes it hard: one stop event for six threads and joins that give up after
5 s; a buffer two threads share without a lock; handlers that await in the
middle of a change of state; events that cross from threads to the loop while a
socket is being caught up; breakers that look, work and record in three
separate steps; a queue that looks, evicts and inserts in three separate steps;
caches with a lock each that save to one file or copy into one directory; a
sentinel that must not overtake what it ends; a lock that is not reentrant.
`PROJECT.json` lists each hazard at its line with the properties that cover it.

## Modules

| Module | Models | Proofs |
|---|---|---|
| `TextUtils` | the decisions of `text_utils.py` on texts of tokens | `TextUtils_proofs` |
| `DirectionWorker` | one worker, its buffer and its three threads | `DirectionWorker_proofs` |
| `MCDirectionWorker` | fragments and noise for TLC | |
| `CallControl` | start and stop requests, the orchestrators, the lifespan | `CallControl_proofs` |
| `EventFeed` | abstract: what the event stream promises a socket | |
| `EventBroker` | broker and WebSocket handlers; implements `EventFeed` | `EventBroker_proofs` |
| `FallbackChain` | fallback chain over circuit breakers, several callers | `FallbackChain_proofs` |
| `AsyncPipeline` | stage workers over bounded queues with backpressure | `AsyncPipeline_proofs` |
| `UrduPostProcessor` | `process` on texts of atoms | |
| `Translation` | retries, fallback and cache of `translate`; extends `UrduPostProcessor` | `Translation_proofs` |
| `MCTranslation` | answers of the backends for TLC, all short texts through `process` | |
| `Backends` | how the managers of the engines choose one; extended by the next two | |
| `Capture` | the capture thread down to the audio: sources, segmenter, STT | `Edges_proofs` |
| `Speech` | speaking a sentence: audio cache, synthesis with retries, lip sync | `Edges_proofs` |
| `Monitor` | resource monitor with the dashboard or the benchmark | `Edges_proofs` |
| `Prototype` | the pipeline of `main.py`; extends `TextUtils` | `Edges_proofs` |
| `MCEdges` | instances of the last four for TLC, one running at a time | `Edges_proofs` |

### DirectionWorker

`cpc`, `tpc` and `ppc` are the program counters of the capture, timeout and
process threads; each names the next access to something shared. `buffer` and
`queue` are `_buffer` and `_sentence_queue`; the age of the buffer is the
boolean `stale`, which time may set whenever there is text. Every read and every
write of `_buffer` is a step, so all interleavings of `add` with `force_flush`
occur. A text is a sequence of tokens, a token a word or a mark with the place
it was spoken, so a lost, doubled or reordered word is seen. Speech recognition
returns any of `Fragments`; translation, speech and lip sync succeed or fail.
`captions`, `shown` and `spoken` are the events emitted; `puts`, `accepted`,
`dropped`, `overlapped` are history variables.

The buffer really does lose text: run `worker_lost` shows a flush that clears
what `add` has just stored. A flush may also empty the buffer between the guard of
the word limit and its use, and an empty sentence is queued. What holds, and
`ConservedUnlessOverlapped` states it, is that either takes a flush between the
accesses of an `add` (or the reverse); `WorkerConserves` proves that nothing else is
needed for text to be kept and guarded.

### CallControl

A handler holds the event loop until it awaits (`LoopFree`). `start` does not
await, so its steps (`Start`, `StartWorker`, `StartDone`) exclude other handlers
but not the threads; `stop` hands `Orchestrator.stop` to a thread (`StopEnter` to
`StopEmit`) and then continues on the loop (`StopResume`). Each call is its own
`Orchestrator`. `raced` remembers whether a start was accepted during a stop:
`calls_orphan` shows that such a start can be forgotten, the other properties say
what holds without it. `CallsEndForGood` says so of the server going down, and in
any case that a join may give up after 5 s and leave a worker behind, but none that has
not been told to stop (`WorkersWereTold`).

### EventBroker and EventFeed

An event is its place in the order of publication. Steps between two awaits of
the handler are one step, so `subscribe` and the snapshot of the history are one.
`EventFeed` says that a socket is told of a suffix of the earlier events and of
later ones, each once, in order; `EventBroker` refines it with `first` mapped to
the event its replay starts from, and `FeedIsComplete` adds that nothing is
missing but what a full queue refused. Both are proved.

### FallbackChain

A call goes through the breaker's lock twice, before and after the provider
works. `expired` stands for `now - last_failure_time >= recovery_timeout_sec`.
`FailureCap` bounds the count in the model only; failures beyond the threshold
are not told apart by the code. `straggler` marks a call let through before the
breaker last opened.

### AsyncPipeline

Worker 1 captures, the last one plays, `Stt` marks transcripts as partial and
`Llm` makes several items of one. `put` is three steps: the look without the
mutex (`Check`), the eviction under it (`Overload`), the insertion (`Insert`,
`Refuse`). `backpressure` is the configuration's switch and never changes.

### UrduPostProcessor

A text is a sequence of atoms (digits, "$", a link's beginning, words, a phrase,
the ends of a placeholder), fine enough for what `process` gets wrong: a
placeholder contains a digit, and `replace` takes the first occurrence of a match
wherever it stands. Dates and addresses are protected by the same loop as amounts
and links. `Plain` texts have no digit in a link and no one-digit number that is
also a placeholder's; for all of them of at most four atoms `process` changes the
phrases only (`PlainTextsAreKept`, which TLC evaluates with the run `translation`).
As a test of the model, `Process` and the Python function were run on all 19,608
texts of at most five of seven atoms, spelled out, and agreed on every one.

### Translation

A user is a thread inside `translate`; `backend` and `attempt` are the two loops,
`memory` and `file` the caches' dictionaries and what `_load` would make of
`translations.json`: nothing when it is absent, truncated or cut short. Storing
is two steps, `Store` (take the lock, make the entry, open the file, which
truncates it) and `Write` (dump, close, release), so that another manager's save,
a new manager's `_load` or the end of the process can come in between. `clash`
records whose saves had the file open at the same time: what they leave may be
whole or not. `Rebuild` is the next call's new orchestrator, `Crash` a restart.
`failures` and `saved` are history variables.

`WholeFile` says when the file can be trusted: after a save that went well and
overlapped no other manager's. It does not say that nothing is ever lost: a crash
in a save loses the whole file, and a manager's save drops what only others know.

### Capture

The audio end of the capture thread that `DirectionWorker` begins with a segment:
a driver's `Callback` fills `frames`; `GetFrame` and `Flush` are the segmenter
(`Extract` is its decision: hard cap, Silero, or the energy fallback, which knows
only the length); `StopCheck`, `Save` and `Transcribe` are what the worker does
with a segment. `place` names where the thread is, across the generator and its
consumer, which take turns. A frame knows whether it holds speech and when it
came; what Silero says can change from one frame to the next, as it does when it
raises. `CanTranscribe` states that `SttManager.transcribe` passes `language` to
backends that do not take it: with Vosk or the API chosen the first segment
ends the capture thread, though the manager has found them available.
`SpeechKept` therefore speaks of threads that have not ended. A stop drops what the
segmenter flushes and what is queued.

### Speech

Each call's `TtsManager` has an `AudioCache` of its own with a lock that only its
own thread takes; the directory is what they share. `copyfile` is three steps,
`Store` (which empties the file), `StoreWrite` and `StoreClose`; `Copy` takes what
the file holds by then. `Select` chooses the engines; `EdgeFails` is the retry,
which writes into the same file again; `Outcomes` what a lip sync backend may
answer or raise, of which `sync` catches `LipSyncError` only. `served` records
what SPEECH_READY announced, `cut` the keys whose copy was cut short, `clash` those
two callers had in hand. `ServedWhole` says that these are the only ways to
announce half a sentence; that they do lead there is the hazard at
`cache/manager.py:96`.

### Monitor

`viewer` is the main thread of `voicebridge dashboard` or `voicebridge benchmark`,
`sampler` the monitoring thread. The lock is not reentrant: `SummarizeNothing`
leaves the viewer at "sample" with the lock in its hand, and only Ctrl+C takes it
from there. `summary_stuck` shows that the dashboard can begin that way;
`SampledSummaryReturns` says that it cannot happen any more after the first
sample.

### Prototype

`main.py` runs five threads per direction, each with its own text in hand, so what
a stage does with one item is one step. Its rules for texts are those of
`text_utils.py`, and `TextUtils` is used for both. The sentinel is item 0. The
stages of the microphone's direction are woken by `WakeStt`, while the recorder may
still be saving a chunk, which then lands behind the sentinel (`Late`).

The speech thread uses unbound names: line 604 outside of its try block for "other",
line 618 inside of it for "me", where the handler at line 625 formats the same name
and raises again. So `SpeechDies` ends the thread ("dead") at its first sentence in
either direction: nothing is ever spoken, and what follows, the sentinel
included, stays on the queue. `LineKept` says what holds up to there, and
`StopEndsStages` that the others end without it.

A save may raise before or after `write` has opened the chunk's file
(`SaveChunkFails`), and a deletion may raise and be logged (`Deleted`): `files` are
the files of queued chunks that exist, `strays` those that nobody will delete, torn
or kept. `FilesFollowChunks` ties both to the chunks that still wait;
`ChunksAccounted` joins it with `OneChunkLate`. The joins' 5 s may pass at any time (`Leave`), and the program may be interrupted before its
main loop or twice (`InterruptUncaught`); what is queued then is lost with the threads.

## Runs

| Run | Instance | Shows |
|---|---|---|
| `worker_safety` | two segments of two kinds, word limit 3, microphone | numbering, order of events and words, conservation, the word limit |
| `worker_liveness` | a file of one segment, word limit 2 | threads end, sentences are processed, text leaves |
| `worker_lost` | as `worker_safety` | finding: accepted text vanishes |
| `calls` | two stop requests and the lifespan, two calls of one or two directions | one known call, truthful status, answers, workers told to stop, an end at shutdown |
| `calls_orphan` | one stop request, two calls | finding: a running call that no stop reaches |
| `broker` | two sockets, four events, history 3, replay 2, queue 1 | complete ordered feed, refinement, leavers forgotten |
| `breaker` | two threads, three candidates, threshold 2 | state and count agree, reliable candidate serves, recovery |
| `pipeline` | three workers, queues of two, three frames, two outputs each | counters, room, order, end |
| `translation` | two threads, two managers, two requests, two backends tried twice | order of retries, file and memory, answers kept |
| `edges` | prototype with one or two directions; capture of five frames; two callers of one sentence; monitor with two samples | order, conservation, temporary files and end of the prototype; speech kept; sentences served whole; summaries answered |
| `summary_stuck` | the monitor alone | finding: the first summary waits for itself |
| `translation_numbered` | as `translation`, answers with a lone 0 or a numbered link | finding: a placeholder is returned and cached |

`edges` runs four parts that share no state in one state space: a behaviour starts
one of them, with the others already ended, so the states add up and do not
multiply, and every property of one part holds trivially in the runs of the others.

Where the code has a fault, a property says what holds beside it, and what it excuses
is this:

* `WordsInSpeechOrder` looks at the words that are there, and `ConservedUnlessOverlapped`
  excuses an `add` that a flush has cut into: what is then lost is `worker_lost`.
* `OneCallUnlessRaced`, `StatusIsTrue` and the first half of `CallsEndForGood` excuse a start during a
  stop, which is `calls_orphan`; the lifespan ends when no stop is in progress.
* `LeaverIsForgotten` speaks of a socket whose handler is in its stream: a client that
  leaves during the replay keeps its queue.
* `SpeechKept` accounts for speech until the capture thread ends, not for what a stop
  leaves in the frames.
* `ServedWhole` excuses copies that were cut short and callers that had a file in hand
  at once, `WholeFile` overlapping saves and the file a crash has just torn.
* `ChunksAccounted` excuses files whose deletion failed, and knows torn ones only as
  files of no queued chunk; it does not speak of chunks queued when the program ends.

Bounds. Two segments suffice for every overlap of one `add` with one flush and
leave text from before it in the buffer; a third only repeats them. Two calls
give an old and a new one; a third is either of them again. The history is one
longer than the replay and the queue shorter than both, so that the ring turns,
the replay is cut and a queue overflows. The threshold of 2 keeps "some failures"
and "open" apart. A queue of two with three frames of up to two items overflows
with the partial transcript first, last or absent. Two threads and two managers give
callers that share a lock and callers that share only the file; two requests, a
memory that knows more than the file; a third of either adds nothing new.
`Translation` has no counter but the attempts, and runs on without a bound; so does
`Speech`, where one key is enough because no step looks at two. In the
prototype two chunks of the microphone put one in the pipeline and one late, each a
sentence with the beginning of the next, a single word that is full or ignored,
or noise; beside a WAV file, which is one item by itself, one chunk gives both
directions something to hold the model's lock for. In the capture run a hard cap of
three frames, a pause of one and a least length of two reach every branch of the
segmenter, five frames a second segment after each of them. One stray file, torn or
kept, tells both from the files of waiting chunks; with a WAV file beside it the
disk is faultless, which keeps the run short. `MaxEvents`, `MaxCalls`, `MaxSegments`,
`MaxFrames` (of `AsyncPipeline` and of `Capture`), `ChunksAlone`, `ChunksBeside`,
`StraysAlone`, `StraysBeside`, `MaxSamples` and `FailureCap` are the only bounds on
counters and stand in guards (`MaxSamples` and `FailureCap` in the step that
counts). No type invariant of the worker or of the prototype repeats one, and no
theorem about them does.

## Fairness

* Worker: each thread that can step does (`WF` of `CaptureWork`, `TimeoutWork`,
  `ProcessWork`): they are operating-system threads that never wait for each
  other. Time passes (`PauseExceeded`). Nobody must speak or press stop. STT and
  the engines are assumed to return; a call that hangs is the case `JoinTimeout`
  of `CallControl`.
* Control: the loop runs its ready handlers, the stopping threads run. Resuming a
  stop is strongly fair because a start handler may hold the loop in between;
  asyncio serves ready callbacks first in, first out. Workers need not end.
* Broker: the loop delivers and each handler that can go on does. Publishing,
  joining and leaving are free.
* Breaker: callers go on, a provider answers one way or the other, the recovery
  timeout passes. Providers need not heal.
* Translation: none; its properties are safety properties.
* Pipeline: each worker steps. Nobody need stop it.
* Capture: its thread goes on: the queue's `get` has a timeout, and a read of the
  device and a transcription end. Frames need not come.
* Prototype: some thread of the pipeline goes on as long as one can. That is
  weaker than fairness for each thread, and enough, since after a stop only
  so many steps are left. The main loop need not be interrupted, and the 5 s of
  a join need not pass.
* Monitor: the thread that asks goes on; for `summary_stuck` the monitoring thread
  as well, so that it is not a lack of fairness that keeps the summary from coming.
* Speech: none; `ServedWhole` is a safety property.

`CHECK_DEADLOCK FALSE` is set for the broker only: with all events published and
delivered it rests. The other models have an explicit final step.

## Proofs

All theorems hold for every value of the constants under the named `ASSUME`s.

* `RemainderIsUnfinished`: what splitting leaves in the buffer has no mark. By the
  bounds of `Nth`, the n-th mark of a text.
* `SplitKeepsTokens`, `TranslatableKeepsTokens`: splitting a text, and asking the last
  guard about each sentence, lose no token and put none in two places. Every position
  up to the last mark lies in the piece that its rank among the marks names (`Rank` is
  the inverse of `Nth`), and none lies in two.
* `WorkerTypes`: `Typed`, the type invariant with the nonempty-list facts that
  `Head` needs at each program counter, is inductive. The type includes the word
  limit: between two adds fewer words are pending than it allows, although the
  limit is looked at once and the other thread may empty the buffer at any access.
* `WorkerNumbers`, `WorkerSpeech`: from `Numbering`, which adds to
  `NumbersMatchSentences` that the number spoken is at most the number shown,
  and equal to it only outside of "translate"; speech then follows its translation.
* `WorkerOrder`: from `InSpeechOrder`, which tells for each list in a thread's hand
  and for the buffer up to which fragment its words were spoken (`SpokenUpTo`); a new
  fragment is later than all of them.
* `WorkerConserves`: from `Kept` and `Guarded`. As long as nothing has overlapped, one thread alone is
  between the accesses of a buffer operation and what it has read is still there
  (`Alone`), and each accepted word is queued, in one of the two threads' lists, pending
  or dropped, in exactly one of the five (`Accounted`); what the guard has looked at
  is still there when it is taken.
* `WorkerTranscripts`: from `Transcribed`: what is queued or about to be has been announced,
  or is the copy that the flush at the end of the source made.
* `ControlTypes`, `ControlKnowsItsCall`: `Safe` says in which step of which handler
  a call may be running without being `state["orchestrator"]`; without it
  `OneCallUnlessRaced` is not inductive, since a stop clears the state on the
  strength of what it knew when it began.
* `ControlEndsCalls`, `ControlStatusIsTrue`: from `Safe` with `Closed` (the lifespan
  ends behind the last request, and no handler follows it) and `Announced` (who has
  ended a call has still to say so, or no "starting" stands). Both rest on
  `StoppedForAll`: without a race, a stop that is past its joins has ended every call.
* `ControlTellsWorkers`, the other half of `ControlEndsCalls`: from `Told`, that a stop which is past the setting of the
  event has set it for the call in its hand, whoever ends that call.
* `BrokerTypes`, `BrokerFeed`: from `Counted`, that the events in the callbacks and in the
  history are numbered from what has been delivered, and `Handled`: what a socket has
  seen, the rest of its replay and its queue are one line of all the events it is
  entitled to but those skipped (`Complete`). This is what makes the replay and the live
  events fit together without a gap or a repetition.
* `BrokerImplementsFeed`: with that invariant every step of the broker is a step of
  `EventFeed` or none under the refinement mapping.
* `ChainTypes`, `ChainCounts`: inductive with the types; every step changes the
  state of a breaker and its count in one lock section.
* `ChainServes`: from `NotBeyond`: the breaker of a candidate that never fails
  counts no failure, so it is CLOSED, and no caller at work is past that candidate.
* `ChainReclose`: from `InFlightIsOlder`: whoever calls through an OPEN breaker was
  let through before it opened.
* `PipelineTypes`: `Typed` adds that a worker is inside `put` exactly while it has
  items to put. `PipelineCounts`: each step moves an item from one count to another.
* `PipelineRoom`: needs the capacity bound of the types: an eviction leaves a queue
  below its capacity, and only its own producer fills it again.
* `PipelineOrder`: from `Ordered`: a queue followed by what its producer has still
  to put is one line, numbered upwards up to `made`. Every step leaves the line
  alone, takes one item out of it (`Without`), or starts a new one behind the queue.
* `TranslationTypes`: with `Given`, that a call about to store has a text.
* `TranslationFallsBack`: `LoopsStand` says for every backend how often it has failed
  while the call tries: as often as configured before the current one, never after.
* `TranslationFile`: from `LocksHeld`: a lock has one holder and a save overlaps none of
  its own manager, so a save that is not excused found the file to itself.
* `TranslationKeeps`: assumes of the post-processor what `translation_numbered` shows it
  does not do for every text, and proves that nothing else changes an answer.
* `SpeechWhole`: from `PartAccounted`, that a cached file which is neither empty nor
  whole has a writer or was cut short; `WriterOpened`, that a writer whose file another
  has opened since is in a clash; and `HandsClash`, that two callers with one
  file in hand always are. What a caller holds (`HoldsWhole`, `CopiesWhole`) is then
  whole or excused.
* `PrototypeSentinel`: every queue between two stages is one line of jobs with numbers,
  and a stage that is not done has put no sentinel on it; a stage that is done took
  the sentinel off an empty line that nobody will add to.
* `PrototypeChunks`: chunks are queued in the order of their recording, main wakes the
  first stage once and after it has set the event, and the recorder has left
  "save" for good once a chunk of it is late; `Filed` says that a file is there exactly
  for each chunk that waits and each whose deletion failed, and that no chunk is
  both, so that at most one file is left when the STT thread has ended, and those.
* `PrototypeLine`: `WordsKept` says that what has reached the speech thread, the translated
  sentences, the one in the translator's hand, those that wait for it and the buffer
  follow each other in the order of speech, and with what was dropped are all that was
  heard; `InTurn`, that chunks come in the order of their numbers and later than every
  word. Every stage moves words from one of these to the next.
* `CaptureTypes`, `CaptureKeepsSpeech`: what is still to come is in three parts that follow
  each other, the segment in hand, what the segmenter keeps and the frames
  (`PartsInOrder`), and with what is transcribed or too faint makes up what was voiced.
* `EdgesTypes`: the types of the four parts together. The monitor's is not inductive
  alone: who asks for a summary still has a report to write (`ReportsLeft`).
* `EdgesKeep`: the theorems on the parts again, for the specification of run `edges`.

The library's theorem on well-founded relations gives a least and a greatest element,
which the lemmas on audio and on queues need; no theorem rests on an
induction over data. What a recursive definition computes enters only through
assumptions: `PrototypeAssumption` says that the tokens of every transcript, flattened,
are a sequence of kinds, and TLC evaluates it on every run; `TranslationKeeps` has
its premise on the post-processor.

Every safety invariant, every action property and the refinement that a passing run
checks is stated by one of these theorems for all values of the constants (`EntitiesKept` under
the premise of `TranslationKeeps`). Only model-checked
is liveness, which TLAPS does not reach: `StopEndsThreads`, `SentencesProcessed`,
`PendingTextLeaves`, `StopsAreAnswered`, `LeaverIsForgotten`,
`FirstCandidateComesBack`, `StopEndsWorkers`, `StopEndsStages`, `CaptureEndsClean`,
`SampledSummaryReturns`; and what `process` does with short texts (`PlainTextsAreKept`), which TLC evaluates.

## Not modelled

* Recognition, translation and synthesis themselves, audio samples, wording of events,
  latency figures, layout of reports: data that no control depends on.
* The provider router and the health checker: sorting by floating-point scores, asked
  only by the load tester. The token bucket is one lock section on a real number,
  and used by no part of a call; `api/app.py` imports its own request limiter and
  never asks it. The metrics collector is one lock section per operation.
* The configuration, which is read once and gives the models their constants; the
  warm-up; API middleware and read-only reports; adapters and data classes.
* The web client, but for its reconnection as another socket.
* A second start of an `AsyncPipeline`, which nobody in the repository makes.

`PROJECT.json` has the list by component with reasons, and for three hazards without a
property why there is none: nobody starts a pipeline twice, payloads have no number by which
a repeated one could be told, and no document promises what a failure between two
sentences of one item keeps.

## Plan

1. Worker, control, broker, breaker, async pipeline, with their first proofs (done).
2. `Translation`; `Speech` with its proof (done).
3. `Prototype`, `Capture`, `Monitor`, checked together by `MCEdges` (done).
4. Proofs of control, prototype, capture, worker and of the broker with its refinement
   (done): no safety property is left to TLC alone.
5. Theorems on what a run does not ask for: what a socket is told after it reconnects,
   and by how much a lossy queue shortens the line of an `AsyncPipeline`.
6. A second session of `AsyncPipeline` in one process, and the rate limiters once a
   part of a call asks them.
