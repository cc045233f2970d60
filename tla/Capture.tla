------------------------------- MODULE Capture -------------------------------
(***************************************************************************)
(* The capture thread of a direction down to the audio: the source         *)
(* (microphone with voice activity detection, microphone with fixed        *)
(* chunks, WAV file), the worker that takes its segments, and the speech-  *)
(* to-text engine.  The driver's callback fills the frame queue meanwhile. *)
(*                                                                         *)
(* Lengths count frames of 100 ms; a fixed chunk and a file are one frame. *)
(* What Silero says of a frame is chosen when the frame arrives.           *)
(***************************************************************************)
EXTENDS Backends, Naturals, FiniteSets

CONSTANTS
  MaxFrames,  \* bound: frames the driver delivers
  HardCap,    \* audio.vad.max_segment_seconds
  MinLength,  \* audio.vad.min_segment_seconds
  Pause       \* audio.vad.min_silence_duration_ms

ASSUME CaptureAssumption ==
  /\ MaxFrames \in Nat
  /\ HardCap \in Nat \ {0} /\ MinLength \in Nat \ {0} /\ Pause \in Nat \ {0}

VARIABLES
  mode,     \* the source: "vad", "fixed" or "wav"
  backend,  \* the backend that SttManager has selected
  device,   \* where faster-whisper has loaded its model
  stopped,  \* the stop event
  frames,   \* _frame_queue
  pending,  \* _buffer of the segmenter
  segment,  \* the segment yielded or being handled
  place,    \* where the capture thread is
  wavs,     \* temporary files, by the number of their first frame
  voiced,   \* history: the frames of speech delivered so far
  delivered, \* history: the number of frames delivered so far
  transcribed, \* history: the frames that were transcribed
  faint,    \* history: frames of speech in segments too short to transcribe
  torn      \* history: files that could not be written whole

source == <<mode, backend, device>>
capHistory == <<voiced, delivered, transcribed, faint, torn>>
capVars == <<source, stopped, frames, pending, segment, place, wavs, capHistory>>

-----------------------------------------------------------------------------
(* Speech to text.                                                         *)

SttOrder == <<"faster-whisper", "whisper-api", "vosk">>
Devices  == <<"cuda", "cpu">>

\* The first preferred device that has a section and loads the model.
LoadedOn(works) == Select(Head(Devices), Devices, works)

\* faster-whisper counts as available with its package alone; a transcription
\* needs the model.  The other two do not take the argument language, which the
\* manager always passes: calling them raises a TypeError.
CanTranscribe == backend = "faster-whisper" /\ device # NoBackend

Signs == {"no_speech_prob", "avg_logprob", "compression_ratio"}

\* Text with none of Whisper's three signs of a hallucination.
SegmentIsReliable(signs) == signs = {}

-----------------------------------------------------------------------------
(* The segmenter.                                                          *)

VoicedAt(audio) == {i \in 1 .. Len(audio) : audio[i].voiced}
FirstVoiced(audio) == CHOOSE i \in VoicedAt(audio) : \A j \in VoicedAt(audio) : i <= j
LastVoiced(audio)  == CHOOSE i \in VoicedAt(audio) : \A j \in VoicedAt(audio) : j <= i

Numbers(audio) == {audio[i].at : i \in VoicedAt(audio)}

Emitted(audio) == [out |-> audio, rest |-> <<>>]
Kept(audio)    == [out |-> <<>>, rest |-> audio]

\* The speech from its first frame to its last.
Trimmed(audio) == SubSeq(audio, FirstVoiced(audio), LastVoiced(audio))

\* The energy fallback, which knows nothing of speech.
Fallback(audio, force) ==
  IF force /\ Len(audio) >= MinLength THEN Emitted(audio) ELSE Kept(audio)

\* Faulty variant of Extract: the hard cap is noticed a frame too late.
ExtractLate(audio, silero, force) ==
  CASE audio = <<>> -> Kept(audio)
    [] Len(audio) > HardCap -> Emitted(audio)
    [] ~silero /\ Len(audio) \in 1 .. HardCap -> Fallback(audio, force)
    [] silero /\ Len(audio) \in 1 .. HardCap /\ VoicedAt(audio) = {} ->
         IF force THEN Emitted(audio) ELSE Kept(audio)
    [] OTHER ->
         IF force \/ Len(audio) - LastVoiced(audio) >= Pause
         THEN Emitted(Trimmed(audio)) ELSE Kept(audio)

Extract(audio, silero, force) ==
  CASE audio = <<>> -> Kept(audio)
    [] Len(audio) >= HardCap -> Emitted(audio)
    [] ~silero /\ Len(audio) \in 1 .. HardCap - 1 -> Fallback(audio, force)
    [] silero /\ Len(audio) \in 1 .. HardCap - 1 /\ VoicedAt(audio) = {} ->
         IF force THEN Emitted(audio) ELSE Kept(audio)
    [] OTHER ->
         IF force \/ Len(audio) - LastVoiced(audio) >= Pause
         THEN Emitted(Trimmed(audio)) ELSE Kept(audio)

-----------------------------------------------------------------------------
CaptureFresh ==
  /\ mode \in {"vad", "fixed", "wav"}
  /\ \E requested \in ToSet(SttOrder), available \in SUBSET ToSet(SttOrder) :
       backend = Select(requested, SttOrder, available)
  /\ backend # NoBackend
  /\ device \in {LoadedOn(works) : works \in SUBSET ToSet(Devices)}
  /\ frames = <<>> /\ pending = <<>> /\ segment = <<>>
  /\ wavs = {}
  /\ voiced = {} /\ delivered = 0 /\ transcribed = {} /\ faint = {} /\ torn = {}

CaptureInit == CaptureFresh /\ place = "loop" /\ stopped = FALSE

NewFrame(speech) == [at |-> delivered + 1, voiced |-> speech]

Delivered(speech) ==
  /\ delivered' = delivered + 1
  /\ voiced' = IF speech THEN voiced \cup {delivered + 1} ELSE voiced

\* Faulty variant of Callback: the newest frame replaces those still queued.
CallbackReplaces(speech) ==
  /\ mode = "vad" /\ place # "done" /\ delivered < MaxFrames
  /\ frames' = <<NewFrame(speech)>>
  /\ Delivered(speech)
  /\ UNCHANGED <<source, stopped, pending, segment, place, wavs, transcribed, faint, torn>>

\* The driver's thread, as long as the generator keeps the stream open.
Callback(speech) ==
  /\ mode = "vad" /\ place # "done" /\ delivered < MaxFrames
  /\ frames' = Append(frames, NewFrame(speech))
  /\ Delivered(speech)
  /\ UNCHANGED <<source, stopped, pending, segment, place, wavs, transcribed, faint, torn>>

\* Orchestrator.stop.
StopCapture ==
  /\ ~stopped /\ stopped' = TRUE
  /\ UNCHANGED <<source, frames, pending, segment, place, wavs, capHistory>>

-----------------------------------------------------------------------------
(* The generators.                                                         *)

Stay == UNCHANGED <<source, stopped, wavs, voiced, delivered, transcribed, torn>>

\* Once more around the loop, out of it, or straight to the file.
SourceLoop ==
  /\ place = "loop"
  /\ place' = CASE mode = "wav"             -> "get"
                [] mode = "vad" /\ stopped   -> "flush"
                [] mode = "fixed" /\ stopped -> "done"
                [] OTHER                     -> "get"
  /\ UNCHANGED <<frames, pending, segment, faint>> /\ Stay

\* Hands result.out to the worker if it is long enough, else drops it.
Yield(result, otherwise) ==
  /\ pending' = result.rest
  /\ IF Len(result.out) >= MinLength
     THEN /\ segment' = result.out /\ place' = "yielded"
          /\ UNCHANGED faint
     ELSE /\ faint' = faint \cup Numbers(result.out) /\ place' = otherwise
          /\ UNCHANGED segment

GetFrame(silero) ==
  /\ mode = "vad" /\ place = "get" /\ frames # <<>>
  /\ frames' = Tail(frames)
  /\ Yield(Extract(Append(pending, Head(frames)), silero, FALSE), "loop")
  /\ Stay

GetTimeout ==
  /\ mode = "vad" /\ place = "get" /\ frames = <<>>
  /\ place' = "loop"
  /\ UNCHANGED <<frames, pending, segment, faint>> /\ Stay

Flush(silero) ==
  /\ place = "flush"
  /\ Yield(Extract(pending, silero, TRUE), "done")
  /\ UNCHANGED frames /\ Stay

\* A fixed chunk: discarded if the stop came while it was recorded.
Record(speech) ==
  /\ mode = "fixed" /\ place = "get" /\ (stopped \/ delivered < MaxFrames)
  /\ IF stopped
     THEN place' = "done" /\ UNCHANGED <<segment, voiced, delivered>>
     ELSE /\ segment' = <<NewFrame(speech)>> /\ Delivered(speech)
          /\ place' = "yielded"
  /\ UNCHANGED <<source, stopped, frames, pending, wavs, transcribed, faint, torn>>

ReadWav ==
  /\ mode = "wav" /\ place = "get"
  /\ segment' = <<NewFrame(TRUE)>> /\ Delivered(TRUE)
  /\ place' = "yielded"
  /\ UNCHANGED <<source, stopped, frames, pending, wavs, transcribed, faint, torn>>

-----------------------------------------------------------------------------
(* The worker: _capture_loop and _handle_segment.                          *)

Crash == place' = "done" /\ segment' = <<>>

\* The device cannot be opened or read, or the file cannot.
SourceFails ==
  /\ place = "get" /\ Crash
  /\ UNCHANGED <<source, stopped, frames, pending, wavs, capHistory>>

\* The loop leaves a segment that comes after the stop, and the generator with it.
StopCheck ==
  /\ place = "yielded"
  /\ place' = IF stopped THEN "done" ELSE "save"
  /\ segment' = IF stopped THEN <<>> ELSE segment
  /\ UNCHANGED <<frames, pending, faint>> /\ Stay

Save ==
  /\ place = "save"
  /\ wavs' = wavs \cup {Head(segment).at}
  /\ place' = "transcribe"
  /\ UNCHANGED <<source, stopped, frames, pending, segment, capHistory>>

\* The disk is full: what was written of the file stays.
SaveFails ==
  /\ place = "save"
  /\ wavs' = wavs \cup {Head(segment).at} /\ torn' = torn \cup {Head(segment).at}
  /\ Crash
  /\ UNCHANGED <<source, stopped, frames, pending, voiced, delivered, transcribed, faint>>

\* Faulty variant of Transcribe: the file is not deleted.
TranscribeKeepsFile(signs) ==
  /\ place = "transcribe" /\ CanTranscribe
  /\ transcribed' = IF SegmentIsReliable(signs) THEN transcribed \cup Numbers(segment) ELSE transcribed
  /\ faint' = IF SegmentIsReliable(signs) THEN faint ELSE faint \cup Numbers(segment)
  /\ segment' = <<>>
  /\ place' = IF mode = "wav" THEN "done" ELSE "loop"
  /\ UNCHANGED <<source, stopped, frames, pending, wavs, voiced, delivered, torn>>

\* The text goes to the sentence buffer; an empty one does not.
Transcribe(signs) ==
  /\ place = "transcribe" /\ CanTranscribe
  /\ transcribed' = IF SegmentIsReliable(signs) THEN transcribed \cup Numbers(segment) ELSE transcribed
  /\ faint' = IF SegmentIsReliable(signs) THEN faint ELSE faint \cup Numbers(segment)
  /\ wavs' = wavs \ {Head(segment).at}
  /\ segment' = <<>>
  /\ place' = IF mode = "wav" THEN "done" ELSE "loop"
  /\ UNCHANGED <<source, stopped, frames, pending, voiced, delivered, torn>>

\* The finally block deletes the file; the exception ends the capture loop.
TranscribeFails ==
  /\ place = "transcribe"
  /\ Crash
  /\ wavs' = wavs \ {Head(segment).at}
  /\ UNCHANGED <<source, stopped, frames, pending, capHistory>>

CaptureWork ==
  \/ SourceLoop \/ GetTimeout \/ ReadWav
  \/ \E silero \in BOOLEAN : GetFrame(silero) \/ Flush(silero)
  \/ \E speech \in BOOLEAN : Record(speech)
  \/ SourceFails \/ StopCheck \/ Save \/ SaveFails
  \/ \E signs \in SUBSET Signs : Transcribe(signs)
  \/ TranscribeFails

CaptureFinished == place = "done" /\ stopped /\ UNCHANGED capVars

CaptureNext ==
  \/ CaptureWork \/ StopCapture \/ CaptureFinished
  \/ \E speech \in BOOLEAN : Callback(speech)

\* The thread runs, and a read of the device or a transcription ends.
CaptureFairness == WF_capVars(CaptureWork)

CaptureSpec == CaptureInit /\ [][CaptureNext]_capVars /\ CaptureFairness
-----------------------------------------------------------------------------
(* Properties.                                                             *)

Frame == [at : 1 .. MaxFrames + 1, voiced : BOOLEAN]

\* Type correctness of the capture thread; what the segmenter keeps is always
\* shorter than the hard cap.
CaptureTypeOK ==
  /\ mode \in {"vad", "fixed", "wav"} /\ stopped \in BOOLEAN
  /\ backend \in ToSet(SttOrder) /\ device \in ToSet(Devices) \cup {NoBackend}
  /\ frames \in Seq(Frame) /\ segment \in Seq(Frame)
  /\ pending \in Seq(Frame) /\ Len(pending) < HardCap
  /\ place \in {"loop", "get", "flush", "yielded", "save", "transcribe", "done"}
  /\ delivered \in 0 .. MaxFrames + 1
  /\ voiced \subseteq 1 .. delivered /\ transcribed \subseteq voiced /\ faint \subseteq voiced
  /\ wavs \subseteq 1 .. delivered /\ torn \subseteq wavs

\* The audio that is still on its way, oldest first.
Coming == segment \o pending \o frames

\* Until a stop or a crash no speech is lost and none is transcribed twice or out
\* of order: every frame of speech was transcribed, was given up as too short or
\* unreliable, or is on its way behind all of these (VadSegmenter, SttManager).
SpeechKept ==
  /\ place # "done" =>
       /\ voiced = transcribed \cup faint \cup Numbers(Coming)
       /\ (transcribed \cup faint) \cap Numbers(Coming) = {}
  /\ \A i, j \in 1 .. Len(Coming) : i < j => Coming[i].at < Coming[j].at
  /\ \A n \in transcribed, i \in 1 .. Len(Coming) : n < Coming[i].at

\* After a stop the thread ends, wherever it is, and no temporary file is left
\* but one that could not be written whole (_handle_segment deletes only inside
\* its try block).
CaptureEndsClean == stopped ~> (place = "done" /\ wavs = torn)
=============================================================================
