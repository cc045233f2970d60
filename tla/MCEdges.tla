------------------------------- MODULE MCEdges -------------------------------
(* Instances for TLC of four parts that share no state: the prototype, the    *)
(* capture end and the speaking end of a direction, and the resource monitor. *)
(* A behaviour runs one of them; the others have ended before it begins.      *)
EXTENDS Prototype, Capture, Speech, Monitor

\* What looks_like_noise rejects: the text of a lone "bye".
MCNoise == {<<"bye">>}

MCSegment(kinds, silent, repetitive) ==
  [kinds |-> kinds, silent |-> silent, unsure |-> FALSE, repetitive |-> repetitive]

\* A sentence and the beginning of the next, after a segment that nobody spoke;
\* a lone word, which fills what is pending or is ignored; noise.
MCTranscripts ==
  {<<MCSegment(<<"word">>, TRUE, FALSE),
     MCSegment(<<"word", "mark", "word", "word">>, FALSE, FALSE)>>,
   <<MCSegment(<<"word">>, FALSE, FALSE)>>,
   <<MCSegment(<<"bye">>, FALSE, FALSE)>>}

VARIABLE part  \* the part that runs

PrototypeOff == Fresh /\ active = {"me"} /\ main = "exited"

CaptureOff ==
  /\ CaptureFresh /\ place = "done" /\ stopped = TRUE
  /\ mode = "wav" /\ backend = "vosk" /\ device = NoBackend

SpeechOff == SpeechInit /\ engine = "coqui" /\ lip = "null"

MonitorOff == MonitorFresh /\ command = "dashboard" /\ viewer = "gone"

EdgesInit ==
  \/ part = "prototype" /\ Init /\ CaptureOff /\ SpeechOff /\ MonitorOff
  \/ part = "capture" /\ CaptureInit /\ PrototypeOff /\ SpeechOff /\ MonitorOff
  \/ part = "speech" /\ SpeechInit /\ PrototypeOff /\ CaptureOff /\ MonitorOff
  \/ part = "monitor" /\ MonitorInit /\ PrototypeOff /\ CaptureOff /\ SpeechOff

EdgesNext ==
  \/ part = "prototype" /\ Next /\ UNCHANGED <<part, capVars, spVars, monVars>>
  \/ part = "capture" /\ CaptureNext /\ UNCHANGED <<part, vars, spVars, monVars>>
  \/ part = "speech" /\ SpeechNext /\ UNCHANGED <<part, vars, capVars, monVars>>
  \/ part = "monitor" /\ MonitorNext /\ UNCHANGED <<part, vars, capVars, spVars>>

\* Of the monitor only the thread that asks has to go on.
EdgesSpec ==
  /\ EdgesInit /\ [][EdgesNext]_<<part, vars, capVars, spVars, monVars>>
  /\ Fairness /\ CaptureFairness /\ WF_monVars(ViewerWork)

\* Each part's state is well typed.
EdgesTypeOK == TypeOK /\ CaptureTypeOK /\ SpeechTypeOK /\ MonitorTypeOK
=============================================================================
