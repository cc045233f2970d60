\* The prototype with one or both directions, a capture thread with each source
\* and backend, two calls that speak the same sentence, and the monitor.
SPECIFICATION EdgesSpec
CONSTANTS
  NoisePhrases <- MCNoise
  Transcripts <- MCTranscripts
  ChunksAlone = 2
  ChunksBeside = 1
  StraysAlone = 1
  StraysBeside = 0
  WordLimit = 3
  MaxFrames = 5
  HardCap = 3
  MinLength = 2
  Pause = 1
  Callers = {c, d}
  Keys = {k}
  Attempts = 2
  MaxSamples = 2
INVARIANTS
  EdgesTypeOK
  LineKept
  SentinelComesLast
  ChunksAccounted
  SpeechKept
  ServedWhole
PROPERTIES
  StopEndsStages
  CaptureEndsClean
  SampledSummaryReturns
