\* Two microphone segments, the process thread speaking.
SPECIFICATION Spec
CONSTANTS
  NoisePhrases <- MCNoise
  Fragments <- MCFragments
  MaxSegments = 2
  Finite = FALSE
  WordLimit = 3
  Speaker = "me"
INVARIANTS
  TypeOK
  NumbersMatchSentences
  WordsInSpeechOrder
  ConservedUnlessOverlapped
PROPERTIES
  TranscriptBeforeTranslation
