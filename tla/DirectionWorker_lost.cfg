\* Two microphone segments: a flush may come between the accesses of an add.
SPECIFICATION Spec
CONSTANTS
  NoisePhrases <- MCNoise
  Fragments <- MCFragments
  MaxSegments = 2
  Finite = FALSE
  WordLimit = 3
  Speaker = "me"
INVARIANT NothingLost
