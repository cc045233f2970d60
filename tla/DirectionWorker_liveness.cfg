\* A file of one segment that ends by itself, with a stop at any moment.
SPECIFICATION Spec
CONSTANTS
  NoisePhrases <- MCNoise
  Fragments <- MCFragments
  MaxSegments = 1
  Finite = TRUE
  WordLimit = 2
  Speaker = "me"
PROPERTIES
  StopEndsThreads
  SentencesProcessed
  PendingTextLeaves
