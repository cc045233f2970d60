\* Two threads, a guarded provider, one without a breaker, and a guarded local
\* model that never fails.
SPECIFICATION Spec
CONSTANTS
  Callers = {c, d}
  Length = 3
  Guarded = {1, 3}
  Reliable = {3}
  Threshold = 2
  FailureCap = 3
INVARIANTS
  TypeOK
  ClosedBelowThreshold
  ReliableCandidateServes
PROPERTIES
  OnlyStragglersReclose
  FirstCandidateComesBack
