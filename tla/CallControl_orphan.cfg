\* One stop request and two calls are enough for a start to slip in.
SPECIFICATION Spec
CONSTANTS
  Requests = {r1}
  Lifespan = lifespan
  MaxCalls = 2
INVARIANT StopStopsTheCall
