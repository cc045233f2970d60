\* Two stop requests that may overlap, two calls, the server going down.
SPECIFICATION Spec
CONSTANTS
  Requests = {r1, r2}
  Lifespan = lifespan
  MaxCalls = 2
INVARIANTS
  TypeOK
  OneCallUnlessRaced
  StatusIsTrue
  CallsEndForGood
PROPERTIES
  StopsAreAnswered
