CONSTANTS
  Users = {u1, u2}
  Managers = {m1, m2}
  Requests = {"en", "ur"}
  UrduRequests = {"ur"}
  Says <- MCNumbered
  Backends = 2
  MaxAttempts = 2
SPECIFICATION Spec
INVARIANT EntitiesKept
