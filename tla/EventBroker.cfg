\* Two sockets, a history one longer than the replay, queues that fill up.
SPECIFICATION Spec
CONSTANTS
  Sockets = {s, t}
  Replay = 2
  HistoryLimit = 3
  MaxQueue = 1
  MaxEvents = 4
CHECK_DEADLOCK FALSE
INVARIANTS
  TypeOK
  FeedIsComplete
PROPERTIES
  ImplementsFeed
  LeaverIsForgotten
