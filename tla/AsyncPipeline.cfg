\* Capture, a stage that transcribes and translates, playback; queues of two.
SPECIFICATION Spec
CONSTANTS
  Stages = 3
  Stt = 2
  Llm = 2
  Capacity = 2
  MaxOutputs = 2
  MaxFrames = 3
INVARIANTS
  TypeOK
  CountersAccount
  RoomForTheNew
  QueueInOrder
PROPERTIES
  StopEndsWorkers
