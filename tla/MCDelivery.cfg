SPECIFICATION DeliverySpec
CONSTANTS
  l1 = l1
  l2 = l2
  Event = {1, 2}
  Result = {11, 12}
  Lane = {l1, l2}
  NoLane = NoLane
  MaxAttempts = 2
  MaxRetries = 0
  MaxFence = 2
  LastFence = 2
  MaxVersion = 2
  MaxCalls = 2
  MaxFrames = 3
  MaxUploads = 2
  DraftLimit = 2
  FrameLimit = 1
SYMMETRY LaneSymmetry
INVARIANTS
  EventsInOrder
  AckedIsReceived
  ResultsSerialized
  DraftIsTrue
CHECK_DEADLOCK FALSE
