SPECIFICATION AllParts
CONSTANTS
  NumPages = 4
  FanOut = 2
  Objects = {"L", "R", "C", "D"}
  Frames = {1, 2, 3}
  Values = {0, 1}
  Scenarios <- PassingScenarios
  Keys = {"k1", "k2"}
  Budget = 2
  MaxVersions = 1
  MaxPublished = 2
  Queued = {1, 2}
  NumReclaim = 4
  NumActive = 2
  PeekBatch = 1
  MaxGen = 7
INVARIANT ReadsAsStored
 
INVARIANT SpillSound
INVARIANT QueuesInOrder
CHECK_DEADLOCK FALSE
