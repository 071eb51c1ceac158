SPECIFICATION PartsSpec
CONSTANTS
  Callers = {1, 2}
  Prefetchers = {2}
  Keys = {1, 2}
  Segments = {2}
  Loads = {l1, l2, l3}
  NoLoad = NoLoad
  LoadLimit = 1
  PrefetchLimit = 1
  Batches <- BatchesOfReads
  MaxClears = 1
  Pubs = {1, 2}
  Prompt = {3}
  Bytes <- BytesOfFills
  QueueBytes = 4
  KeepsInFlight = 2
  KeepsPerHolder = 1
  Budget = 3
  MaxMoves = 1
INVARIANT PinnedNotDisposed
PROPERTY LoadsSound
 
CHECK_DEADLOCK FALSE
SYMMETRY LoadSymmetry
