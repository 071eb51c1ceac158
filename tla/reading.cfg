SPECIFICATION PartsSpec
CONSTANTS
  Peers = {1, 2, 3}
  Own = 4
  Codes <- TwoCodes
  Ranks <- RanksByGeneration
  Scenarios <- ReadScenarios
  StaleRetries = 1
  MaxReads = 3
  Objects = {"k1", "k2"}
  Readers = {1, 2}
  Fresh = {"k2"}
  Sizes <- SizesOfObjects
  QueueBytes = 3
  DownAfter = 3
  MaxHotReads = 3
  Shards = {1, 2}
  Hosts = {"h1", "h2"}
  TimeoutsToMark = 3
  DownShare = 5
  MaxMoves = 2
  FirstByte = 3
  Stall = 2
  MaxWrites = 3
  MaxAttempts = 2
  Requests = {"r1", "r2", "r3"}
  Extent = 3
PROPERTY ReadsSound
PROPERTY SourcesSound
PROPERTY ReadingEnds
CHECK_DEADLOCK FALSE
