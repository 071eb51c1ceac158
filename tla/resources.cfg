SPECIFICATION PartsSpec
CONSTANTS
  Threads = {1, 2, 3}
  RolesOf <- Casts
  MaxCalls = 2
  Owners = {1, 2}
  Entries = {"a", "b"}
  Limit = 2
  Amounts = {1, 2, 3}
  Offsets = 11
  ArenaPages = 5
  ExtentPages = 2
  Word = 2
  ScanSlots = 4
  Regions = {1, 2}
  Ranges = 2
  Total = 6
  Floor = 3
  UsedGoal = 0
  Reserve = 0
  BandPercent = 50
  MaxBand = 1
  Stagers = {"s"}
  ImageRegions = 4
  VMMs = {"v"}
  StateRegions = 1
  OthersTo = {4}
  MaxChanges = 1
  MaxFailures = 1
INVARIANT LocksSound
 
 
CHECK_DEADLOCK FALSE
