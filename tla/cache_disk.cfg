SPECIFICATION PartsSpec
CONSTANTS
  Keys = {a, b}
  NoKey = nokey
  CellsOf <- CellsByKind
  Slots = {0, 1, 2}
  Shares = {1, 2}
  IndexItems = 2
  MaxOpens <- OpensByKind
  MaxStops <- StopsByKind
  Kinds = {"cache", "own", "shard"}
  Burst = 3
  BytesPerDay = 2
  Day = 3
  Priorities = 4
  MaxElapsed = 4
  MaxOthers = 2
  MaxAdmits = 2
 
INVARIANT BudgetKept
PROPERTY LogSound
CHECK_DEADLOCK FALSE
SYMMETRY KeySymmetry
