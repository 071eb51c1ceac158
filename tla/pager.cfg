SPECIFICATION Spec
CONSTANTS
  Pages = {p1}
  Frames = {f1, f2, f3}
  Slots = {s1, s2}
  Values = {0, 1}
  None = None
  Gone = Gone
  Zero = Zero
  Free = Free
  Empty = Empty
  Unknown = Unknown
  Dropped = Dropped
  MaxSeals = 1
  PmemCold = FALSE
  PmemSettles = FALSE
INVARIANT GuestKeepsItsStores
INVARIANT FrozenBytesStand
 
SYMMETRY Symmetric
CHECK_DEADLOCK FALSE
