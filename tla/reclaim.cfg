SPECIFICATION Spec
CONSTANTS
    a = a
    b = b
    h1 = h1
    h2 = h2
    p1 = p1
    p2 = p2
    Pages = {p1, p2}
    Segments = {1}
    Writers = {h1, h2}
    VMs = {a, b}
    MaximumCreateEpoch = 1
    MaximumEpoch = 2
    MaximumCounter = 4
    MaximumPins = 2
    MaximumKept = 2
    Bounds <- EveryDay
    SegmentOf <- OneSegment
    MaximumJournals = 0
    State = State
    NoRef = NoRef
    NoRecord = NoRecord
 
INVARIANT ReplacedViewHasItsPages
INVARIANT NothingLeaks
PROPERTY OneContentPerReference
CHECK_DEADLOCK FALSE
SYMMETRY Symmetric
