SPECIFICATION ScenarioSpec
CONSTANTS
    w1 = w1
    w2 = w2
    w3 = w3
    c1 = c1
    c2 = c2
    Writers = {w1, w2, w3}
    Callers = {c1, c2}
    Calls <- PinAndRemove
    MaximumCreateEpoch = 1
    MaximumEpoch = 3
    MaximumCounter = 2
    MaximumPins = 1
    MaximumKept = 1
    MaximumJournals = 1
    NoRecord = NoRecord
    MaxFaults = 2
    MaxUpdates = 2
INVARIANT OneHandlePerEpoch
INVARIANT TrackedIsDurable
INVARIANT FencedMeansTakenOver
 
PROPERTY RecordPromise
SYMMETRY WriterSymmetry
CHECK_DEADLOCK FALSE
