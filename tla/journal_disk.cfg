SPECIFICATION FairSpec
CONSTANTS
    a = a
    b = b
    c1 = c1
    c2 = c2
    c3 = c3
    c4 = c4
    Commits = {c1, c2, c3, c4}
    VMs = {a, b}
    Epochs = {1, 2}
    VmOf <- FourVms
    EpochOf <- FourEpochs
    RoomOf <- FourRooms
    RingLength = 12
    BlockUnits = 2
    MaxBatchUnits = 5
    Leases = {1, 2}
    Bounds <- Scenarios
    NoJournal = NoJournal
    NoSlot = NoSlot
    NoBatch = NoBatch
    Blank = Blank
    Pad = Pad
INVARIANT AnsweredIsKept
 
INVARIANT HandedOverExactly
PROPERTY CommitsEnd
CHECK_DEADLOCK FALSE
