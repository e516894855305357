SPECIFICATION MCSpec
CONSTANTS
    Regions = {1, 2}
    Evictable = {2}
    MaxObjects = 12
    Kinds <- MCKinds
    SegmentSize = 6
    MinFree = 4
    Memory = 8
    Gap = 0
    MaxZone = 4
    MinZone = 1
    ReserveMax = 2
    LsaReserve = 2
    Step = 1
    LargeSize = 7
    Scenes <- MCScenes
    Operations = 5
    o1 = o1  o2 = o2  e1 = e1  e2 = e2  e3 = e3
INVARIANTS CompactionFits AllocatorConsistent ContainersExact
PROPERTY MovesAreTold
CHECK_DEADLOCK FALSE
