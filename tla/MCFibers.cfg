SPECIFICATION MCSpec
CONSTANTS
    w = w  k1 = k1  k2 = k2  g1 = g1  g2 = g2
    None = None  Outer = Outer  Inner = Inner  r1 = r1  r2 = r2
    MaxOps = 3  Positions = {1, 2}  Waiters = {w}
    Keys = {k1, k2}  Getters = {g1, g2}  Expiry = 1  Refresh = 1
    MaxSize = 1  MaxTime = 3  MaxGets = 2
    Groups = {Outer, Inner}  Regions = {r1, r2}  MaxSpace = 2  MaxLarge = 1
    Parent <- MCParent  Threshold <- MCThreshold  SoftLimit <- MCSoftLimit
    Sites <- MCSites  MaxRequests <- MCRequests
CHECK_DEADLOCK FALSE
INVARIANTS
    PostInOrder
    FreshUnlessReloading
    UsageExact
PROPERTIES
    RunsInTurn
    
