SPECIFICATION MCSpec
CONSTANTS Peers = {p}  Broadcast = TRUE  Encrypt = TRUE  nr_retry = 2
CONSTANTS MaxCalls = 2  MaxConnections = 3  MaxFailures = 1
CONSTANTS p = p  e = e  o1 = o1  o2 = o2  o3 = o3
CHECK_DEADLOCK FALSE
INVARIANTS StopReachesAll
PROPERTIES HealthyKept 
