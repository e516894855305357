SPECIFICATION MCSpec
CONSTANTS
    Clients = {c1, c2}
    MaxRequests = 3
    QueueSize = 2
    MaxSplits = 1
    None = None
    Undefined = Undefined
    Cpus = {"cpu1", "cpu2"}
    Conns = {"c1", "c2"}
    Keys <- MCKeys
    Members <- MCMembers
    Owner <- MCOwner
    Home <- MCHome
    Numerals <- MCNumerals
    Bytes <- MCBytes
    GeoHash <- MCGeoHash
    Scripts <- MCScripts
\* A connection whose fibers wait for each other stays as it is.
CHECK_DEADLOCK FALSE
INVARIANTS
    ExecutedOnceInOrder
    AnsweredInOrder
    
    KeyAtItsShard
    
PROPERTIES
    RequestAnswered
    RequestsAnswered
