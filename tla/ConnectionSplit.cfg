SPECIFICATION Spec
CONSTANTS
    Clients = {c1, c2}
    MaxRequests = 3
    QueueSize = 2
    MaxSplits = 1
    None = None
\* A connection whose fibers wait for each other stays as it is.
CHECK_DEADLOCK FALSE
INVARIANT AnsweredAsSent
