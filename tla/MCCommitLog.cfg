SPECIFICATION MCSpec
CONSTANTS
    m1 = m1
    m2 = m2
    m3 = m3
    m4 = m4
    Mutations = {m1, m3, m4}
    Size <- MCSize
    Header = 1
    Capacity = 4
    MaxBuffers = 2
    TouchThreshold = 2
    None = None
    HEADER_SIZE = 1
    Sizes = {1, 2, 3}
    OUTPUT_BUFFER_ALIGNMENT = 2
    FLUSH_BUFFER_SIZE = 6
    FileSize = 10
\* The process stops when an assertion fails, and the model when its file is full.
CHECK_DEADLOCK FALSE
INVARIANTS
    PendingSignalled
    WriteAhead
    
PROPERTIES
    FlushedIsSealed
    PendingIsFlushed
