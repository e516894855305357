SPECIFICATION MCSpec
CONSTANTS
    m1 = m1
    m2 = m2
    m3 = m3
    m4 = m4
    Mutations = {m1, m2}
    Size <- MCSize
    Header = 1
    Capacity = 4
    MaxBuffers = 2
    TouchThreshold = 2
    None = None
    HEADER_SIZE = 1
    Sizes = {1}
    OUTPUT_BUFFER_ALIGNMENT = 2
    FLUSH_BUFFER_SIZE = 6
    FileSize = 2
\* The process stops when an assertion fails.
CHECK_DEADLOCK FALSE
PROPERTY AckedReachesDisk
