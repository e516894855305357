SPECIFICATION MCSpec
CONSTANTS
    Undefined = Undefined
    Keys = {k1, k2}
    Ttls <- MCTtls
    MaxTime = 4
    Never <- MCNever
    Forever = 5
\* The process stops when an assertion fails or the database is destroyed.
CHECK_DEADLOCK FALSE
INVARIANT KeyCommandsKeepServing
