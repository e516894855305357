SPECIFICATION MCSpec
CONSTANTS
    Nodes = {n1, n2}
    Seeds = {n1}
    RingMembers = {n1}
    MaxVersion <- Versions
    MaxGeneration <- Generations
    Publishers = {n2}
    n1 = n1  n2 = n2  r1 = r1
    MaxMessages = 2
    MaxLost = 1
    Statuses = {"NORMAL"}
    MAX_GENERATION_DIFFERENCE = 9
CHECK_DEADLOCK FALSE
INVARIANTS LiveOrUnreachable ViewComplete  
PROPERTY ViewForward
