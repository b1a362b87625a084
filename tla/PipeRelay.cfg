CONSTANTS
    Idles = {0, 2}
    Streams <- Kinds
    Sizes = {1, 2}
    Rate = 2
    MaxPend = 1
SPECIFICATION PipeFairSpec
INVARIANTS RateBound ReadIsDelivered
PROPERTY EndPropagates
CHECK_DEADLOCK FALSE
