SPECIFICATION Spec
CHECK_DEADLOCK FALSE
CONSTANTS
    DpSize = 1
    Reqs = {r1, r2, r3}
    NoReq = NoReq
    MaxModelLen = 5
    MaxBatchedTokens = 5
    TokenPaddings = {2, 4, 8}
    BatchQueueSize = 2
    MaxOutstanding = 3
    Pad = Pad
    Dirty = Dirty
    Garbage = Garbage
 
PROPERTIES Completes RefinesContext
