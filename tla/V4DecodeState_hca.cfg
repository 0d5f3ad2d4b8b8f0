CONSTANTS
    Reqs = {r1, r2}
    NoReq = NoReq
    Empty = Empty
    Pad = Pad
    Zero = Zero
    Win = 3
    Ratio = 8
    MaxSeqLen = 27
    MaxModelLen = 27
    IndexTopK = 2
    HeadDim = 3
    IndexHeadDim = 2
    Buckets = {4, 8, 16, 32}
SPECIFICATION Spec
INVARIANTS
    BlocksExact
CHECK_DEADLOCK FALSE
