CONSTANTS
    Reqs = {r1, r2}
    NoReq = NoReq
    Empty = Empty
    Pad = Pad
    Zero = Zero
    Win = 5
    Ratio = 4
    MaxSeqLen = 22
    MaxModelLen = 22
    IndexTopK = 2
    HeadDim = 3
    IndexHeadDim = 2
    Buckets = {4, 8, 16, 32}
SPECIFICATION Spec
INVARIANTS
    WindowExact
    BlocksExact
    SeedParity
    PackedExact
    IndInv
PROPERTIES
    VisibleBlocksStable
    RefinesContext
