SPECIFICATION Spec
CHECK_DEADLOCK FALSE
SYMMETRY Symmetry
CONSTANTS
    Reqs = {r1, r2}
    NoReq = NoReq
    Async = TRUE
    Resets = FALSE
    Prompts = {1, 3}
    MaxLen = 6
    MaxNumSeqs = 3
    MaxBatchedTokens = 4
    NumBlocks = 4
    BlockSize = 2
    Zero = Zero
    Stale = Stale
INVARIANTS TokensExact
