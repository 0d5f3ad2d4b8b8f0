SPECIFICATION Spec
CHECK_DEADLOCK FALSE
SYMMETRY Symmetry
CONSTANTS
    Reqs = {r1, r2, r3}
    NoReq = NoReq
    Async = FALSE
    Resets = TRUE
    Prompts = {1, 3}
    MaxLen = 5
    MaxNumSeqs = 3
    MaxBatchedTokens = 4
    NumBlocks = 3
    BlockSize = 2
    Zero = Zero
    Stale = Stale
INVARIANTS TokensExact DecodesFirst CountsAgree
