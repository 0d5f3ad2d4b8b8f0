CONSTANTS
  None = None
  r1 = r1  r2 = r2  ka = ka  kb = kb  kc = kc  kd = kd  ke = ke
  Reqs <- MCReqs
  Key <- LongKey
  PromptLen <- LongPrompt
  TotalLen <- LongTotal
  Chunks <- LongChunks
  NumBlocks = 3
  NumStaging = 3
  BlockSize = 2
  Budget = 6
  Depth = 1
  Threads = 1
  DecodeSave = FALSE
  Batched = FALSE
  Aborts = {}
  Faults = FALSE
SPECIFICATION Spec
INVARIANT StagingBacked
CHECK_DEADLOCK FALSE
