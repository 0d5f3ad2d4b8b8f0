CONSTANTS
  None = None
  r1 = r1  r2 = r2  ka = ka  kb = kb  kc = kc  kd = kd  ke = ke
  Reqs <- MCReqs
  Key <- MCKey
  PromptLen <- MCPrompt
  TotalLen <- MCTotal
  Chunks <- MCChunks
  NumBlocks = 3
  NumStaging = 2
  BlockSize = 2
  Budget = 4
  Depth = 2
  Threads = 1
  DecodeSave = TRUE
  Batched = FALSE
  Aborts = {r1}
  Faults = TRUE
SPECIFICATION Spec
INVARIANTS StagingBacked PinsExact CacheExact ReadsExact NeverFails
CHECK_DEADLOCK FALSE
