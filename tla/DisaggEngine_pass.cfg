CONSTANTS
  None = None  Bad = Bad
  r1 = r1  r2 = r2  r3 = r3  ka = ka  kb = kb  kc = kc  kd = kd  ke = ke  kf = kf  kg = kg  kh = kh
  Reqs = {r1, r2, r3}
  Key <- MCKey
  PromptLen <- MCPrompt
  TotalLen <- MCTotal
  Decoders <- MCDecoders
  BlockSize = 2
  PBlocks = 6
  DBlocks = 6
  Budget = 3
  MaxSeqs = 2
  TransferCap = 1
  DecodeCap = 1
  Overtake = FALSE
SPECIFICATION Spec
INVARIANTS IntervalsExact BlocksAccounted KVExact  
PROPERTY Answered
CHECK_DEADLOCK FALSE
