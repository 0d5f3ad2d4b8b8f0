CONSTANTS
  None = None
  r1 = r1  r2 = r2  r3 = r3  ka = ka  kb = kb
  Reqs = {r1, r2, r3}
  Key <- MCKey
  Rest <- MCRest
  PBlocks = 4
  DBlocks = 4
  D2H = TRUE
  PoolSize = 1
  Aborts = {r2}
  Overlap = FALSE
SPECIFICATION Spec
INVARIANTS  ReleasedAfterInsert  NeverFails
PROPERTIES PAdmits DServes
CHECK_DEADLOCK FALSE
