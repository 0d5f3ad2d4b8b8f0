CONSTANTS
    Reqs = {r1, r2}
    DpSize = 2
    MaxNumSeqs = 1
    BatchQueueSize = 1
    MaxTokens = 2
    PrefixCaching = FALSE
    Events = {"crash", "reset_error"}
SPECIFICATION Spec
PROPERTIES
    CallsReturn
    ClientsAnswered
CHECK_DEADLOCK FALSE
