CONSTANTS
    Reqs = {r1, r2}
    DpSize = 2
    MaxNumSeqs = 1
    BatchQueueSize = 2
    MaxTokens = 2
    PrefixCaching = TRUE
    Events = {"pause"}
SPECIFICATION Spec
INVARIANTS
    PipesInStep
    BatchesPaired
    LivesWhereAssigned
PROPERTIES
    AssignmentsReclaimed
    WorkersGone
CHECK_DEADLOCK FALSE
