CONSTANTS
    Jobs <- MCJobs
    Heap <- MCHeap
    Sizes = {1, 4, 7, 12}
    MaxCalls = 6
    Frames = {11, 12}
    MaxEvents = 3
    MaxTraps = 3
SPECIFICATION Spec
INVARIANTS
    AnswersRight
    BlocksDisjoint
    SpacesRight
    LatchesOwn
    ContextsResume
CHECK_DEADLOCK FALSE
