CONSTANTS
    NREG = 3
    CODE_SIZE = 5
    WORD = 8
    NUM_PHYS_REGS = 5
    ROB_SIZE = 3
    RS_SIZE = 2
    FETCH_WIDTH = 2
    NUM_INT_UNITS = 2
    NUM_MUL_UNITS = 1
    Programs <- MCPrograms
SPECIFICATION FairSpec
CHECK_DEADLOCK FALSE
INVARIANTS
    RobContiguous
    RegPartition
    RatConsistent
    MasksExact
    NoLostWakeup
    InFlightOnce
    PanicIsGenuine
PROPERTIES
    ImplementsIsa
    EffectsNotSpeculative
    RunEnds
