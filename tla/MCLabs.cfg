\* Two rounds of each program, and a store buffer that fills up.
CONSTANTS
    N_TRIALS = 2
    N_ITER = 2
    STORE_BUF_SIZE = 2
SPECIFICATION Spec
INVARIANTS
    ReportsRight
PROPERTIES
    LabsEnd
CHECK_DEADLOCK FALSE
