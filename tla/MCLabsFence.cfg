\* What the programs' comments say of their fences; refuted on out-of-order cores.
CONSTANTS
    N_TRIALS = 2
    N_ITER = 2
    STORE_BUF_SIZE = 2
SPECIFICATION Spec
INVARIANTS
    FencesEnough
CHECK_DEADLOCK FALSE
