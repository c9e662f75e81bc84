CONSTANTS
    NUM_CORES = 2
    NBLOCK = 2
    Offsets = {0}
    Values = {0, 1}
    L1_SETS = 1
    L1_WAYS = 1
    L2_SETS = 1
    L2_WAYS = 1
    Image <- TwoWords
    FetchHarts = {0}
SPECIFICATION ICSpec
INVARIANTS
    FetchSeesStores
