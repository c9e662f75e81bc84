\* Store buffering on two harts, every grouping of the fence and the load.
CONSTANTS
    DRAM_SIZE = 4
    MMIO_BASE = 6
    Programs <- StoreBuffering
    ROB_SIZE = 4
    RS_SIZE = 3
    MSHR_SIZE = 1
    STORE_BUF_SIZE = 2
    Latencies = {1, 4, 9}
    LAT_L2_HIT = 4
    LAT_INT_MUL = 3
    LINE = 2
SPECIFICATION Spec
INVARIANT
    FenceOrders
