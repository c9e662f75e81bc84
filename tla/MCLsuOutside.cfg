\* Programs that break a property of the engine; tlc -continue -lncheck
\* final shows all of them.  The latencies of the code.
CONSTANTS
    DRAM_SIZE = 4
    MMIO_BASE = 6
    Programs <- Outside
    ROB_SIZE = 4
    RS_SIZE = 3
    MSHR_SIZE = 2
    STORE_BUF_SIZE = 2
    Latencies = {1, 8, 40}
    LAT_L2_HIT = 8
    LAT_INT_MUL = 3
    LINE = 2
SPECIFICATION Spec
INVARIANTS
    LoadsSeeStores
    FenceOrders
    MessagePassing
    StoresInOrder
PROPERTIES
    RunsToEnd
