\* A ring of three places, two watchpoints, every engine.
CONSTANTS
    KEY_QUEUE_LEN = 3
    Keymap = {1}
    MBASE = 0
    MSIZE = 2
    FB_ADDR = 6
    FB_SIZE = 1
    maps <- MCMaps
    NR_WP = 2
    NoExpr = "none"
    Modes = {"functional", "inorder", "ooo", "multi"}
    SiCounts = {0, 1}
    MaxEvents = 2
    Users <- MCUsers
SPECIFICATION Spec
INVARIANTS
    KeysInOrder
PROPERTIES
    NoChangeMissed
CHECK_DEADLOCK FALSE
