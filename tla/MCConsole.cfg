CONSTANTS
    SCR_W = 16
    SCR_H = 3
    VBLANK = 4
    LAST = 9
    LINES = 9
    SLICES <- MCSlices
    Buttons = {1}
    Carts <- MCCarts
    Top <- MCTop
    Upload <- MCUpload
SPECIFICATION Spec
INVARIANTS
    UploadLands
PROPERTIES
    ReturnsRestore
    LoopsRound
