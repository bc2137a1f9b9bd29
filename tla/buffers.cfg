SPECIFICATION Spec
CONSTANTS
    HeapSize = 23544
    xHeapStructSize = 8
    TopBit = 2147483647
    BFLB_EFLASH_LOADER_READBUF_SIZE = 4104
    BFLB_EFLASH_LOADER_BLE_READBUF_SIZE = 5128
    BFLB_BOOT2_READBUF_SIZE = 256
    StartupSizes = {8192, 14768}
    MessageSizes = {255}
    MaxMessages = 1
    Frame = 4104
    Part = 64
    MaxConns = 3
INVARIANTS BufferInv HeapConsistent NobodysElse OneLinkIsSafe AtMostOneLost
PROPERTIES ConnectionServed
