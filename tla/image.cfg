SPECIFICATION Spec
CONSTANTS
    Devs = {"hash", "uart0", "uart1"}
    ImageWords = {"w1", "w2", "w3", "x"}
    Images <- MCImages
    MaxFlaws = 2
    BFLB_BOOT2_READBUF_SIZE = 2
INVARIANTS DeviceInv VerdictRight
PROPERTY ChecksAsBoot
CHECK_DEADLOCK FALSE
