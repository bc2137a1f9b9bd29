SPECIFICATION Spec
CONSTANTS
    Devs = {"hash", "uart0", "uart1"}
    ImageWords = {"w1", "w2", "w3", "x"}
    Images <- MCImages
    MaxFlaws = 1
    BFLB_BOOT2_READBUF_SIZE = 2
INVARIANT SignatureVerified
CHECK_DEADLOCK FALSE
