SPECIFICATION Spec
CONSTANTS
    Names = {"FW", "mfg"}
    Images = {"a", "b"}
    Chunks = 2
    InitTable <- MCInitTable
INVARIANT HashChecked
