SPECIFICATION FairSpec
CONSTANTS
    Names = {"FW", "mfg"}
    Images = {"a", "b"}
    Chunks = 2
    InitTable <- MCInitTable
INVARIANTS BootInv NoFalseFailure
PROPERTIES SameImage CopiedOnce GetsOn BootEnds
