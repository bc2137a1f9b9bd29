SPECIFICATION FairSpec
CONSTANTS
    Pages = 3
    SlotSectors = 3
    MaxRuns = 3
    MaxTrains = 2
INVARIANTS BufferInv DoneIsWhole NoFalseFailure
PROPERTIES HandshakeServed
