SPECIFICATION FairSpec
CONSTANTS
    Pages = 3
    SlotSectors = 4
    MaxTry = 3
INVARIANTS BufferInv OneAnswer AckedIsWritten CheckedBeforeJump PsmSpared
PROPERTIES FreshIsWhole HostEnds LetsGo
