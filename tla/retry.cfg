SPECIFICATION Spec
CONSTANTS
    Pages = 2
    SlotSectors = 3
    MaxTry = 3
INVARIANT DoneIsWhole
