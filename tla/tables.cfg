SPECIFICATION Spec
CONSTANTS
    fw = fw
    psm = psm
    r1 = r1
    r2 = r2
    NoTable = NoTable
    Types <- MCTypes
    FwCpu0 = fw
    Revs <- MCRevs
    PT_ENTRY_MAX = 2
    AgeMod = 4
    PageSize = 32
    UpdatesPerRead = 1
    Bad = NoTable
    InitFlash <- MCInitFlash
INVARIANTS HandleInv CommitInv FlipReachesBoot
PROPERTIES NeverBricked Atomic
