SPECIFICATION Spec
CONSTANTS
    FlashSize = 34
    SectorSize = 2
    BFLB_SPIFLASH_BLK32K_SIZE = 8
    BFLB_SPIFLASH_BLK64K_SIZE = 16
    PageSize = 4
INVARIANTS EraseExact ProgramExact
PROPERTIES WithinPage
