SPECIFICATION Spec
CONSTANTS
    TOTAL_FAT12_ENTREIS = 3
    EntriesPerSector = 2
    RootEntries = 2
    SectorBytes = 20
    Names <- TwoNames
    Sizes = {0, 1, 2}
    MaxSaves = 3
    MaxReboots = 2
INVARIANTS
    TypeOK
    DiskConsistent
    Durable
PROPERTY
    ReadsBack
CHECK_DEADLOCK FALSE
