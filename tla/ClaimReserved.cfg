SPECIFICATION Spec
CONSTANTS
    PMM_ENTRIES = 2
    PageSize = 2
    Regions <- SmallRegion
    MaxRegions = 1
    MaxOwned = 6
INVARIANT
    NotFreeIsReserved
