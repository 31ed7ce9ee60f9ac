SPECIFICATION Spec
CONSTANTS
    PMM_ENTRIES = 3
    PageSize = 2
    Regions <- EveryRegion
    MaxRegions = 2
    MaxOwned = 2
INVARIANTS
    TypeOK
    ReservedNeverOwned
    OneFrameTooMany
    SpillBounded
PROPERTY
    FramesConserved
