SPECIFICATION Spec
CONSTANTS
    PageSize = 4
    PageLimit = 5
    Alignment = 2
    HostMaxPages = 3
    HeapBases <- MCAnyBases
    Sizes <- MCSizes
INVARIANTS
    NoPageWasted
PROPERTIES
    AbortOnlyWhenFull
CHECK_DEADLOCK FALSE
