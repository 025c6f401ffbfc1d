SPECIFICATION Spec
CONSTANTS
    PageSize = 4
    PageLimit = 4
    Alignment = 2
    HostMaxPages = 4
    HeapBases <- MCInnerBases
    Sizes <- MCSizes
INVARIANTS
    TypeOK
    BlocksInMemory
    BlocksDisjoint
    PageCountExact
PROPERTIES
    CursorMonotone
    ImplementsHeapSpec
CHECK_DEADLOCK FALSE
