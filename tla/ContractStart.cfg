SPECIFICATION Spec
CONSTANTS
    user1 = user1
    user2 = user2
    malloc = malloc
    new = new
    lib = lib
    Objects <- MCObjects
    Members <- MCMembers
    Late <- MCLate
    Allocator = malloc
    PageSize = 4
    PageLimit = 6
    Alignment = 2
    HostMaxPages = 4
    HeapBases <- MCHeapBases
    Sizes <- MCSizes
    StackSize = 2
    DataSizes <- MCDataSizes
    PostPassFails = FALSE
    MaxBlocks = 2
INVARIANTS
    LinkedOnce
    AllocatorFirst
    
    StartsAsDsMalloc
CHECK_DEADLOCK FALSE
