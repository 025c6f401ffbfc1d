SPECIFICATION FairSpec
CONSTANTS
    Types <- MCTypes
    Programs <- MCPrograms
    Builtins <- MCBuiltins
    ValidNames <- MCValidNames
    StackLimit = 12
INVARIANTS
    AbiClosed
    ActionsDescribed
PROPERTIES
    TraversalEnds
CHECK_DEADLOCK FALSE
