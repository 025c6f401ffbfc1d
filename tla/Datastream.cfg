SPECIFICATION Spec
CONSTANTS
    AddressSpace = 8
    MaxCalls = 3
INVARIANTS
    PackAbortsOnlyWhenHuge
    PackFills
PROPERTIES
    CheckedAccess
CHECK_DEADLOCK FALSE
