SPECIFICATION Spec
CONSTANTS
    AddressSpace = 8
    MaxCalls = 1
INVARIANT
    SeekReportsRange
CHECK_DEADLOCK FALSE
