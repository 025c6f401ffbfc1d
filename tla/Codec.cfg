SPECIFICATION Spec
CONSTANTS
    PayloadBits = 2
    WordBits = 5
    Types <- MCTypes
    ValuesOf <- MCValuesOf
    MaxJunk = 1
    MaxForeign = 3
INVARIANTS
    RoundTrip
    TruncationNoticed
    TargetDoesNotShow
    RepackNeverLonger
CHECK_DEADLOCK FALSE
