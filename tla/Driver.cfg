SPECIFICATION MCSpec
CONSTANTS
    p1 = p1
    p2 = p2
    Procs <- MCProcs
    NoOut = NoOut
    Commands <- MCCommands
    Sources <- MCSources
    Outputs <- MCOutputs
    Leftovers <- MCLeftovers
INVARIANTS
    FaithfulBuild
    TempsGone
PROPERTIES
    SourcesKept
    Ends
CHECK_DEADLOCK FALSE
