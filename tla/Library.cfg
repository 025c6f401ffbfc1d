SPECIFICATION LibrarySpec
CONSTANTS
    Addrs <- MCAddrs
    ByteSize = 2
    Calls <- MCCalls
    AddrLen = 2
    MaxLen = 4
    Strings <- MCStrings
    Behind <- MCBehind
    CharBits = 2
    FullChars = 4
    NameStrings <- MCNameStrings
    Values = {"n", "N", "d", "D", "a", "A"}
    Large = {"N", "D", "A"}
    LogCalls <- MCLogCalls
    MaxTopics = 2
INVARIANTS
    Results
    NothingElseWritten
    ReadsNumber
    StaysInside
    NamesAgree
    SuffixIsLastPart
    LogsCleanly
CHECK_DEADLOCK FALSE
