SPECIFICATION Spec
CONSTANTS
    people = people
    balances = balances
    Tables <- MCTables
    Keys = {"e", "one", "two", "long"}
    Values = {"a", "b"}
    Absent = "absent"
    Byte = {0, 1}
    TableName <- MCTableName
    PackedKey <- MCPackedKey
    PackedValue <- MCPackedValue
    MaxKeyLength = 2
    MaxStackBuffer = 2
INVARIANTS
    TypeOK
    EntriesBelong
    LoadedIsValue
PROPERTIES
    ImplementsTableSpec
CHECK_DEADLOCK FALSE
