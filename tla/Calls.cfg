SPECIFICATION Spec
CONSTANTS
    Contracts = {"first", "second"}
    Actions <- MCActions
    Fields <- MCFields
    Programs <- MCPrograms
    Transactions <- MCTransactions
    MaxStackBuffer = 1
    MaxDepth = 3
INVARIANTS
    ResultsAsDirect
    OnlyResultLeaks
CHECK_DEADLOCK FALSE
