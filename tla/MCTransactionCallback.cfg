SPECIFICATION FairCallSpec
CONSTANTS
    Handle = {h1, h2, h3}
    Write = {w1, w2}
    Goroutine = {g1}
    None = None
    MaxSavepoint = 2
INVARIANTS
    CallTypeOK
    CallsTellFateOfWrites
    ReturnedCallsHoldNoConnection
    CurrentSavepointExists
PROPERTIES
    EveryTransactionEnds
    ImplementsNestedTransactions
CHECK_DEADLOCK FALSE
