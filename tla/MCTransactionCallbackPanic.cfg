SPECIFICATION PanicSpec
CONSTANTS
    Handle = {h1, h2}
    Write = {w1}
    Goroutine = {g1}
    None = None
    MaxSavepoint = 1
INVARIANT
    ReturnedCallsHoldNoConnection
CHECK_DEADLOCK FALSE
