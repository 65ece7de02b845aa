SPECIFICATION Spec
CONSTANTS
    Nothing = Nothing
    admin = admin
    user = user
    old = old
    new = new
    p1 = p1
    p2 = p2
    Process <- Processes
    Id = {1, 2, 3}
    Key <- Keys
    Value <- Values
    Programs <- AllPrograms
    MaxRun = 3
    MaxDelete = 1
SYMMETRY Symmetric
INVARIANTS
    TypeOK
    DependenciesFirst
    OneRecordPerKey
    SuccessfulRunConverges
PROPERTY
    OthersSeeWholeTransactions
CHECK_DEADLOCK FALSE
