SPECIFICATION FairSpec
CONSTANTS
    None = None
    g1 = g1
    g2 = g2
    g3 = g3
    q = q
    Caller <- Callers
    Owner <- Owners
    Text <- Texts
    Stmt = {1, 2, 3, 4}
    MaxOpenConns = 1
    MaxNested = 2
INVARIANTS
    TypeOK
    NothingLeaks
PROPERTY
    OperationsEnd
