SPECIFICATION Spec
CONSTANTS
    Nil = Nil
    c1 = c1
    c2 = c2
    u1 = u1
    u2 = u2
    i1 = i1
    i2 = i2
    m1 = m1
    m2 = m2
    Scope <- Scopes
    Value <- Values
    ValueOf <- ValuesOf
    Id <- Ids
    Model <- Models
    Requests <- AllRequests
    Tables <- AllTables
    BatchSize = 2
    Batches <- ItemLists
    MaxWrite = 2
    Disciplined = TRUE
SYMMETRY Symmetric
INVARIANTS
    TypeOK
    RowsKeepTheirScope
    CreatedByNamesCreator
    RetriedCreateMakesOneRow
    WritesStayInScope
PROPERTY
    BatchWritesEveryItem
CHECK_DEADLOCK FALSE
