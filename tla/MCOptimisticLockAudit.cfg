CONSTANTS
    c1 = c1
    c2 = c2
    r1 = r1
    r2 = r2
    None = None
    Client <- Clients
    Row <- OneRow
    Existing <- OneRow
    Removal <- AuditedTable
    MaxWrite = 3
SPECIFICATION Spec
PROPERTY UpdateKeepsRowsLive
