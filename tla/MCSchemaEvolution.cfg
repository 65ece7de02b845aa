SPECIFICATION Spec
CONSTANTS
    TableName = {1, 2}
    ColumnName = {1, 2}
    IdColumn = 1
    Lost = Lost
    Models <- AllModels
    MaxFile = 2
    MaxByHand = 1
INVARIANTS
    TypeOK
    RegistryDescribesSchema
    NextFileExecutes
    LastFileReverts
    CleanReportIsTrue
